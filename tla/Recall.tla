------------------------------- MODULE Recall -------------------------------
(***************************************************************************)
(* CockroachRecallAdapter.recall against tables that change under it: the  *)
(* instant of the query is fixed before the read (it is the observed_at of *)
(* the incident), the three queries run later in one read-only snapshot,   *)
(* each takes the nearest candidate_limit rows BEFORE it filters by        *)
(* service or subject, and the ranker gates, scores and diversifies what   *)
(* is left.  Facts are transitioned meanwhile (SemanticFacts); episodes    *)
(* and runbooks are rows of a fixed table.                                 *)
(***************************************************************************)
EXTENDS SemanticFacts, Sequences, FiniteSetsExt

CONSTANTS
  Queries,     \* the RecallQuery values asked (bounds the inputs)
  Tables,      \* contents of episodic_events and procedural_memory
  Policy,      \* RecallPolicy: its limits and thresholds
  About,       \* per key: service of its subject (Null: org-wide), similarity
               \* of its embedding to the query, confidence
  ReadRetries  \* max_retries of _run_read_only

\* Rows have their primary keys and numeric columns; ORDER BY distance decides
\* between two keys.
TableOK(t) ==
  /\ IsFiniteSet(t.episodes) /\ IsFiniteSet(t.runbooks)
  /\ \A e \in t.episodes : {e.id, e.similarity, e.occurred_at, e.recorded_at} \subseteq Nat
  /\ \A d, e \in t.episodes : d.id = e.id => d = e
  /\ \A r \in t.runbooks :
       /\ {r.id, r.similarity, r.recorded_at, r.success_rate, r.positive} \subseteq Nat
       /\ r.last_used \in Nat \cup {Null}
  /\ \A r, s \in t.runbooks : r.id = s.id => r = s

ASSUME RecallAssumption ==
  /\ ReadRetries \in Nat
  /\ IsFiniteSet(Writer)
  /\ \A t \in Tables : TableOK(t)
  /\ \A q \in Queries : q.as_of \in Nat /\ q.k \in Nat
  /\ \A k \in Key : About[k].similarity \in Nat /\ About[k].confidence \in Nat
  /\ \A j, k \in Key : About[j].similarity = About[k].similarity => j = k
  /\ {Policy.candidate_multiplier, Policy.candidate_floor, Policy.max_candidate_limit,
      Policy.max_episodes, Policy.max_facts, Policy.max_runbooks} \subseteq Nat

INSTANCE RecallRanker

VARIABLES
  tables,   \* the rows of episodic_events and procedural_memory
  reader    \* the call of recall: its query, candidates and bundle

recallVars == <<clock, facts, call, tables, reader>>

NoCandidates == [episodes |-> {}, facts |-> {}, runbooks |-> {}]

RecallInit ==
  /\ Init
  /\ tables \in Tables
  /\ reader = [pc |-> "idle", query |-> Null, attempt |-> 0,
               found |-> NoCandidates, bundle |-> Null]

----------------------------------------------------------------------------
(* The queries.                                                            *)

\* ORDER BY distance LIMIT n: ties are broken arbitrarily.
Nearest(rows, n) ==
  IF Cardinality(rows) <= n THEN {rows}
  ELSE {S \in kSubset(n, rows) :
          \A r \in S, o \in rows \ S : r.similarity >= o.similarity}

Candidate ==
  [kind |-> "semantic", id |-> 0, case |-> Null, agent |-> Null, service |-> Null,
   similarity |-> 0, occurred_at |-> Null, valid_from |-> Null, valid_to |-> Null,
   recorded_at |-> 0, superseded_by |-> Null, outcome |-> Null, confidence |-> 0,
   success_rate |-> 0, usage |-> 0, positive |-> 0, counterexamples |-> 0,
   tags |-> {}, signatures |-> {}, last_used |-> Null]

\* _episode: episodes of one incident are one case.
AsEpisode(row) ==
  [Candidate EXCEPT
     !.kind = "episodic", !.id = row.id, !.agent = row.agent, !.service = row.service,
     !.case = IF row.incident = Null THEN <<"event", row.id>> ELSE <<"incident", row.incident>>,
     !.similarity = row.similarity, !.occurred_at = row.occurred_at,
     !.recorded_at = row.recorded_at, !.outcome = row.outcome]

\* _fact: a fact about a service is given the query's service.
AsFact(q, f) ==
  LET k == facts[f].key IN
  [Candidate EXCEPT
     !.case = k, !.agent = facts[f].agent,
     !.service = IF About[k].service = Null THEN Null ELSE q.service,
     !.similarity = About[k].similarity, !.confidence = About[k].confidence,
     !.valid_from = facts[f].valid_from, !.valid_to = facts[f].valid_to,
     !.recorded_at = facts[f].recorded_at, !.superseded_by = facts[f].superseded_by]

\* _runbook: versions of one name are one case.
AsRunbook(row) ==
  [Candidate EXCEPT
     !.kind = "procedural", !.id = row.id, !.case = row.name, !.agent = row.agent,
     !.similarity = row.similarity, !.recorded_at = row.recorded_at,
     !.success_rate = row.success_rate, !.usage = row.usage,
     !.positive = row.positive, !.counterexamples = row.counterexamples,
     !.tags = row.tags, !.signatures = row.signatures, !.last_used = row.last_used]

\* The rows EPISODIC_RECALL_SQL orders by distance. A query without an incident
\* passes the zero UUID, which no row has.
EpisodicRows(q) ==
  {e \in tables.episodes : /\ e.agent = q.agent
                           /\ e.occurred_at <= q.as_of
                           /\ e.incident = Null \/ e.incident # q.incident}

\* Mutant: episodes without a service are dropped.
EpisodicRecallScoped(q) ==
  {{AsEpisode(e) : e \in {e \in S : e.service = q.service}} :
     S \in Nearest(EpisodicRows(q), CandidateLimit(q.k))}

\* EPISODIC_RECALL_SQL: the service filter comes after the limit.
EpisodicRecall(q) ==
  {{AsEpisode(e) : e \in {e \in S : e.service \in {Null, q.service}}} :
     S \in Nearest(EpisodicRows(q), CandidateLimit(q.k))}

\* SEMANTIC_RECALL_SQL: the subject filter comes after the limit.
SemanticRecall(q) ==
  LET near(f) == [fact |-> f, similarity |-> About[facts[f].key].similarity]
  IN {{AsFact(q, r.fact) :
         r \in {r \in S : About[facts[r.fact].key].service \in {Null, q.service}}} :
        S \in Nearest({near(f) : f \in SemanticRows(q.agent, q.as_of)},
                      CandidateLimit(q.k))}

\* PROCEDURAL_RECALL_SQL.
ProceduralRecall(q) ==
  {{AsRunbook(r) : r \in S} :
     S \in Nearest({r \in tables.runbooks : /\ r.agent = q.agent
                                            /\ r.status = "active"
                                            /\ r.recorded_at <= q.as_of},
                   CandidateLimit(q.k))}

----------------------------------------------------------------------------
(* One call of recall.                                                     *)

\* A cold start touches no table.
Ask ==
  /\ reader.pc = "idle"
  /\ \E q \in Queries :
       reader' = IF q.cold_start
                   THEN [reader EXCEPT !.pc = "done", !.query = q, !.bundle = ColdBundle]
                   ELSE [reader EXCEPT !.pc = "reading", !.query = q]
  /\ UNCHANGED <<clock, facts, call, tables>>

\* The three queries see one snapshot.
Read ==
  /\ reader.pc = "reading"
  /\ LET q == reader.query IN
     \E E \in EpisodicRecall(q), F \in SemanticRecall(q), R \in ProceduralRecall(q) :
       reader' = [reader EXCEPT !.pc = "done", !.attempt = 0,
                                !.found = [episodes |-> E, facts |-> F, runbooks |-> R],
                                !.bundle = Rank(q, E, F, R)]
  /\ UNCHANGED <<clock, facts, call, tables>>

\* RecallError for the caller: there is no bundle.
Raise == reader' = [reader EXCEPT !.pc = "failed", !.query = Null, !.attempt = 0]

\* 40001: the whole read again; RecallError when the attempts are used up.
ReadAgain ==
  /\ reader.pc = "reading"
  /\ IF reader.attempt < ReadRetries THEN reader' = [reader EXCEPT !.attempt = @ + 1]
                                     ELSE Raise
  /\ UNCHANGED <<clock, facts, call, tables>>

\* Any other error: RecallError.
ReadError ==
  /\ reader.pc = "reading"
  /\ Raise
  /\ UNCHANGED <<clock, facts, call, tables>>

RecallNext ==
  \/ Ask \/ Read \/ ReadAgain \/ ReadError
  \/ Tick /\ UNCHANGED <<tables, reader>>
  \/ \E w \in Writer : TransitionFact(w) /\ UNCHANGED <<tables, reader>>

RecallSpec == RecallInit /\ [][RecallNext]_recallVars

----------------------------------------------------------------------------
(* Properties.                                                             *)

Answered == reader.pc = "done" /\ ~reader.query.cold_start

\* The greedy scan of _diverse gives what its reader expects: of the best
\* candidate of every case the best ones, in order, for all three kinds.
RankMatchesReference ==
  Answered =>
    LET q == reader.query IN
    /\ IsDiverseChoice(reader.bundle.episodes, ScoredEpisodes(q, reader.found.episodes),
                       AtMost(q.k, Policy.max_episodes))
    /\ IsDiverseChoice(reader.bundle.facts, ScoredFacts(q, reader.found.facts),
                       Policy.max_facts)
    /\ IsDiverseChoice(reader.bundle.runbooks, ScoredRunbooks(q, reader.found.runbooks),
                       Policy.max_runbooks)

\* An episode that passes the gates is missing from the candidates only if
\* candidate_limit episodes of the agent, of whatever service, are as near.
LostOnlyByCrowding ==
  Answered =>
    LET q == reader.query IN
    \A e \in tables.episodes :
      e \in EpisodicRows(q) /\ EpisodeEligible(q, AsEpisode(e)) =>
        \/ AsEpisode(e) \in reader.found.episodes
        \/ Cardinality({o \in EpisodicRows(q) \ {e} : o.similarity >= e.similarity})
             >= CandidateLimit(q.k)

\* Read your own writes: a fact the agent has recorded, that is in scope and
\* that nobody has replaced by the instant of the query is among the
\* candidates of every read after its commit, unless nearer facts crowd it out.
ReadYourOwnFact ==
  [][reader.pc = "reading" /\ reader'.pc = "done" =>
       LET q == reader.query IN
       \A f \in Recorded :
         /\ facts[f].agent = q.agent
         /\ About[facts[f].key].service \in {Null, q.service}
         /\ facts[f].valid_from <= q.as_of /\ facts[f].recorded_at <= q.as_of
         /\ \A g \in Recorded : facts[g].key = facts[f].key
              => facts[g].valid_from <= facts[f].valid_from \/ facts[g].valid_from > q.as_of
         => \/ AsFact(q, f) \in reader'.found.facts
            \/ Cardinality(SemanticRows(q.agent, q.as_of)) > CandidateLimit(q.k)]_recallVars
=============================================================================
