---------------------------- MODULE RecallRanker ----------------------------
(***************************************************************************)
(* RecallRanker: the safety gates a recalled candidate must pass, its      *)
(* score, and the choice of a diverse, bounded list.  Similarities, rates, *)
(* confidences and scores are in percent; the unit of time is the half     *)
(* life of recency, so that exp(-ln 2 * age / half_life) is 2^-age.        *)
(***************************************************************************)
EXTENDS Naturals, Sequences, FiniteSets

CONSTANTS
  Policy,   \* RecallPolicy: its limits and thresholds
  Null

AtMost(m, n) == IF m <= n THEN m ELSE n
AtLeast(m, n) == IF m >= n THEN m ELSE n

\* candidate_limit: how many rows each query fetches.
CandidateLimit(k) ==
  AtMost(AtLeast(AtLeast(k, 1) * Policy.candidate_multiplier, Policy.candidate_floor),
         Policy.max_candidate_limit)

----------------------------------------------------------------------------
(* Gates.                                                                  *)

\* _scope_valid; runbooks carry no service.
ScopeValid(q, c) == c.agent = q.agent /\ c.service \in {Null, q.service}

\* _temporally_valid: the candidate held and was known at the query's instant.
TemporallyValid(q, c) ==
  /\ c.valid_from # Null => c.valid_from <= q.as_of
  /\ c.valid_to # Null => c.valid_to > q.as_of
  /\ c.recorded_at <= q.as_of
  /\ c.occurred_at # Null => c.occurred_at <= q.as_of

EpisodeEligible(q, c) ==
  /\ ScopeValid(q, c) /\ TemporallyValid(q, c)
  /\ c.similarity >= Policy.min_episode_similarity
  /\ c.occurred_at # Null => q.as_of - c.occurred_at <= Policy.max_episode_age

FactEligible(q, c) ==
  /\ ScopeValid(q, c) /\ TemporallyValid(q, c)
  /\ c.similarity >= Policy.min_fact_similarity
  /\ c.confidence >= Policy.min_fact_confidence

\* An empty set of tags or signatures applies to everything.
RunbookEligible(q, c) ==
  /\ ScopeValid(q, c) /\ TemporallyValid(q, c)
  /\ c.similarity >= Policy.min_runbook_similarity
  /\ c.success_rate >= Policy.min_runbook_success_rate
  /\ c.usage >= Policy.min_runbook_usage_count
  /\ c.positive >= Policy.min_positive_provenance
  /\ c.counterexamples * 100
       <= Policy.max_counterexample_ratio * AtLeast(c.positive + c.counterexamples, 1)
  /\ c.tags = {} \/ c.tags \cap q.tags # {}
  /\ c.signatures = {} \/ q.signature \in c.signatures

----------------------------------------------------------------------------
(* Scores.                                                                 *)

\* 100 * 2^-n, rounded down.
Halved[n \in Nat] == IF n = 0 THEN 100 ELSE Halved[n - 1] \div 2

Recency(q, t) == IF t = Null THEN 0 ELSE Halved[AtLeast(q.as_of, t) - t]

\* The outcome is that of the action whose memory_ref is the episode.
ScoreEpisode(q, c) ==
  65 * c.similarity + 20 * Recency(q, c.occurred_at)
    + 10 * (IF c.outcome = "success" THEN 100 ELSE 0)
    + 5 * (IF c.service = q.service THEN 100 ELSE 50)

ScoreFact(q, c) ==
  60 * c.similarity + 25 * c.confidence + 10 * Recency(q, c.recorded_at)
    + 5 * ((AtMost(c.positive, 3) * 100) \div 3)

\* _runbook_scope_score: a matching restriction beats none.
RunbookScope(q, c) ==
  ((IF c.tags \cap q.tags # {} THEN 100 ELSE IF c.tags = {} THEN 50 ELSE 0)
    + (IF q.signature \in c.signatures THEN 100 ELSE IF c.signatures = {} THEN 50 ELSE 0)) \div 2

ScoreRunbook(q, c) ==
  55 * c.similarity + 25 * c.success_rate
    + 10 * Recency(q, IF c.last_used = Null THEN c.recorded_at ELSE c.last_used)
    + 5 * ((AtMost(c.positive, 3) * 100) \div 3) + 5 * RunbookScope(q, c)

\* What may be acted on: an episode whose action succeeded (its outcome comes
\* with the action's id, so the id is always there) and any eligible runbook.
Actionable(c) == c.kind = "procedural" \/ (c.kind = "episodic" /\ c.outcome = "success")

Scored(S, Score(_)) ==
  {[candidate |-> c, score |-> Score(c), actionable |-> Actionable(c)] : c \in S}

\* The candidates that pass their gates, with their scores.
ScoredEpisodes(q, C) ==
  Scored({c \in C : EpisodeEligible(q, c)}, LAMBDA c : ScoreEpisode(q, c))
ScoredFacts(q, C) ==
  Scored({c \in C : FactEligible(q, c)}, LAMBDA c : ScoreFact(q, c))
ScoredRunbooks(q, C) ==
  Scored({c \in C : RunbookEligible(q, c)}, LAMBDA c : ScoreRunbook(q, c))

----------------------------------------------------------------------------
(* Choice.                                                                 *)

\* Descending by score, then similarity, then id.
Better(a, b) ==
  \/ a.score > b.score
  \/ a.score = b.score /\ a.candidate.similarity > b.candidate.similarity
  \/ /\ a.score = b.score /\ a.candidate.similarity = b.candidate.similarity
     /\ a.candidate.id > b.candidate.id

\* The items by the key of the sort: an item's place is the number of better ones.
Sorted(items) ==
  [n \in 1..Cardinality(items) |->
     CHOOSE i \in items : Cardinality({j \in items : Better(j, i)}) = n - 1]

\* Mutant: the first of a case is not remembered, so a case may appear twice.
SelectForgetful(selected, item, limit) ==
  IF selected # <<>> /\ Len(selected) >= limit THEN selected ELSE Append(selected, item)

\* One turn of the loop of _diverse, which tests its limit only after it has
\* appended.
Select(selected, item, limit) ==
  IF \/ selected # <<>> /\ Len(selected) >= limit
     \/ \E i \in DOMAIN selected : selected[i].candidate.case = item.candidate.case
    THEN selected ELSE Append(selected, item)

\* _diverse: one item per diversity key, best first.
Diverse(items, limit) ==
  LET best == Sorted(items)
      picked[n \in 0..Cardinality(items)] ==
        IF n = 0 THEN <<>> ELSE Select(picked[n - 1], best[n], limit)
  IN picked[Cardinality(items)]

ColdBundle == [cold_start |-> TRUE, episodes |-> <<>>, facts |-> <<>>, runbooks |-> <<>>]

\* rank: what the agent is shown.
Rank(q, episodes, facts, runbooks) ==
  IF q.cold_start THEN ColdBundle
  ELSE [cold_start |-> FALSE,
        episodes |-> Diverse(ScoredEpisodes(q, episodes), AtMost(q.k, Policy.max_episodes)),
        facts |-> Diverse(ScoredFacts(q, facts), Policy.max_facts),
        runbooks |-> Diverse(ScoredRunbooks(q, runbooks), Policy.max_runbooks)]

----------------------------------------------------------------------------
(* Reference for Diverse: of the best item of every case, the best ones.   *)

BestOfCase(items) ==
  {i \in items : ~\E j \in items : j.candidate.case = i.candidate.case /\ Better(j, i)}

IsDiverseChoice(list, items, limit) ==
  LET best == BestOfCase(items)
      chosen == {i \in best : LET above == {j \in best : Better(j, i)} IN
                              above = {} \/ Cardinality(above) < limit}
  IN /\ {list[n] : n \in DOMAIN list} = chosen
     /\ \A m, n \in DOMAIN list : m < n => Better(list[m], list[n])
=============================================================================
