------------------------- MODULE RunbookRepository -------------------------
(***************************************************************************)
(* CockroachRunbookRepository: what the consolidation job writes into      *)
(* procedural_memory and runbook_provenance.  The job is at-least-once,    *)
(* so apply may be called with any candidate, any number of times and in   *)
(* any order; each call is one transaction.  The responder's act path      *)
(* writes usage_count of the same rows.                                    *)
(***************************************************************************)
EXTENDS Naturals, Sequences, FiniteSets

CONSTANTS
  Incident, Name,
  Steps,           \* procedures a candidate may propose
  Reinforcements,  \* reinforcements_to_activate
  MaxUsage         \* cap on usage_count reached by the act path (bounds the model)

ASSUME RepositoryAssumption ==
  /\ Reinforcements \in Nat \ {0}
  /\ MaxUsage \in Nat

VARIABLES
  runbooks,    \* procedural_memory: per name, its versions in order
  provenance   \* runbook_provenance, in the order of insertion

vars == <<runbooks, provenance>>

Candidate ==
  [name : Name, incident : Incident, steps : Steps,
   outcome : {"success", "failed", "no_effect"}]

Runbook ==
  [steps : Steps, status : {"draft", "active", "deprecated"},
   usage : Nat, success : Nat, failure : Nat]

Provenance ==
  [name : Name, version : Nat \ {0}, incident : Incident,
   role : {"source", "reinforcement", "counterexample"}]

\* Every provenance row points to an existing version.
TypeOK ==
  /\ runbooks \in [Name -> Seq(Runbook)]
  /\ provenance \in Seq(Provenance)
  /\ \A k \in DOMAIN provenance :
       provenance[k].version \in DOMAIN runbooks[provenance[k].name]

Init ==
  /\ runbooks = [n \in Name |-> <<>>]
  /\ provenance = <<>>

----------------------------------------------------------------------------
(* apply.                                                                  *)

Latest(n) == runbooks[n][Len(runbooks[n])]

\* UPDATE procedural_memory of one row.
Update(n, v, rb) == runbooks' = [runbooks EXCEPT ![n] = [@ EXCEPT ![v] = rb]]

\* Mutant: the lookup joins only the latest version.
ReplayedByLatest(c) ==
  \E k \in DOMAIN provenance :
    /\ provenance[k].name = c.name /\ provenance[k].incident = c.incident
    /\ provenance[k].version = Len(runbooks[c.name])

\* The replay lookup: some version of that name has seen the incident.
Replayed(c) ==
  \E k \in DOMAIN provenance :
    provenance[k].name = c.name /\ provenance[k].incident = c.incident

\* A replay, or a counterexample to nothing: apply returns without a write.
Noop(c) ==
  /\ Replayed(c) \/ (c.outcome # "success" /\ runbooks[c.name] = <<>>)
  /\ UNCHANGED vars

\* Mutant: the provenance row names the version that was there before.
RecordPrevious(c, v, role) ==
  provenance' = Append(provenance,
    [name |-> c.name, version |-> IF v = 1 THEN 1 ELSE v - 1,
     incident |-> c.incident, role |-> role])

\* INSERT INTO runbook_provenance.
Record(c, v, role) ==
  provenance' = Append(provenance,
    [name |-> c.name, version |-> v, incident |-> c.incident, role |-> role])

\* Mutant: a counterexample has to outnumber the successes.
WeakenedLate(rb) ==
  [rb EXCEPT !.usage = @ + 1, !.failure = @ + 1,
             !.status = IF rb.failure + 1 > rb.success THEN "deprecated" ELSE @]

\* The UPDATE of a counterexample.
Weakened(rb) ==
  [rb EXCEPT !.usage = @ + 1, !.failure = @ + 1,
             !.status = IF rb.failure + 1 >= rb.success THEN "deprecated" ELSE @]

Weaken(c) ==
  /\ ~Replayed(c)
  /\ c.outcome # "success" /\ runbooks[c.name] # <<>>
  /\ Update(c.name, Len(runbooks[c.name]), Weakened(Latest(c.name)))
  /\ Record(c, Len(runbooks[c.name]), "counterexample")

\* Mutant: the first use is not counted.
DraftUnused(c) ==
  [steps |-> c.steps, status |-> "draft", usage |-> 0, success |-> 1, failure |-> 0]

\* The row a successful new procedure inserts.
Draft(c) ==
  [steps |-> c.steps, status |-> "draft", usage |-> 1, success |-> 1, failure |-> 0]

\* Mutant: as the in-memory repository does, the prior version is left alone.
RetireNothing(seq) == seq

\* UPDATE ... SET status = 'deprecated' of the prior version, if there is one.
Retire(seq) ==
  IF seq = <<>> THEN seq ELSE [seq EXCEPT ![Len(seq)].status = "deprecated"]

Create(c) ==
  /\ ~Replayed(c)
  /\ c.outcome = "success"
  /\ runbooks[c.name] # <<>> => Latest(c.name).steps # c.steps
  /\ runbooks' = [runbooks EXCEPT ![c.name] = Append(Retire(@), Draft(c))]
  /\ Record(c, Len(runbooks[c.name]) + 1, "source")

\* The UPDATE of a success.
Reinforced(rb) ==
  [rb EXCEPT !.usage = @ + 1, !.success = @ + 1,
             !.status = IF rb.status = "draft" /\ rb.success + 1 >= Reinforcements + 1
                        THEN "active" ELSE @]

Reinforce(c) ==
  /\ ~Replayed(c)
  /\ c.outcome = "success"
  /\ runbooks[c.name] # <<>> /\ Latest(c.name).steps = c.steps
  /\ Update(c.name, Len(runbooks[c.name]), Reinforced(Latest(c.name)))
  /\ Record(c, Len(runbooks[c.name]), "reinforcement")

Apply(c) == Weaken(c) \/ Create(c) \/ Reinforce(c)

\* The act path's CTE runbook_usage, behind its gate on the status.
Use(n, v) ==
  /\ runbooks[n][v].status = "active" /\ runbooks[n][v].usage < MaxUsage
  /\ Update(n, v, [runbooks[n][v] EXCEPT !.usage = @ + 1])
  /\ UNCHANGED provenance

Next ==
  \/ \E c \in Candidate : Apply(c)
  \/ \E n \in Name : \E v \in DOMAIN runbooks[n] : Use(n, v)

Spec == Init /\ [][Next]_vars

----------------------------------------------------------------------------
(* Properties.                                                             *)

\* The provenance rows of a version that have one of the given roles.
Evidence(n, v, roles) ==
  {k \in DOMAIN provenance : /\ provenance[k].name = n
                             /\ provenance[k].version = v
                             /\ provenance[k].role \in roles}

\* The counts a responder ranks by are the provenance an auditor can follow,
\* however calls were repeated and whichever version they met.
CountsMatchProvenance ==
  \A n \in Name : \A v \in DOMAIN runbooks[n] :
    /\ runbooks[n][v].success = Cardinality(Evidence(n, v, {"source", "reinforcement"}))
    /\ runbooks[n][v].failure = Cardinality(Evidence(n, v, {"counterexample"}))
    /\ Cardinality(Evidence(n, v, {"source"})) = 1

\* An incident counts once among all versions of a name, although the job may
\* repeat it after the procedure changed.
IncidentCountsOnce ==
  \A j, k \in DOMAIN provenance :
    /\ provenance[j].name = provenance[k].name
    /\ provenance[j].incident = provenance[k].incident
    => j = k

\* Two versions of a runbook are never offered together: all but the latest are
\* deprecated.
OnlyLatestLives ==
  \A n \in Name : \A v \in DOMAIN runbooks[n] :
    v # Len(runbooks[n]) => runbooks[n][v].status = "deprecated"

\* What recall offers has earned it: a runbook in use has more successes than
\* counterexamples, and it is active exactly from the configured number of
\* reinforcements on.
StatusIsEarned ==
  \A n \in Name : \A v \in DOMAIN runbooks[n] :
    LET rb == runbooks[n][v] IN
    rb.status # "deprecated" =>
      /\ rb.failure < rb.success
      /\ rb.status = "active" <=> rb.success > Reinforcements

\* Neither of the table's CHECKs, success_count + failure_count <= usage_count and
\* success_rate <= 1, ever refuses an UPDATE of apply or of the act path, whatever
\* order they come in.
UsageCoversEvidence ==
  \A n \in Name : \A v \in DOMAIN runbooks[n] :
    runbooks[n][v].success + runbooks[n][v].failure <= runbooks[n][v].usage

\* A deprecated version is never used again: later successes of the same steps
\* count, but do not revive it.
DeprecationIsFinal ==
  [][\A n \in Name : \A v \in DOMAIN runbooks[n] :
       runbooks[n][v].status = "deprecated" => runbooks'[n][v].status = "deprecated"]_vars
============================================================================
