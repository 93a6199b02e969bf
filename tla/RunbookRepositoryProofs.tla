---------------------- MODULE RunbookRepositoryProofs ----------------------
(***************************************************************************)
(* Theorems about RunbookRepository, for any incidents, names, procedures  *)
(* and threshold: whatever candidates the consolidation job applies and    *)
(* repeats, in whatever order.                                             *)
(***************************************************************************)
EXTENDS RunbookRepository, SequenceTheorems, FiniteSetTheorems, TLAPS

----------------------------------------------------------------------------
(* The shapes of a step.                                                   *)

\* Only the versions of n may change.
OnlyName(n) ==
  /\ runbooks' \in [Name -> Seq(Runbook)]
  /\ \A m \in Name \ {n} : runbooks'[m] = runbooks[m]

\* Version v of n becomes rb.
Changed(n, v, rb) ==
  /\ OnlyName(n)
  /\ v \in 1..Len(runbooks[n])
  /\ Len(runbooks'[n]) = Len(runbooks[n])
  /\ \A u \in 1..Len(runbooks[n]) :
       runbooks'[n][u] = IF u = v THEN rb ELSE runbooks[n][u]

\* A new version follows the retired one.
Added(c) ==
  /\ OnlyName(c.name)
  /\ Len(runbooks'[c.name]) = Len(runbooks[c.name]) + 1
  /\ runbooks'[c.name][Len(runbooks[c.name]) + 1] = Draft(c)
  /\ \A u \in 1..Len(runbooks[c.name]) :
       runbooks'[c.name][u] =
         IF u = Len(runbooks[c.name])
         THEN [runbooks[c.name][u] EXCEPT !.status = "deprecated"]
         ELSE runbooks[c.name][u]

\* One provenance row more.
Recorded(c, v, role) ==
  /\ provenance' \in Seq(Provenance)
  /\ Len(provenance') = Len(provenance) + 1
  /\ \A k \in 1..Len(provenance) : provenance'[k] = provenance[k]
  /\ provenance'[Len(provenance) + 1] =
       [name |-> c.name, version |-> v, incident |-> c.incident, role |-> role]

\* The row an update leaves is a row again.
LEMMA RowTypes ==
  ASSUME NEW rb \in Runbook, RepositoryAssumption
  PROVE  /\ Weakened(rb) \in Runbook
         /\ Reinforced(rb) \in Runbook
         /\ [rb EXCEPT !.status = "deprecated"] \in Runbook
         /\ [rb EXCEPT !.usage = @ + 1] \in Runbook
<1>1. /\ rb.usage + 1 \in Nat /\ rb.success + 1 \in Nat /\ rb.failure + 1 \in Nat
      /\ rb.steps \in Steps /\ rb.status \in {"draft", "active", "deprecated"}
  BY DEF Runbook
<1>2. Weakened(rb) \in Runbook
  <2>1. CASE rb.failure + 1 >= rb.success
    BY <1>1, <2>1 DEF Weakened, Runbook
  <2>2. CASE ~(rb.failure + 1 >= rb.success)
    BY <1>1, <2>2 DEF Weakened, Runbook
  <2> QED
    BY <2>1, <2>2
<1>3. Reinforced(rb) \in Runbook
  <2>1. CASE rb.status = "draft" /\ rb.success + 1 >= Reinforcements + 1
    BY <1>1, <2>1 DEF Reinforced, Runbook
  <2>2. CASE ~(rb.status = "draft" /\ rb.success + 1 >= Reinforcements + 1)
    BY <1>1, <2>2 DEF Reinforced, Runbook
  <2> QED
    BY <2>1, <2>2
<1>4. /\ [rb EXCEPT !.status = "deprecated"] \in Runbook
      /\ [rb EXCEPT !.usage = @ + 1] \in Runbook
  BY <1>1 DEF Runbook
<1> QED
  BY <1>2, <1>3, <1>4

\* Appending to the provenance.
LEMMA RecordShape ==
  ASSUME TypeOK, NEW c \in Candidate, NEW v \in Nat \ {0},
         NEW role \in {"source", "reinforcement", "counterexample"}, Record(c, v, role)
  PROVE  Recorded(c, v, role)
<1> DEFINE r == [name |-> c.name, version |-> v, incident |-> c.incident, role |-> role]
<1>1. r \in Provenance
  BY DEF Provenance, Candidate
<1>2. provenance \in Seq(Provenance) /\ provenance' = Append(provenance, r)
  BY DEF TypeOK, Record
<1> HIDE DEF r
<1>3. /\ provenance' \in Seq(Provenance)
      /\ Len(provenance') = Len(provenance) + 1
      /\ \A k \in 1..Len(provenance) : provenance'[k] = provenance[k]
      /\ provenance'[Len(provenance) + 1] = r
  BY <1>1, <1>2
<1> QED
  BY <1>3 DEF Recorded, r

\* Replacing one version.
LEMMA ChangeShape ==
  ASSUME TypeOK, NEW n \in Name, NEW v \in 1..Len(runbooks[n]), NEW rb \in Runbook,
         Update(n, v, rb)
  PROVE  Changed(n, v, rb)
<1>1. runbooks \in [Name -> Seq(Runbook)] /\ runbooks[n] \in Seq(Runbook)
  BY DEF TypeOK
<1> DEFINE s == [runbooks[n] EXCEPT ![v] = rb]
<1>2. /\ s \in Seq(Runbook) /\ Len(s) = Len(runbooks[n])
      /\ \A u \in 1..Len(runbooks[n]) : s[u] = IF u = v THEN rb ELSE runbooks[n][u]
  BY <1>1, ExceptSeq
<1>3. runbooks' = [runbooks EXCEPT ![n] = s]
  BY DEF Update
<1> HIDE DEF s
<1> QED
  BY <1>1, <1>2, <1>3 DEF Changed, OnlyName

\* A counterexample changes the latest version only.
LEMMA WeakenShape ==
  ASSUME TypeOK, RepositoryAssumption, NEW c \in Candidate, Weaken(c)
  PROVE  LET v == Len(runbooks[c.name]) IN
         /\ Changed(c.name, v, Weakened(runbooks[c.name][v]))
         /\ Recorded(c, v, "counterexample")
<1> DEFINE v == Len(runbooks[c.name])
<1>1. c.name \in Name /\ runbooks[c.name] \in Seq(Runbook) /\ runbooks[c.name] # <<>>
  BY DEF TypeOK, Candidate, Weaken
<1>2. v \in Nat \ {0} /\ v \in 1..Len(runbooks[c.name])
  BY <1>1, EmptySeq
<1>3. runbooks[c.name][v] \in Runbook
  BY <1>1, <1>2, ElementOfSeq
<1>4. Weakened(runbooks[c.name][v]) \in Runbook
  BY <1>3, RowTypes
<1>5. /\ Update(c.name, v, Weakened(runbooks[c.name][v]))
      /\ Record(c, v, "counterexample")
  BY DEF Weaken, Latest
<1> HIDE DEF v
<1>7. Changed(c.name, v, Weakened(runbooks[c.name][v]))
  BY <1>1, <1>2, <1>4, <1>5, ChangeShape
<1>8. Recorded(c, v, "counterexample")
  BY <1>2, <1>5, RecordShape
<1> QED
  BY <1>7, <1>8 DEF v

\* So does a success of the same procedure.
LEMMA ReinforceShape ==
  ASSUME TypeOK, RepositoryAssumption, NEW c \in Candidate, Reinforce(c)
  PROVE  LET v == Len(runbooks[c.name]) IN
         /\ Changed(c.name, v, Reinforced(runbooks[c.name][v]))
         /\ Recorded(c, v, "reinforcement")
<1> DEFINE v == Len(runbooks[c.name])
<1>1. c.name \in Name /\ runbooks[c.name] \in Seq(Runbook) /\ runbooks[c.name] # <<>>
  BY DEF TypeOK, Candidate, Reinforce
<1>2. v \in Nat \ {0} /\ v \in 1..Len(runbooks[c.name])
  BY <1>1, EmptySeq
<1>3. runbooks[c.name][v] \in Runbook
  BY <1>1, <1>2, ElementOfSeq
<1>4. Reinforced(runbooks[c.name][v]) \in Runbook
  BY <1>3, RowTypes
<1>5. /\ Update(c.name, v, Reinforced(runbooks[c.name][v]))
      /\ Record(c, v, "reinforcement")
  BY DEF Reinforce, Latest
<1> HIDE DEF v
<1>7. Changed(c.name, v, Reinforced(runbooks[c.name][v]))
  BY <1>1, <1>2, <1>4, <1>5, ChangeShape
<1>8. Recorded(c, v, "reinforcement")
  BY <1>2, <1>5, RecordShape
<1> QED
  BY <1>7, <1>8 DEF v

\* A new procedure appends a version and retires the one before it.
LEMMA CreateShape ==
  ASSUME TypeOK, RepositoryAssumption, NEW c \in Candidate, Create(c)
  PROVE  Added(c) /\ Recorded(c, Len(runbooks[c.name]) + 1, "source")
<1> DEFINE old == runbooks[c.name]
           kept == Retire(old)
<1>1. c.name \in Name /\ runbooks \in [Name -> Seq(Runbook)] /\ old \in Seq(Runbook)
  BY DEF TypeOK, Candidate
<1>2. Len(old) \in Nat
  BY <1>1, LenProperties
<1>3. Draft(c) \in Runbook
  BY DEF Draft, Runbook, Candidate
<1>4. /\ kept \in Seq(Runbook) /\ Len(kept) = Len(old)
      /\ \A u \in 1..Len(old) :
           kept[u] = IF u = Len(old) THEN [old[u] EXCEPT !.status = "deprecated"]
                                     ELSE old[u]
  <2>1. CASE old = <<>>
    BY <1>1, <2>1 DEF Retire
  <2>2. CASE old # <<>>
    <3> DEFINE e == [old[Len(old)] EXCEPT !.status = "deprecated"]
    <3>1. Len(old) \in 1..Len(old) /\ old[Len(old)] \in Runbook
      BY <1>1, <2>2, EmptySeq, ElementOfSeq
    <3>2. e \in Runbook
      BY <3>1, RowTypes
    <3>3. kept = [old EXCEPT ![Len(old)] = e]
      BY <1>1, <2>2, <3>1 DEF Retire
    <3>4. /\ kept \in Seq(Runbook) /\ Len(kept) = Len(old)
          /\ \A u \in 1..Len(old) : kept[u] = IF u = Len(old) THEN e ELSE old[u]
      <4> HIDE DEF e, old, kept
      <4> QED
        BY <1>1, <3>1, <3>2, <3>3, ExceptSeq
    <3> QED
      BY <3>4
  <2> QED
    BY <2>1, <2>2
<1>5. runbooks' = [runbooks EXCEPT ![c.name] = Append(kept, Draft(c))]
  BY <1>1 DEF Create
<1>6. Record(c, Len(old) + 1, "source")
  BY DEF Create
<1>7. Recorded(c, Len(old) + 1, "source")
  BY <1>2, <1>6, RecordShape
<1> HIDE DEF kept
<1>8. /\ Append(kept, Draft(c)) \in Seq(Runbook)
      /\ Len(Append(kept, Draft(c))) = Len(old) + 1
      /\ Append(kept, Draft(c))[Len(old) + 1] = Draft(c)
      /\ \A u \in 1..Len(old) : Append(kept, Draft(c))[u] = kept[u]
  BY <1>2, <1>3, <1>4
<1>9. Added(c)
  BY <1>1, <1>2, <1>4, <1>5, <1>8 DEF Added, OnlyName
<1> QED
  BY <1>7, <1>9

\* A use changes one active version.
LEMMA UseShape ==
  ASSUME TypeOK, RepositoryAssumption, NEW n \in Name, NEW v \in DOMAIN runbooks[n],
         Use(n, v)
  PROVE  Changed(n, v, [runbooks[n][v] EXCEPT !.usage = @ + 1])
<1>1. runbooks[n] \in Seq(Runbook) /\ v \in 1..Len(runbooks[n])
  BY LenProperties DEF TypeOK
<1>2. runbooks[n][v] \in Runbook
  BY <1>1, ElementOfSeq
<1>3. [runbooks[n][v] EXCEPT !.usage = @ + 1] \in Runbook
  BY <1>2, RowTypes
<1>4. Update(n, v, [runbooks[n][v] EXCEPT !.usage = @ + 1])
  BY DEF Use
<1> QED
  BY <1>1, <1>3, <1>4, ChangeShape

\* Every step leaves the tables alone, is one of the three writes of apply for an
\* incident that is new to the name, or is a use of an active version.
LEMMA Shapes ==
  ASSUME TypeOK, RepositoryAssumption, [Next]_vars
  PROVE  \/ UNCHANGED vars
         \/ \E c \in Candidate :
              /\ ~Replayed(c)
              /\ LET v == Len(runbooks[c.name]) IN
                 \/ /\ Changed(c.name, v, Weakened(runbooks[c.name][v]))
                    /\ Recorded(c, v, "counterexample")
                 \/ /\ Changed(c.name, v, Reinforced(runbooks[c.name][v]))
                    /\ Recorded(c, v, "reinforcement")
                 \/ Added(c) /\ Recorded(c, v + 1, "source")
         \/ \E n \in Name : \E v \in DOMAIN runbooks[n] :
              /\ runbooks[n][v].status = "active"
              /\ Changed(n, v, [runbooks[n][v] EXCEPT !.usage = @ + 1])
              /\ UNCHANGED provenance
<1>1. ASSUME NEW c \in Candidate, Weaken(c)
      PROVE  ~Replayed(c) /\ LET v == Len(runbooks[c.name]) IN
               /\ Changed(c.name, v, Weakened(runbooks[c.name][v]))
               /\ Recorded(c, v, "counterexample")
  BY <1>1, WeakenShape DEF Weaken
<1>2. ASSUME NEW c \in Candidate, Reinforce(c)
      PROVE  ~Replayed(c) /\ LET v == Len(runbooks[c.name]) IN
               /\ Changed(c.name, v, Reinforced(runbooks[c.name][v]))
               /\ Recorded(c, v, "reinforcement")
  BY <1>2, ReinforceShape DEF Reinforce
<1>3. ASSUME NEW c \in Candidate, Create(c)
      PROVE  ~Replayed(c) /\ Added(c) /\ Recorded(c, Len(runbooks[c.name]) + 1, "source")
  BY <1>3, CreateShape DEF Create
<1>4. ASSUME NEW n \in Name, NEW v \in DOMAIN runbooks[n], Use(n, v)
      PROVE  /\ runbooks[n][v].status = "active"
             /\ Changed(n, v, [runbooks[n][v] EXCEPT !.usage = @ + 1])
             /\ UNCHANGED provenance
  BY <1>4, UseShape DEF Use
<1> QED
  BY <1>1, <1>2, <1>3, <1>4 DEF Next, Apply

\* No version disappears.
LEMMA VersionsStay ==
  ASSUME TypeOK, NEW n \in Name,
         \/ \E v, rb : Changed(n, v, rb)
         \/ \E c \in Candidate : c.name = n /\ Added(c)
  PROVE  /\ runbooks' \in [Name -> Seq(Runbook)]
         /\ \A m \in Name : Len(runbooks[m]) \in Nat /\ Len(runbooks'[m]) \in Nat
                            /\ Len(runbooks[m]) <= Len(runbooks'[m])
<1>1. runbooks \in [Name -> Seq(Runbook)] /\ runbooks' \in [Name -> Seq(Runbook)]
  BY DEF TypeOK, Changed, Added, OnlyName
<1>2. \A m \in Name : Len(runbooks[m]) \in Nat /\ Len(runbooks'[m]) \in Nat
  BY <1>1, LenProperties
<1>3. \A m \in Name : m # n => runbooks'[m] = runbooks[m]
  BY DEF Changed, Added, OnlyName
<1>4. Len(runbooks'[n]) = Len(runbooks[n]) \/ Len(runbooks'[n]) = Len(runbooks[n]) + 1
  BY DEF Changed, Added
<1>5. ASSUME NEW m \in Name PROVE Len(runbooks[m]) <= Len(runbooks'[m])
  <2>1. CASE m = n
    BY <1>2, <1>4, <2>1
  <2>2. CASE m # n
    BY <1>2, <1>3, <2>2
  <2> QED
    BY <2>1, <2>2
<1> QED
  BY <1>1, <1>2, <1>5

\* What a provenance row holds.
LEMMA ProvenanceRow ==
  ASSUME TypeOK, NEW k \in DOMAIN provenance
  PROVE  /\ provenance[k] \in Provenance
         /\ provenance[k].name \in Name
         /\ provenance[k].version \in DOMAIN runbooks[provenance[k].name]
<1>1. provenance \in Seq(Provenance) /\ k \in 1..Len(provenance)
  BY LenProperties DEF TypeOK
<1>2. provenance[k] \in Provenance
  BY <1>1, ElementOfSeq
<1> QED
  BY <1>2 DEF TypeOK, Provenance

\* An appended row with a valid version keeps the provenance well typed.
LEMMA ProvenanceStays ==
  ASSUME TypeOK, NEW c \in Candidate, NEW v, NEW role, Recorded(c, v, role),
         runbooks' \in [Name -> Seq(Runbook)],
         \A m \in Name : Len(runbooks[m]) \in Nat /\ Len(runbooks'[m]) \in Nat
                         /\ Len(runbooks[m]) <= Len(runbooks'[m]),
         v \in 1..Len(runbooks'[c.name])
  PROVE  TypeOK'
<1>1. SUFFICES ASSUME NEW k \in DOMAIN provenance'
               PROVE  provenance'[k].version \in DOMAIN runbooks'[provenance'[k].name]
  BY DEF TypeOK, Recorded
<1>2. \A m \in Name : DOMAIN runbooks[m] = 1..Len(runbooks[m])
                      /\ DOMAIN runbooks'[m] = 1..Len(runbooks'[m])
  BY LenProperties DEF TypeOK
<1>3. /\ DOMAIN provenance' = 1..(Len(provenance) + 1)
      /\ Len(provenance) \in Nat /\ DOMAIN provenance = 1..Len(provenance)
  BY LenProperties DEF TypeOK, Recorded
<1>4. CASE k \in 1..Len(provenance)
  <2>1. provenance'[k] = provenance[k]
    BY <1>4 DEF Recorded
  <2>2. /\ provenance[k].name \in Name
        /\ provenance[k].version \in DOMAIN runbooks[provenance[k].name]
    BY <1>3, <1>4, ProvenanceRow
  <2> QED
    BY <1>2, <2>1, <2>2
<1>5. CASE k = Len(provenance) + 1
  <2>1. provenance'[k].name = c.name /\ provenance'[k].version = v
    BY <1>5 DEF Recorded
  <2>2. c.name \in Name
    BY DEF Candidate
  <2> QED
    BY <1>2, <2>1, <2>2
<1> QED
  BY <1>3, <1>4, <1>5

\* Every provenance row points to an existing version of its runbook, and every
\* row keeps its type, whatever apply and the act path do.
THEOREM RepositoryTypeCorrect == Spec => []TypeOK
<1>1. Init => TypeOK
  BY DEF Init, TypeOK
<1>2. ASSUME TypeOK, RepositoryAssumption, [Next]_vars PROVE TypeOK'
  <2>1. CASE UNCHANGED vars
    BY <1>2, <2>1 DEF TypeOK, vars
  <2>2. ASSUME NEW c \in Candidate, NEW rb, NEW role,
               Changed(c.name, Len(runbooks[c.name]), rb),
               Recorded(c, Len(runbooks[c.name]), role)
        PROVE  TypeOK'
    <3>1. c.name \in Name
      BY DEF Candidate
    <3>2. /\ runbooks' \in [Name -> Seq(Runbook)]
          /\ \A m \in Name : Len(runbooks[m]) \in Nat /\ Len(runbooks'[m]) \in Nat
                             /\ Len(runbooks[m]) <= Len(runbooks'[m])
      BY <1>2, <2>2, <3>1, VersionsStay
    <3>3. Len(runbooks[c.name]) \in 1..Len(runbooks'[c.name])
      BY <2>2, <3>1, <3>2 DEF Changed
    <3> QED
      BY <1>2, <2>2, <3>2, <3>3, ProvenanceStays
  <2>3. ASSUME NEW c \in Candidate, Added(c),
               Recorded(c, Len(runbooks[c.name]) + 1, "source")
        PROVE  TypeOK'
    <3>1. c.name \in Name
      BY DEF Candidate
    <3>2. /\ runbooks' \in [Name -> Seq(Runbook)]
          /\ \A m \in Name : Len(runbooks[m]) \in Nat /\ Len(runbooks'[m]) \in Nat
                             /\ Len(runbooks[m]) <= Len(runbooks'[m])
      BY <1>2, <2>3, <3>1, VersionsStay
    <3>3. Len(runbooks[c.name]) + 1 \in 1..Len(runbooks'[c.name])
      BY <2>3, <3>1, <3>2 DEF Added
    <3> QED
      BY <1>2, <2>3, <3>2, <3>3, ProvenanceStays
  <2>4. ASSUME NEW n \in Name, NEW v, NEW rb, Changed(n, v, rb), UNCHANGED provenance
        PROVE  TypeOK'
    <3>1. /\ runbooks' \in [Name -> Seq(Runbook)]
          /\ \A m \in Name : Len(runbooks[m]) = Len(runbooks'[m])
      BY <2>4 DEF Changed, OnlyName
    <3>2. \A m \in Name : DOMAIN runbooks[m] = 1..Len(runbooks[m])
                          /\ DOMAIN runbooks'[m] = 1..Len(runbooks'[m])
      BY <1>2, <3>1, LenProperties DEF TypeOK
    <3>3. \A k \in DOMAIN provenance : provenance[k].name \in Name
      BY <1>2, ProvenanceRow
    <3> QED
      BY <1>2, <2>4, <3>1, <3>2, <3>3 DEF TypeOK
  <2> QED
    BY <1>2, <2>1, <2>2, <2>3, <2>4, Shapes
<1> QED
  BY <1>1, <1>2, RepositoryAssumption, PTL DEF Spec

----------------------------------------------------------------------------
(* An incident counts once.                                                *)

LEMMA OnceAfterRecord ==
  ASSUME TypeOK, IncidentCountsOnce, NEW c \in Candidate, NEW v, NEW role,
         ~Replayed(c), Recorded(c, v, role)
  PROVE  IncidentCountsOnce'
<1>1. /\ Len(provenance) \in Nat /\ DOMAIN provenance = 1..Len(provenance)
      /\ DOMAIN provenance' = 1..(Len(provenance) + 1)
  BY LenProperties DEF TypeOK, Recorded
<1>2. SUFFICES ASSUME NEW j \in DOMAIN provenance', NEW k \in DOMAIN provenance',
                      provenance'[j].name = provenance'[k].name,
                      provenance'[j].incident = provenance'[k].incident,
                      j < k
               PROVE  FALSE
  BY <1>1 DEF IncidentCountsOnce
<1>3. j \in DOMAIN provenance /\ provenance'[j] = provenance[j]
  BY <1>1, <1>2 DEF Recorded
<1>4. CASE k \in DOMAIN provenance
  <2>1. provenance'[k] = provenance[k]
    BY <1>1, <1>4 DEF Recorded
  <2> QED
    BY <1>1, <1>2, <1>3, <1>4, <2>1 DEF IncidentCountsOnce
<1>5. CASE k = Len(provenance) + 1
  <2>1. provenance'[k].name = c.name /\ provenance'[k].incident = c.incident
    BY <1>5 DEF Recorded
  <2> QED
    BY <1>2, <1>3, <2>1 DEF Replayed
<1> QED
  BY <1>1, <1>4, <1>5

\* The README's promise that a replayed window cannot increment a runbook's
\* counters twice, for candidates of one name: an incident has at most one
\* provenance row among all its versions.
THEOREM IncidentsCountOnce == Spec => []IncidentCountsOnce
<1>1. Init => IncidentCountsOnce
  BY DEF Init, IncidentCountsOnce
<1>2. ASSUME TypeOK, RepositoryAssumption, IncidentCountsOnce, [Next]_vars
      PROVE  IncidentCountsOnce'
  <2>1. CASE UNCHANGED provenance
    BY <1>2, <2>1 DEF IncidentCountsOnce
  <2>2. CASE \E c \in Candidate : ~Replayed(c) /\ \E v, role : Recorded(c, v, role)
    BY <1>2, <2>2, OnceAfterRecord
  <2>3. UNCHANGED vars => UNCHANGED provenance
    BY DEF vars
  <2> QED
    BY <1>2, <2>1, <2>2, <2>3, Shapes
<1> QED
  BY <1>1, <1>2, RepositoryTypeCorrect, RepositoryAssumption, PTL DEF Spec

----------------------------------------------------------------------------
(* The rows.                                                               *)

\* What a step can make of a version.
LEMMA RowsAfter ==
  ASSUME TypeOK, RepositoryAssumption, [Next]_vars,
         NEW n \in Name, NEW u \in DOMAIN runbooks'[n]
  PROVE  \/ /\ u \in DOMAIN runbooks[n]
            /\ runbooks[n][u] \in Runbook
            /\ runbooks'[n][u] \in
                 {runbooks[n][u], Weakened(runbooks[n][u]), Reinforced(runbooks[n][u]),
                  [runbooks[n][u] EXCEPT !.status = "deprecated"],
                  [runbooks[n][u] EXCEPT !.usage = @ + 1]}
         \/ /\ u \notin DOMAIN runbooks[n]
            /\ \E c \in Candidate : runbooks'[n][u] = Draft(c)
<1>1. /\ runbooks[n] \in Seq(Runbook)
      /\ DOMAIN runbooks[n] = 1..Len(runbooks[n]) /\ Len(runbooks[n]) \in Nat
  BY LenProperties DEF TypeOK
<1>2. \A w \in DOMAIN runbooks[n] : runbooks[n][w] \in Runbook
  BY <1>1, ElementOfSeq
<1>3. CASE runbooks'[n] = runbooks[n]
  BY <1>2, <1>3
<1>4. ASSUME NEW v, NEW rb, Changed(n, v, rb)
      PROVE  u \in DOMAIN runbooks[n]
             /\ runbooks'[n][u] = IF u = v THEN rb ELSE runbooks[n][u]
  <2>1. DOMAIN runbooks'[n] = 1..Len(runbooks[n])
    BY <1>4, LenProperties DEF Changed, OnlyName
  <2> QED
    BY <1>1, <1>4, <2>1 DEF Changed
<1>5. ASSUME NEW c \in Candidate, c.name = n, Added(c)
      PROVE  \/ u \notin DOMAIN runbooks[n] /\ runbooks'[n][u] = Draft(c)
             \/ /\ u \in DOMAIN runbooks[n]
                /\ runbooks'[n][u] \in
                     {runbooks[n][u], [runbooks[n][u] EXCEPT !.status = "deprecated"]}
  <2>1. DOMAIN runbooks'[n] = 1..(Len(runbooks[n]) + 1)
    BY <1>5, LenProperties DEF Added, OnlyName
  <2>2. CASE u = Len(runbooks[n]) + 1
    BY <1>1, <1>5, <2>2 DEF Added
  <2>3. CASE u \in 1..Len(runbooks[n])
    BY <1>1, <1>5, <2>3 DEF Added
  <2> QED
    BY <1>1, <2>1, <2>2, <2>3
<1>6. \A m \in Name : \A v, rb : m # n /\ Changed(m, v, rb) => runbooks'[n] = runbooks[n]
  BY DEF Changed, OnlyName
<1>7. \A c \in Candidate : c.name # n /\ Added(c) => runbooks'[n] = runbooks[n]
  BY DEF Added, OnlyName
<1>8. CASE UNCHANGED vars
  BY <1>3, <1>8 DEF vars
<1>9. CASE \E c \in Candidate :
              \/ Changed(c.name, Len(runbooks[c.name]),
                         Weakened(runbooks[c.name][Len(runbooks[c.name])]))
              \/ Changed(c.name, Len(runbooks[c.name]),
                         Reinforced(runbooks[c.name][Len(runbooks[c.name])]))
  <2>1. PICK c \in Candidate :
              \/ Changed(c.name, Len(runbooks[c.name]),
                         Weakened(runbooks[c.name][Len(runbooks[c.name])]))
              \/ Changed(c.name, Len(runbooks[c.name]),
                         Reinforced(runbooks[c.name][Len(runbooks[c.name])]))
    BY <1>9
  <2>2. c.name \in Name
    BY DEF Candidate
  <2>3. CASE c.name = n
    BY <1>2, <1>4, <2>1, <2>3
  <2>4. CASE c.name # n
    BY <1>3, <1>6, <2>1, <2>2, <2>4
  <2> QED
    BY <2>3, <2>4
<1>10. CASE \E c \in Candidate : Added(c)
  <2>1. PICK c \in Candidate : Added(c)
    BY <1>10
  <2>2. CASE c.name = n
    BY <1>2, <1>5, <2>1, <2>2
  <2>3. CASE c.name # n
    BY <1>3, <1>7, <2>1, <2>3
  <2> QED
    BY <2>2, <2>3
<1>11. CASE \E m \in Name : \E v \in DOMAIN runbooks[m] :
              Changed(m, v, [runbooks[m][v] EXCEPT !.usage = @ + 1])
  <2>1. PICK m \in Name : \E v \in DOMAIN runbooks[m] :
              Changed(m, v, [runbooks[m][v] EXCEPT !.usage = @ + 1])
    BY <1>11
  <2>2. CASE m = n
    BY <1>2, <1>4, <2>1, <2>2
  <2>3. CASE m # n
    BY <1>3, <1>6, <2>1, <2>3
  <2> QED
    BY <2>2, <2>3
<1> QED
  BY <1>8, <1>9, <1>10, <1>11, Shapes

\* What StatusIsEarned and UsageCoversEvidence say of one row.
Earned(rb) ==
  rb.status # "deprecated" =>
    /\ rb.failure < rb.success
    /\ rb.status = "active" <=> rb.success > Reinforcements

Covered(rb) == rb.success + rb.failure <= rb.usage

LEMMA RowSteps ==
  ASSUME RepositoryAssumption, NEW rb \in Runbook,
         NEW new \in {rb, Weakened(rb), Reinforced(rb),
                      [rb EXCEPT !.status = "deprecated"], [rb EXCEPT !.usage = @ + 1]}
  PROVE  /\ Earned(rb) => Earned(new)
         /\ Covered(rb) => Covered(new)
         /\ rb.status = "deprecated" => new.status = "deprecated"
<1>1. /\ rb.usage \in Nat /\ rb.success \in Nat /\ rb.failure \in Nat
      /\ rb.status \in {"draft", "active", "deprecated"}
  BY DEF Runbook
<1>2. Reinforcements \in Nat \ {0}
  BY DEF RepositoryAssumption
<1>3. CASE new = rb
  BY <1>3
<1>4. CASE new = Weakened(rb)
  <2>1. /\ new.usage = rb.usage + 1 /\ new.success = rb.success
        /\ new.failure = rb.failure + 1
        /\ new.status = IF rb.failure + 1 >= rb.success THEN "deprecated" ELSE rb.status
    BY <1>4 DEF Weakened, Runbook
  <2> QED
    BY <1>1, <1>2, <2>1 DEF Earned, Covered
<1>5. CASE new = Reinforced(rb)
  <2>1. /\ new.usage = rb.usage + 1 /\ new.success = rb.success + 1
        /\ new.failure = rb.failure
        /\ new.status = IF rb.status = "draft" /\ rb.success + 1 >= Reinforcements + 1
                        THEN "active" ELSE rb.status
    BY <1>5 DEF Reinforced, Runbook
  <2> QED
    BY <1>1, <1>2, <2>1 DEF Earned, Covered
<1>6. CASE new = [rb EXCEPT !.status = "deprecated"]
  <2>1. /\ new.usage = rb.usage /\ new.success = rb.success
        /\ new.failure = rb.failure /\ new.status = "deprecated"
    BY <1>6 DEF Runbook
  <2> QED
    BY <2>1 DEF Earned, Covered
<1>7. CASE new = [rb EXCEPT !.usage = @ + 1]
  <2>1. /\ new.usage = rb.usage + 1 /\ new.success = rb.success
        /\ new.failure = rb.failure /\ new.status = rb.status
    BY <1>7 DEF Runbook
  <2> QED
    BY <1>1, <2>1 DEF Earned, Covered
<1> QED
  BY <1>3, <1>4, <1>5, <1>6, <1>7

LEMMA DraftRow ==
  ASSUME RepositoryAssumption, NEW c
  PROVE  Earned(Draft(c)) /\ Covered(Draft(c))
BY DEF RepositoryAssumption, Earned, Covered, Draft

LEMMA RowsKeep ==
  ASSUME TypeOK, RepositoryAssumption, [Next]_vars,
         NEW n \in Name, NEW u \in DOMAIN runbooks'[n]
  PROVE  /\ u \in DOMAIN runbooks[n] =>
              /\ Earned(runbooks[n][u]) => Earned(runbooks'[n][u])
              /\ Covered(runbooks[n][u]) => Covered(runbooks'[n][u])
              /\ runbooks[n][u].status = "deprecated" =>
                   runbooks'[n][u].status = "deprecated"
         /\ u \notin DOMAIN runbooks[n] =>
              Earned(runbooks'[n][u]) /\ Covered(runbooks'[n][u])
<1> DEFINE old == runbooks[n][u]
           new == runbooks'[n][u]
<1>1. CASE u \in DOMAIN runbooks[n]
  <2>1. /\ old \in Runbook
        /\ new \in {old, Weakened(old), Reinforced(old),
                    [old EXCEPT !.status = "deprecated"], [old EXCEPT !.usage = @ + 1]}
    BY <1>1, RowsAfter
  <2> HIDE DEF old, new
  <2>2. /\ Earned(old) => Earned(new)
        /\ Covered(old) => Covered(new)
        /\ old.status = "deprecated" => new.status = "deprecated"
    BY <2>1, RowSteps
  <2> QED
    BY <1>1, <2>2 DEF old, new
<1>2. CASE u \notin DOMAIN runbooks[n]
  <2>1. PICK c \in Candidate : runbooks'[n][u] = Draft(c)
    BY <1>2, RowsAfter
  <2> QED
    BY <1>2, <2>1, DraftRow
<1> QED
  BY <1>1, <1>2

\* What recall offers has earned it, for every threshold: more successes than
\* counterexamples, and active from the configured number of reinforcements on.
THEOREM StatusesAreEarned == Spec => []StatusIsEarned
<1>1. Init => StatusIsEarned
  BY DEF Init, StatusIsEarned
<1>2. ASSUME TypeOK, RepositoryAssumption, StatusIsEarned, [Next]_vars
      PROVE  StatusIsEarned'
  <2>1. ASSUME NEW n \in Name, NEW u \in DOMAIN runbooks'[n] PROVE Earned(runbooks'[n][u])
    <3>1. \A w \in DOMAIN runbooks[n] : Earned(runbooks[n][w])
      BY <1>2 DEF StatusIsEarned, Earned
    <3> QED
      BY <1>2, <2>1, <3>1, RowsKeep
  <2> QED
    BY <2>1 DEF StatusIsEarned, Earned
<1> QED
  BY <1>1, <1>2, RepositoryTypeCorrect, RepositoryAssumption, PTL DEF Spec

\* The CHECK on success_rate never makes a consolidation fail: uses cover the
\* evidence, however the act path's uses interleave with apply.
THEOREM UsageAlwaysCovers == Spec => []UsageCoversEvidence
<1>1. Init => UsageCoversEvidence
  BY DEF Init, UsageCoversEvidence
<1>2. ASSUME TypeOK, RepositoryAssumption, UsageCoversEvidence, [Next]_vars
      PROVE  UsageCoversEvidence'
  <2>1. ASSUME NEW n \in Name, NEW u \in DOMAIN runbooks'[n] PROVE Covered(runbooks'[n][u])
    <3>1. \A w \in DOMAIN runbooks[n] : Covered(runbooks[n][w])
      BY <1>2 DEF UsageCoversEvidence, Covered
    <3> QED
      BY <1>2, <2>1, <3>1, RowsKeep
  <2> QED
    BY <2>1 DEF UsageCoversEvidence, Covered
<1> QED
  BY <1>1, <1>2, RepositoryTypeCorrect, RepositoryAssumption, PTL DEF Spec

LEMMA LatestAfterStep ==
  ASSUME TypeOK, RepositoryAssumption, OnlyLatestLives, [Next]_vars,
         NEW n \in Name, NEW u \in DOMAIN runbooks'[n], u # Len(runbooks'[n])
  PROVE  runbooks'[n][u].status = "deprecated"
<1>1. /\ DOMAIN runbooks[n] = 1..Len(runbooks[n]) /\ Len(runbooks[n]) \in Nat
      /\ runbooks[n] \in Seq(Runbook)
  BY LenProperties DEF TypeOK
<1>2. \A w \in 1..Len(runbooks[n]) :
        w # Len(runbooks[n]) => runbooks[n][w].status = "deprecated"
  BY <1>1 DEF OnlyLatestLives
<1>3. CASE runbooks'[n] = runbooks[n]
  BY <1>1, <1>2, <1>3
<1>4. ASSUME NEW rb, Changed(n, Len(runbooks[n]), rb)
      PROVE  runbooks'[n][u].status = "deprecated"
  <2>1. DOMAIN runbooks'[n] = 1..Len(runbooks[n]) /\ Len(runbooks'[n]) = Len(runbooks[n])
    BY <1>4, LenProperties DEF Changed, OnlyName
  <2> QED
    BY <1>2, <1>4, <2>1 DEF Changed
<1>5. ASSUME NEW c \in Candidate, c.name = n, Added(c)
      PROVE  runbooks'[n][u].status = "deprecated"
  <2>1. DOMAIN runbooks'[n] = 1..(Len(runbooks[n]) + 1)
        /\ Len(runbooks'[n]) = Len(runbooks[n]) + 1
    BY <1>5, LenProperties DEF Added, OnlyName
  <2>2. u \in 1..Len(runbooks[n]) /\ runbooks[n][u] \in Runbook
    BY <1>1, <2>1, ElementOfSeq
  <2>3. [runbooks[n][u] EXCEPT !.status = "deprecated"].status = "deprecated"
    BY <2>2 DEF Runbook
  <2> QED
    BY <1>2, <1>5, <2>2, <2>3 DEF Added
<1>6. ASSUME NEW v \in DOMAIN runbooks[n],
             Changed(n, v, [runbooks[n][v] EXCEPT !.usage = @ + 1])
      PROVE  runbooks'[n][u].status = "deprecated"
  <2>1. DOMAIN runbooks'[n] = 1..Len(runbooks[n]) /\ Len(runbooks'[n]) = Len(runbooks[n])
    BY <1>6, LenProperties DEF Changed, OnlyName
  <2>2. runbooks[n][u] \in Runbook /\ runbooks[n][u].status = "deprecated"
    BY <1>1, <1>2, <2>1, ElementOfSeq
  <2>3. runbooks'[n][u] =
          IF u = v THEN [runbooks[n][v] EXCEPT !.usage = @ + 1] ELSE runbooks[n][u]
    BY <1>6, <2>1 DEF Changed
  <2> QED
    BY <2>2, <2>3 DEF Runbook
<1>7. \A m \in Name : \A v, rb : m # n /\ Changed(m, v, rb) => runbooks'[n] = runbooks[n]
  BY DEF Changed, OnlyName
<1>8. \A c \in Candidate : c.name \in Name
                           /\ (c.name # n /\ Added(c) => runbooks'[n] = runbooks[n])
  BY DEF Added, OnlyName, Candidate
<1>9. UNCHANGED vars => runbooks'[n] = runbooks[n]
  BY DEF vars
<1> QED
  BY <1>3, <1>4, <1>5, <1>6, <1>7, <1>8, <1>9, Shapes

\* Two versions of a runbook are never offered together, however many versions
\* alternating procedures have created.
THEOREM OnlyTheLatestLives == Spec => []OnlyLatestLives
<1>1. Init => OnlyLatestLives
  BY DEF Init, OnlyLatestLives
<1>2. ASSUME TypeOK, RepositoryAssumption, OnlyLatestLives, [Next]_vars
      PROVE  OnlyLatestLives'
  BY <1>2, LatestAfterStep DEF OnlyLatestLives
<1> QED
  BY <1>1, <1>2, RepositoryTypeCorrect, RepositoryAssumption, PTL DEF Spec

\* A deprecated version never comes back.
THEOREM DeprecationsAreFinal == Spec => DeprecationIsFinal
<1>1. ASSUME TypeOK, RepositoryAssumption, [Next]_vars,
             NEW n \in Name, NEW v \in DOMAIN runbooks[n],
             runbooks[n][v].status = "deprecated"
      PROVE  runbooks'[n][v].status = "deprecated"
  <2>1. CASE UNCHANGED vars
    BY <1>1, <2>1 DEF vars
  <2>2. ASSUME NEW m \in Name, \/ \E w, rb : Changed(m, w, rb)
                               \/ \E c \in Candidate : c.name = m /\ Added(c)
        PROVE  v \in DOMAIN runbooks'[n]
    BY <1>1, <2>2, VersionsStay, LenProperties DEF TypeOK
  <2>3. \A c \in Candidate : c.name \in Name
    BY DEF Candidate
  <2>4. UNCHANGED vars \/ v \in DOMAIN runbooks'[n]
    BY <1>1, <2>2, <2>3, Shapes
  <2>5. CASE v \in DOMAIN runbooks'[n]
    BY <1>1, <2>5, RowsKeep
  <2> QED
    BY <2>1, <2>4, <2>5
<1>2. TypeOK /\ RepositoryAssumption /\ [Next]_vars =>
        [\A n \in Name : \A v \in DOMAIN runbooks[n] :
           runbooks[n][v].status = "deprecated" => runbooks'[n][v].status = "deprecated"]_vars
  BY <1>1
<1> QED
  BY <1>2, RepositoryTypeCorrect, RepositoryAssumption, PTL DEF Spec, DeprecationIsFinal

----------------------------------------------------------------------------
(* Counts and provenance.                                                  *)

\* The evidence of a version is finite, and there is none for a version to come.
LEMMA EvidenceFacts ==
  ASSUME TypeOK, NEW n \in Name, NEW v, NEW roles
  PROVE  /\ IsFiniteSet(Evidence(n, v, roles))
         /\ Cardinality(Evidence(n, v, roles)) \in Nat
         /\ v \notin DOMAIN runbooks[n] => Evidence(n, v, roles) = {}
<1>1. DOMAIN provenance = 1..Len(provenance) /\ Len(provenance) \in Nat
  BY LenProperties DEF TypeOK
<1>2. IsFiniteSet(DOMAIN provenance)
  BY <1>1, FS_Interval
<1>3. IsFiniteSet(Evidence(n, v, roles))
  BY <1>2, FS_Subset DEF Evidence
<1>4. Cardinality(Evidence(n, v, roles)) \in Nat
  BY <1>3, FS_CardinalityType
<1>5. v \notin DOMAIN runbooks[n] => Evidence(n, v, roles) = {}
  BY ProvenanceRow DEF Evidence
<1> QED
  BY <1>3, <1>4, <1>5

\* A recorded row adds itself to the evidence it belongs to, and to no other.
LEMMA EvidenceGrows ==
  ASSUME TypeOK, NEW c \in Candidate, NEW v, NEW role, Recorded(c, v, role),
         NEW n \in Name, NEW u, NEW roles
  PROVE  Cardinality(Evidence(n, u, roles))' =
           IF n = c.name /\ u = v /\ role \in roles
           THEN Cardinality(Evidence(n, u, roles)) + 1
           ELSE Cardinality(Evidence(n, u, roles))
<1> DEFINE last == Len(provenance) + 1
<1>1. /\ DOMAIN provenance = 1..Len(provenance) /\ Len(provenance) \in Nat
      /\ DOMAIN provenance' = 1..last
  BY LenProperties DEF TypeOK, Recorded
<1>2. \A k \in 1..Len(provenance) : provenance'[k] = provenance[k]
  BY DEF Recorded
<1>3. /\ provenance'[last].name = c.name /\ provenance'[last].version = v
      /\ provenance'[last].role = role
  BY DEF Recorded
<1>4. CASE n = c.name /\ u = v /\ role \in roles
  <2>1. Evidence(n, u, roles)' = Evidence(n, u, roles) \cup {last}
    BY <1>1, <1>2, <1>3, <1>4 DEF Evidence
  <2>2. last \notin Evidence(n, u, roles)
    BY <1>1 DEF Evidence
  <2>3. IsFiniteSet(Evidence(n, u, roles))
    BY EvidenceFacts
  <2>4. Cardinality(Evidence(n, u, roles) \cup {last}) =
          Cardinality(Evidence(n, u, roles)) + 1
    <3> HIDE DEF last
    <3> QED
      BY <2>2, <2>3, FS_AddElement
  <2> QED
    BY <1>4, <2>1, <2>4
<1>5. CASE ~(n = c.name /\ u = v /\ role \in roles)
  <2>1. Evidence(n, u, roles)' = Evidence(n, u, roles)
    BY <1>1, <1>2, <1>3, <1>5 DEF Evidence
  <2> QED
    BY <1>5, <2>1
<1> QED
  BY <1>4, <1>5

\* CountsMatchProvenance, of one version.
Counted(n, v) ==
  /\ runbooks[n][v].success = Cardinality(Evidence(n, v, {"source", "reinforcement"}))
  /\ runbooks[n][v].failure = Cardinality(Evidence(n, v, {"counterexample"}))
  /\ Cardinality(Evidence(n, v, {"source"})) = 1

\* A version whose counts and evidence stay is counted as before.
LEMMA CountedStays ==
  ASSUME TypeOK, NEW c \in Candidate, NEW v, NEW role, Recorded(c, v, role),
         NEW n \in Name, NEW u, Counted(n, u), ~(n = c.name /\ u = v),
         runbooks'[n][u].success = runbooks[n][u].success,
         runbooks'[n][u].failure = runbooks[n][u].failure
  PROVE  Counted(n, u)'
BY EvidenceGrows DEF Counted

\* A step that touches only the latest version counts its candidate.
LEMMA CountedChange ==
  ASSUME TypeOK, NEW c \in Candidate, NEW rb, NEW role,
         Changed(c.name, Len(runbooks[c.name]), rb),
         Recorded(c, Len(runbooks[c.name]), role),
         LET old == runbooks[c.name][Len(runbooks[c.name])] IN
         \/ /\ role = "counterexample"
            /\ rb.success = old.success /\ rb.failure = old.failure + 1
         \/ /\ role = "reinforcement"
            /\ rb.success = old.success + 1 /\ rb.failure = old.failure,
         NEW n \in Name, NEW u \in DOMAIN runbooks'[n],
         \A m \in Name : \A w \in DOMAIN runbooks[m] : Counted(m, w)
  PROVE  Counted(n, u)'
<1> DEFINE v == Len(runbooks[c.name])
<1>1. c.name \in Name
  BY DEF Candidate
<1>2. /\ \A m \in Name : DOMAIN runbooks[m] = 1..Len(runbooks[m])
                         /\ DOMAIN runbooks'[m] = 1..Len(runbooks'[m])
      /\ \A m \in Name : Len(runbooks'[m]) = Len(runbooks[m])
  <2>1. \A m \in Name : DOMAIN runbooks[m] = 1..Len(runbooks[m])
                        /\ DOMAIN runbooks'[m] = 1..Len(runbooks'[m])
    BY LenProperties DEF TypeOK, Changed, OnlyName
  <2>2. \A m \in Name : Len(runbooks'[m]) = Len(runbooks[m])
    BY DEF Changed, OnlyName
  <2> QED
    BY <2>1, <2>2
<1>3. u \in DOMAIN runbooks[n] /\ Counted(n, u)
  BY <1>2
<1>4. CASE n = c.name /\ u = v
  <2>1. runbooks'[n][u] = rb
    BY <1>2, <1>3, <1>4 DEF Changed
  <2>2. \A roles : Cardinality(Evidence(n, u, roles))' =
                     IF role \in roles THEN Cardinality(Evidence(n, u, roles)) + 1
                     ELSE Cardinality(Evidence(n, u, roles))
    BY <1>4, EvidenceGrows
  <2>3. /\ Cardinality(Evidence(n, u, {"source", "reinforcement"}))' =
             IF role \in {"source", "reinforcement"}
             THEN Cardinality(Evidence(n, u, {"source", "reinforcement"})) + 1
             ELSE Cardinality(Evidence(n, u, {"source", "reinforcement"}))
        /\ Cardinality(Evidence(n, u, {"counterexample"}))' =
             IF role \in {"counterexample"}
             THEN Cardinality(Evidence(n, u, {"counterexample"})) + 1
             ELSE Cardinality(Evidence(n, u, {"counterexample"}))
        /\ Cardinality(Evidence(n, u, {"source"}))' =
             IF role \in {"source"}
             THEN Cardinality(Evidence(n, u, {"source"})) + 1
             ELSE Cardinality(Evidence(n, u, {"source"}))
    BY <2>2
  <2> QED
    BY <1>3, <1>4, <2>1, <2>3 DEF Counted
<1>5. CASE ~(n = c.name /\ u = v)
  <2>1. runbooks'[n][u] = runbooks[n][u]
    BY <1>2, <1>3, <1>5 DEF Changed, OnlyName
  <2> QED
    BY <1>3, <1>5, <2>1, CountedStays
<1> QED
  BY <1>4, <1>5

\* A new version starts with its source.
LEMMA CountedAdd ==
  ASSUME TypeOK, NEW c \in Candidate, Added(c),
         Recorded(c, Len(runbooks[c.name]) + 1, "source"),
         NEW n \in Name, NEW u \in DOMAIN runbooks'[n],
         \A m \in Name : \A w \in DOMAIN runbooks[m] : Counted(m, w)
  PROVE  Counted(n, u)'
<1> DEFINE v == Len(runbooks[c.name]) + 1
<1>1. c.name \in Name
  BY DEF Candidate
<1>2. \A m \in Name : DOMAIN runbooks[m] = 1..Len(runbooks[m]) /\ Len(runbooks[m]) \in Nat
                      /\ DOMAIN runbooks'[m] = 1..Len(runbooks'[m])
  BY LenProperties DEF TypeOK, Added, OnlyName
<1>3. CASE n = c.name /\ u = v
  <2>1. u \notin DOMAIN runbooks[n]
    BY <1>2, <1>3
  <2>2. \A roles : Cardinality(Evidence(n, u, roles))' = IF "source" \in roles THEN 1 ELSE 0
    BY <1>3, <2>1, EvidenceFacts, EvidenceGrows, FS_EmptySet
  <2>3. /\ Cardinality(Evidence(n, u, {"source", "reinforcement"}))' = 1
        /\ Cardinality(Evidence(n, u, {"counterexample"}))' = 0
        /\ Cardinality(Evidence(n, u, {"source"}))' = 1
    BY <2>2
  <2>4. runbooks'[n][u].success = 1 /\ runbooks'[n][u].failure = 0
    BY <1>3 DEF Added, Draft
  <2> QED
    BY <2>3, <2>4 DEF Counted
<1>4. CASE ~(n = c.name /\ u = v)
  <2>1. u \in DOMAIN runbooks[n]
    BY <1>1, <1>2, <1>4 DEF Added, OnlyName
  <2>2. runbooks[n][u] \in Runbook
    BY <1>2, <2>1, ElementOfSeq DEF TypeOK
  <2>3. runbooks'[n][u] \in
          {runbooks[n][u], [runbooks[n][u] EXCEPT !.status = "deprecated"]}
    BY <1>2, <2>1 DEF Added, OnlyName
  <2>4. /\ runbooks'[n][u].success = runbooks[n][u].success
        /\ runbooks'[n][u].failure = runbooks[n][u].failure
    BY <2>2, <2>3 DEF Runbook
  <2> QED
    BY <1>4, <2>1, <2>4, CountedStays
<1> QED
  BY <1>3, <1>4

\* Evidence is read from provenance alone.
LEMMA SameEvidence ==
  ASSUME provenance' = provenance, NEW n, NEW v, NEW roles
  PROVE  Evidence(n, v, roles)' = Evidence(n, v, roles)
  BY DEF Evidence

\* Every step, of apply or of the act path, leaves every version counted.
LEMMA CountedStep ==
  ASSUME TypeOK, RepositoryAssumption, [Next]_vars,
         NEW n \in Name, NEW u \in DOMAIN runbooks'[n],
         \A m \in Name : \A w \in DOMAIN runbooks[m] : Counted(m, w)
  PROVE  Counted(n, u)'
<1>1. \A m \in Name : /\ DOMAIN runbooks[m] = 1..Len(runbooks[m])
                      /\ \A w \in DOMAIN runbooks[m] : runbooks[m][w] \in Runbook
  BY LenProperties, ElementOfSeq DEF TypeOK
<1>2. CASE UNCHANGED vars
  <2>1. runbooks' = runbooks /\ provenance' = provenance
    BY <1>2 DEF vars
  <2>2. Counted(n, u)
    BY <2>1
  <2>3. \A roles : Evidence(n, u, roles)' = Evidence(n, u, roles)
    BY <2>1, SameEvidence
  <2> QED
    BY <2>1, <2>2, <2>3 DEF Counted
<1>3. ASSUME NEW c \in Candidate,
             Changed(c.name, Len(runbooks[c.name]),
                     Weakened(runbooks[c.name][Len(runbooks[c.name])])),
             Recorded(c, Len(runbooks[c.name]), "counterexample")
      PROVE  Counted(n, u)'
  <2> DEFINE old == runbooks[c.name][Len(runbooks[c.name])]
  <2>1. old \in Runbook
    BY <1>1, <1>3 DEF Changed, Candidate
  <2>2. Weakened(old).success = old.success /\ Weakened(old).failure = old.failure + 1
    BY <2>1 DEF Weakened, Runbook
  <2> QED
    BY <1>3, <2>2, CountedChange
<1>4. ASSUME NEW c \in Candidate,
             Changed(c.name, Len(runbooks[c.name]),
                     Reinforced(runbooks[c.name][Len(runbooks[c.name])])),
             Recorded(c, Len(runbooks[c.name]), "reinforcement")
      PROVE  Counted(n, u)'
  <2> DEFINE old == runbooks[c.name][Len(runbooks[c.name])]
  <2>1. old \in Runbook
    BY <1>1, <1>4 DEF Changed, Candidate
  <2>2. Reinforced(old).success = old.success + 1 /\ Reinforced(old).failure = old.failure
    BY <2>1 DEF Reinforced, Runbook
  <2> QED
    BY <1>4, <2>2, CountedChange
<1>5. ASSUME NEW c \in Candidate, Added(c),
             Recorded(c, Len(runbooks[c.name]) + 1, "source")
      PROVE  Counted(n, u)'
  BY <1>5, CountedAdd
<1>6. ASSUME NEW m \in Name, NEW v \in DOMAIN runbooks[m],
             Changed(m, v, [runbooks[m][v] EXCEPT !.usage = @ + 1]), UNCHANGED provenance
      PROVE  Counted(n, u)'
  <2>1. DOMAIN runbooks'[n] = 1..Len(runbooks[n])
    BY <1>6, LenProperties DEF Changed, OnlyName
  <2>2. u \in DOMAIN runbooks[n] /\ runbooks[n][u] \in Runbook
    BY <1>1, <2>1
  <2>3. runbooks'[n][u] \in {runbooks[n][u], [runbooks[n][u] EXCEPT !.usage = @ + 1]}
    BY <1>1, <1>6, <2>2 DEF Changed, OnlyName
  <2>4. /\ runbooks'[n][u].success = runbooks[n][u].success
        /\ runbooks'[n][u].failure = runbooks[n][u].failure
    BY <2>2, <2>3 DEF Runbook
  <2>5. \A roles : Evidence(n, u, roles)' = Evidence(n, u, roles)
    BY <1>6, SameEvidence
  <2>6. Counted(n, u)
    BY <2>2
  <2> QED
    BY <2>4, <2>5, <2>6 DEF Counted
<1> QED
  BY <1>2, <1>3, <1>4, <1>5, <1>6, Shapes

\* The counts of every version are exactly its provenance rows, for any sequence
\* of candidates, repeated or not.
THEOREM CountsAreProvenance == Spec => []CountsMatchProvenance
<1>1. Init => CountsMatchProvenance
  BY DEF Init, CountsMatchProvenance
<1>2. ASSUME TypeOK, RepositoryAssumption, CountsMatchProvenance, [Next]_vars
      PROVE  CountsMatchProvenance'
  <2>1. \A m \in Name : \A w \in DOMAIN runbooks[m] : Counted(m, w)
    BY <1>2 DEF CountsMatchProvenance, Counted
  <2>2. \A n \in Name : \A u \in DOMAIN runbooks'[n] : Counted(n, u)'
    BY <1>2, <2>1, CountedStep
  <2> QED
    BY <2>2 DEF CountsMatchProvenance, Counted
<1> QED
  BY <1>1, <1>2, RepositoryTypeCorrect, RepositoryAssumption, PTL DEF Spec
============================================================================
