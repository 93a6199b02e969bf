---------------------------- MODULE RecallProofs ----------------------------
(***************************************************************************)
(* Recall against tables that change under it, for any number of writers,  *)
(* keys, rows and queries, any policy and any order of transitions and     *)
(* reads.                                                                  *)
(***************************************************************************)
EXTENDS Recall, SemanticFactsProofs

\* A step of the composition is a step of the facts or leaves them alone.
LEMMA RecallStep == RecallNext => [Next]_vars
  BY DEF RecallNext, Ask, Read, ReadAgain, ReadError, Next, vars

\* Reading disturbs nothing: the composition is a run of the facts, so every
\* theorem about transition_fact holds while recall reads.
THEOREM RecallImplementsFacts == RecallSpec => Spec
<1>1. RecallInit => Init
  BY DEF RecallInit
<1>2. [RecallNext]_recallVars => [Next]_vars
  BY RecallStep DEF recallVars, vars
<1> QED BY <1>1, <1>2, PTL DEF RecallSpec, Spec

----------------------------------------------------------------------------
(* The episodes a recall loses.                                            *)

\* Whichever rows ORDER BY distance LIMIT n returns, a row it leaves out has n
\* others that are as near.
LEMMA NearestLeavesOut ==
  ASSUME NEW rows, NEW n, NEW S \in Nearest(rows, n), NEW e \in rows \ S, IsFiniteSet(rows)
  PROVE  Cardinality({o \in rows \ {e} : o.similarity >= e.similarity}) >= n
<1> DEFINE near == {o \in rows \ {e} : o.similarity >= e.similarity}
<1>1. S \in SUBSET rows /\ Cardinality(S) = n /\ \A r \in S : r.similarity >= e.similarity
  BY DEF Nearest, kSubset
<1>2. S \in SUBSET near /\ near \in SUBSET rows
  BY <1>1
<1>3. IsFiniteSet(near)
  BY <1>2, FS_Subset
<1>4. /\ Cardinality(S) <= Cardinality(near)
      /\ Cardinality(S) \in Nat /\ Cardinality(near) \in Nat
  BY <1>1, <1>2, <1>3, FS_Subset, FS_CardinalityType
<1> QED BY <1>1, <1>4

\* The fields of a call of recall, its tables, and what an answered call holds:
\* the episodes of the snapshot it read, which no later step touches.
ReaderShape ==
  reader = [pc |-> reader.pc, query |-> reader.query, attempt |-> reader.attempt,
            found |-> reader.found, bundle |-> reader.bundle]

ReaderInv ==
  /\ tables \in Tables
  /\ ReaderShape
  /\ reader.pc \in {"reading", "done"} => reader.query \in Queries
  /\ Answered => reader.found.episodes \in EpisodicRecall(reader.query)

LEMMA InitReader == RecallInit => ReaderInv
  BY DEF RecallInit, ReaderInv, ReaderShape, Answered

\* The fields after a read.
LEMMA ReadFields ==
  ASSUME ReaderShape, Read
  PROVE  /\ reader'.pc = "done" /\ reader'.query = reader.query
         /\ reader'.found.episodes \in EpisodicRecall(reader.query)
         /\ reader'.found.facts \in SemanticRecall(reader.query)
         /\ ReaderShape'
<1>1. PICK E \in EpisodicRecall(reader.query), F \in SemanticRecall(reader.query),
           R \in ProceduralRecall(reader.query) :
        reader' = [reader EXCEPT !.pc = "done", !.attempt = 0,
                     !.found = [episodes |-> E, facts |-> F, runbooks |-> R],
                     !.bundle = Rank(reader.query, E, F, R)]
  BY DEF Read
<1> QED BY <1>1 DEF ReaderShape

LEMMA NextReader == ReaderInv /\ [RecallNext]_recallVars => ReaderInv'
<1> SUFFICES ASSUME ReaderInv, [RecallNext]_recallVars PROVE ReaderInv'
  OBVIOUS
<1>1. tables' = tables
  BY DEF RecallNext, recallVars, Ask, Read, ReadAgain, ReadError
<1>2. ASSUME NEW q PROVE EpisodicRecall(q)' = EpisodicRecall(q)
  BY <1>1 DEF EpisodicRecall, EpisodicRows, CandidateLimit
<1>3. CASE UNCHANGED reader
  BY <1>1, <1>2, <1>3 DEF ReaderInv, ReaderShape, Answered
<1>4. CASE Ask
  BY <1>1, <1>4 DEF ReaderInv, ReaderShape, Answered, Ask
<1>5. CASE Read
  BY <1>1, <1>2, <1>5, ReadFields DEF ReaderInv, Answered, Read
<1>6. CASE ReadAgain
  BY <1>1, <1>6 DEF ReaderInv, ReaderShape, Answered, ReadAgain, Raise
<1>7. CASE ReadError
  BY <1>1, <1>7 DEF ReaderInv, ReaderShape, Answered, ReadError, Raise
<1> QED BY <1>3, <1>4, <1>5, <1>6, <1>7 DEF RecallNext, recallVars

LEMMA ReaderInvariant == RecallSpec => []ReaderInv
  BY InitReader, NextReader, PTL DEF RecallSpec

\* An episode that passes every gate is lost only to candidate_limit episodes
\* of the agent that are as near, whatever tables, limits and queries.
THEOREM EpisodesLostOnlyByCrowding == RecallSpec => []LostOnlyByCrowding
<1>1. ReaderInv => LostOnlyByCrowding
  <2> SUFFICES ASSUME ReaderInv, Answered,
                      NEW e \in EpisodicRows(reader.query),
                      EpisodeEligible(reader.query, AsEpisode(e)),
                      AsEpisode(e) \notin reader.found.episodes
               PROVE  Cardinality({o \in EpisodicRows(reader.query) \ {e} :
                                     o.similarity >= e.similarity})
                        >= CandidateLimit(reader.query.k)
    BY DEF LostOnlyByCrowding
  <2> DEFINE q == reader.query
             rows == EpisodicRows(q)
  <2>1. PICK S \in Nearest(rows, CandidateLimit(q.k)) :
          reader.found.episodes
            = {AsEpisode(o) : o \in {o \in S : o.service \in {Null, q.service}}}
    BY DEF ReaderInv, EpisodicRecall
  <2>2. e.service \in {Null, q.service}
    BY DEF EpisodeEligible, ScopeValid, AsEpisode, Candidate
  <2>3. e \notin S
    BY <2>1, <2>2
  <2>4. IsFiniteSet(rows)
    BY RecallAssumption, FS_Subset DEF ReaderInv, EpisodicRows, TableOK
  <2> QED BY <2>1, <2>3, <2>4, NearestLeavesOut
<1> QED BY <1>1, ReaderInvariant, PTL

----------------------------------------------------------------------------
(* The facts a recall finds.                                               *)

\* No row ends before it begins: a transition that would close a row so is
\* refused.
WindowsForward ==
  \A f \in Recorded : facts[f].valid_to # Null => facts[f].valid_to > facts[f].valid_from

LEMMA InitForward == Init => WindowsForward
  BY DEF Init, WindowsForward, Recorded

LEMMA NextForward == FactsInv /\ WindowsForward /\ [Next]_vars => WindowsForward'
<1> SUFFICES ASSUME FactsInv, WindowsForward, [Next]_vars PROVE WindowsForward'
  OBVIOUS
<1>1. CASE facts' = facts
  BY <1>1 DEF WindowsForward, Recorded
<1>2. CASE facts' # facts
  <2>1. PICK w \in Writer : call[w].pc = "commit" /\ facts' = Applied(w)
    BY <1>2 DEF Next, vars, Tick, TransitionFact, Request, Close, CloseRejected, Insert,
           InsertCollides, Link, SerializationFailure, DatabaseError, Commit,
           CommitUnacknowledged
  <2>2. /\ Recorded' = Recorded \cup {w} /\ facts'[w].valid_to = Null
        /\ \A f \in Recorded : AppliedField(w, f)
    BY <2>1, AppliedSets
  <2>3. /\ call[w].old # Null => call[w].at > facts[call[w].old].valid_from
        /\ Null \notin Writer
    BY <2>1, AppliedRows, FactsAssumption DEF FactsInv, TypeOK, Row
  <2> QED BY <2>2, <2>3 DEF WindowsForward, AppliedField, Recorded
<1> QED BY <1>1, <1>2

LEMMA ForwardInvariant == RecallSpec => [](FactsInv /\ WindowsForward)
<1>1. Spec => [](FactsInv /\ WindowsForward)
  BY InitFacts, NextFacts, InitForward, NextForward, PTL DEF Spec
<1> QED BY <1>1, RecallImplementsFacts

\* A row that nobody has replaced by an instant at or after its beginning is
\* still valid then: if it is closed, its successor begins later.
LEMMA Unreplaced ==
  ASSUME FactsInv, WindowsForward, NEW f \in Recorded, NEW x \in Nat,
         facts[f].valid_from <= x,
         \A g \in Recorded : facts[g].key = facts[f].key
            => facts[g].valid_from <= facts[f].valid_from \/ facts[g].valid_from > x
  PROVE  ValidAt(facts[f], x)
<1>1. facts[f] \in Row
  BY DEF FactsInv, TypeOK, Recorded
<1>2. CASE facts[f].valid_to = Null
  BY <1>2 DEF ValidAt
<1>3. CASE facts[f].valid_to # Null
  <2>1. PICK g \in Recorded : /\ facts[g].key = facts[f].key
                              /\ facts[g].valid_from = facts[f].valid_to
    BY <1>3 DEF FactsInv, Linked
  <2>2. /\ facts[f].valid_to \in Nat /\ facts[f].valid_from \in Nat
        /\ facts[f].valid_to > facts[f].valid_from
    BY <1>1, <1>3 DEF Row, WindowsForward
  <2> QED BY <2>1, <2>2 DEF ValidAt
<1> QED BY <1>2, <1>3

\* Every query has a limit.
LEMMA LimitType ==
  ASSUME NEW q \in Queries PROVE CandidateLimit(q.k) \in Nat
  BY RecallAssumption DEF CandidateLimit, AtMost, AtLeast

\* The rows of the semantic query, with the distance it orders them by.
Near(f) == [fact |-> f, similarity |-> About[facts[f].key].similarity]

\* A row of the semantic query is returned unless there are more than the
\* limit.
LEMMA SemanticFinds ==
  ASSUME TypeOK, NEW q \in Queries, NEW F \in SemanticRecall(q),
         NEW f \in SemanticRows(q.agent, q.as_of),
         About[facts[f].key].service \in {Null, q.service},
         Cardinality(SemanticRows(q.agent, q.as_of)) <= CandidateLimit(q.k)
  PROVE  AsFact(q, f) \in F
<1> DEFINE rows == SemanticRows(q.agent, q.as_of)
           near == {Near(g) : g \in rows}
           map == [g \in rows |-> Near(g)]
<1>1. PICK S \in Nearest(near, CandidateLimit(q.k)) :
        F = {AsFact(q, r.fact) :
               r \in {r \in S : About[facts[r.fact].key].service \in {Null, q.service}}}
  BY DEF SemanticRecall, Near
<1>2. IsFiniteSet(rows)
  BY RecallAssumption, FS_Subset DEF SemanticRows, Recorded
<1>3. map \in Surjection(rows, near)
  BY DEF Surjection
<1>4. Cardinality(near) <= Cardinality(rows) /\ IsFiniteSet(near)
  BY <1>2, <1>3, FS_Surjection
<1>5. Cardinality(near) <= CandidateLimit(q.k)
  BY <1>2, <1>4, LimitType, FS_CardinalityType
<1>6. S = near
  BY <1>1, <1>5 DEF Nearest
<1>7. Near(f) \in S /\ Near(f).fact = f
  BY <1>6 DEF Near
<1> QED BY <1>1, <1>7

\* A fact the agent has recorded and nobody has replaced by the instant of the
\* query is among the candidates of every later read, whatever transitions
\* race with it, unless there are more rows than candidate_limit.
THEOREM RecallReadsOwnFacts == RecallSpec => ReadYourOwnFact
<1> DEFINE Step ==
      reader.pc = "reading" /\ reader'.pc = "done" =>
       LET q == reader.query IN
       \A f \in Recorded :
         /\ facts[f].agent = q.agent
         /\ About[facts[f].key].service \in {Null, q.service}
         /\ facts[f].valid_from <= q.as_of /\ facts[f].recorded_at <= q.as_of
         /\ \A g \in Recorded : facts[g].key = facts[f].key
              => facts[g].valid_from <= facts[f].valid_from \/ facts[g].valid_from > q.as_of
         => \/ AsFact(q, f) \in reader'.found.facts
            \/ Cardinality(SemanticRows(q.agent, q.as_of)) > CandidateLimit(q.k)
<1>1. FactsInv /\ WindowsForward /\ ReaderInv /\ [RecallNext]_recallVars => Step
  <2> SUFFICES ASSUME FactsInv, WindowsForward, ReaderInv, [RecallNext]_recallVars,
                      reader.pc = "reading", reader'.pc = "done",
                      NEW f \in Recorded,
                      facts[f].agent = reader.query.agent,
                      About[facts[f].key].service \in {Null, reader.query.service},
                      facts[f].valid_from <= reader.query.as_of,
                      facts[f].recorded_at <= reader.query.as_of,
                      \A g \in Recorded : facts[g].key = facts[f].key
                         => \/ facts[g].valid_from <= facts[f].valid_from
                            \/ facts[g].valid_from > reader.query.as_of,
                      ~(Cardinality(SemanticRows(reader.query.agent, reader.query.as_of))
                          > CandidateLimit(reader.query.k))
               PROVE  AsFact(reader.query, f) \in reader'.found.facts
    OBVIOUS
  <2> DEFINE q == reader.query
             rows == SemanticRows(q.agent, q.as_of)
  <2>1. q \in Queries /\ q.as_of \in Nat
    BY RecallAssumption DEF ReaderInv
  <2>2. Read
    <3>1. reader' # reader
      OBVIOUS
    <3>2. ~Ask
      BY DEF Ask
    <3>3. ~ReadAgain /\ ~ReadError
      BY DEF ReadAgain, ReadError, Raise, ReaderInv, ReaderShape
    <3> QED BY <3>1, <3>2, <3>3 DEF RecallNext, recallVars
  <2>3. reader'.found.facts \in SemanticRecall(q)
    BY <2>2, ReadFields DEF ReaderInv
  <2>4. f \in rows
    BY <2>1, Unreplaced DEF SemanticRows
  <2>5. Cardinality(rows) <= CandidateLimit(q.k)
    <3>1. Cardinality(rows) \in Nat
      BY RecallAssumption, FS_Subset, FS_CardinalityType DEF SemanticRows, Recorded
    <3> QED BY <2>1, <3>1, LimitType
  <2> QED BY <2>1, <2>3, <2>4, <2>5, SemanticFinds DEF FactsInv
<1> QED BY <1>1, ForwardInvariant, ReaderInvariant, PTL DEF RecallSpec, ReadYourOwnFact

----------------------------------------------------------------------------
(* The ranker: sorting, and the greedy scan of _diverse.                   *)

\* Induction over the naturals, for a set.
LEMMA NatSetInduction ==
  ASSUME NEW S, 0 \in S, \A n \in Nat : n \in S => n + 1 \in S
  PROVE  Nat \subseteq S
<1> SUFFICES ASSUME NEW m \in Nat \ S PROVE FALSE
  OBVIOUS
<1>1. PICK n \in Nat \ S : \A k \in Nat \ S : ~(<<k, n>> \in OpToRel(<, Nat))
  BY WFMin, NatLessThanWellFounded, Nat \ S \subseteq Nat, Nat \ S # {}
<1>2. \A k \in Nat \ S : ~(k < n)
  BY <1>1 DEF OpToRel
<1>3. n # 0
  OBVIOUS
<1>4. n - 1 \in Nat /\ n - 1 < n /\ n = (n - 1) + 1
  BY <1>3
<1> QED BY <1>2, <1>4

Orderable(items) ==
  /\ IsFiniteSet(items)
  /\ \A i \in items : i.score \in Nat /\ i.candidate.similarity \in Nat /\ i.candidate.id \in Nat
  /\ \A i, j \in items :
       i.score = j.score /\ i.candidate.similarity = j.candidate.similarity
         /\ i.candidate.id = j.candidate.id => i = j

LEMMA BetterOrder ==
  ASSUME NEW items, Orderable(items)
  PROVE  /\ \A i \in items : ~Better(i, i)
         /\ \A i, j \in items : Better(i, j) => ~Better(j, i)
         /\ \A i, j, k \in items : Better(i, j) /\ Better(j, k) => Better(i, k)
         /\ \A i, j \in items : i # j => Better(i, j) \/ Better(j, i)
  BY DEF Orderable, Better

Above(items, i) == {j \in items : Better(j, i)}

LEMMA RankOrder ==
  ASSUME NEW items, Orderable(items)
  PROVE  /\ \A i \in items : Cardinality(Above(items, i)) \in 0..(Cardinality(items) - 1)
         /\ \A i, j \in items : Better(i, j)
              => Cardinality(Above(items, i)) < Cardinality(Above(items, j))
<1>1. ASSUME NEW S \in SUBSET items PROVE IsFiniteSet(S) /\ Cardinality(S) \in Nat
  BY FS_Subset, FS_CardinalityType DEF Orderable
<1>2. ASSUME NEW T \in SUBSET items, NEW S \in SUBSET T, NEW x \in T \ S
      PROVE  Cardinality(S) < Cardinality(T)
  <2>1. IsFiniteSet(T) /\ IsFiniteSet(S) /\ Cardinality(S) \in Nat /\ Cardinality(T) \in Nat
    BY <1>1
  <2> QED BY <2>1, FS_Subset
<1>3. ASSUME NEW i \in items PROVE Cardinality(Above(items, i)) < Cardinality(items)
  BY <1>2, BetterOrder DEF Above
<1>4. ASSUME NEW i \in items, NEW j \in items, Better(i, j)
      PROVE  Cardinality(Above(items, i)) < Cardinality(Above(items, j))
  <2>1. Above(items, i) \subseteq Above(items, j) /\ i \in Above(items, j) \ Above(items, i)
    BY <1>4, BetterOrder DEF Above
  <2> QED BY <1>2, <2>1 DEF Above
<1>5. \A i \in items : Cardinality(Above(items, i)) \in Nat /\ Cardinality(items) \in Nat
  BY <1>1 DEF Above
<1> QED BY <1>3, <1>4, <1>5

\* Sorted lists every item once, in descending order.
LEMMA SortedOrder ==
  ASSUME NEW items, Orderable(items)
  PROVE  /\ Cardinality(items) \in Nat
         /\ \A n \in 1..Cardinality(items) : Sorted(items)[n] \in items
         /\ \A i \in items : \E n \in 1..Cardinality(items) : Sorted(items)[n] = i
         /\ \A m, n \in 1..Cardinality(items) :
              Better(Sorted(items)[m], Sorted(items)[n]) <=> m < n
<1> DEFINE N == Cardinality(items)
           rank == [i \in items |-> Cardinality(Above(items, i)) + 1]
<1>1. N \in Nat /\ IsFiniteSet(items)
  BY FS_CardinalityType DEF Orderable
<1>2. rank \in [items -> 1..N]
  BY <1>1, RankOrder
<1>3. \A i, j \in items : Better(i, j) => rank[i] < rank[j]
  BY <1>1, RankOrder
<1>4. \A i, j \in items : rank[i] = rank[j] => i = j
  BY <1>2, <1>3, BetterOrder
<1>5. rank \in Injection(items, 1..N)
  BY <1>2, <1>4 DEF Injection, IsInjective
<1>6. IsFiniteSet(1..N) /\ Cardinality(1..N) = N
  BY <1>1, FS_Interval
<1>7. rank \in Surjection(items, 1..N)
  BY <1>5, <1>6, FS_Injection
<1>8. ASSUME NEW n \in 1..N
      PROVE  Sorted(items)[n] \in items /\ rank[Sorted(items)[n]] = n
  <2>1. PICK i \in items : rank[i] = n
    BY <1>7 DEF Surjection
  <2>2. Cardinality({j \in items : Better(j, i)}) = n - 1
    BY <1>1, <2>1, RankOrder DEF Above
  <2>3. Sorted(items)[n] = CHOOSE k \in items : Cardinality({j \in items : Better(j, k)}) = n - 1
    BY DEF Sorted
  <2>4. /\ Sorted(items)[n] \in items
        /\ Cardinality({j \in items : Better(j, Sorted(items)[n])}) = n - 1
    BY <2>2, <2>3
  <2> QED BY <2>4 DEF Above
<1>9. ASSUME NEW i \in items PROVE \E n \in 1..N : Sorted(items)[n] = i
  BY <1>2, <1>4, <1>8
<1>10. ASSUME NEW m \in 1..N, NEW n \in 1..N
       PROVE  Better(Sorted(items)[m], Sorted(items)[n]) <=> m < n
  <2> DEFINE a == Sorted(items)[m]
             b == Sorted(items)[n]
  <2>1. a \in items /\ b \in items /\ rank[a] = m /\ rank[b] = n
    BY <1>8
  <2>2. /\ Better(a, b) => rank[a] < rank[b]
        /\ Better(b, a) => rank[b] < rank[a]
        /\ a # b => Better(a, b) \/ Better(b, a)
    BY <1>3, <2>1, BetterOrder
  <2> HIDE DEF a, b, rank
  <2>3. Better(a, b) <=> m < n
    BY <2>1, <2>2
  <2> QED BY <2>3 DEF a, b
<1> QED BY <1>1, <1>8, <1>9, <1>10

\* The loop over the sorted items, as far as turn n.
IsLoop(p, list, limit, n) ==
  p = [m \in 0..n |-> IF m = 0 THEN <<>> ELSE Select(p[m - 1], list[m], limit)]

LEMMA LoopExists ==
  ASSUME NEW list, NEW limit
  PROVE  \A n \in Nat : \E p : IsLoop(p, list, limit, n)
<1> DEFINE S == {n \in Nat : \E p : IsLoop(p, list, limit, n)}
<1>1. 0 \in S
  <2>1. IsLoop([m \in 0..0 |-> <<>>], list, limit, 0)
    BY DEF IsLoop
  <2> QED BY <2>1
<1>2. ASSUME NEW n \in Nat, n \in S PROVE n + 1 \in S
  <2>1. PICK p : IsLoop(p, list, limit, n)
    BY <1>2
  <2> DEFINE r == [m \in 0..(n + 1) |->
                     IF m = n + 1 THEN Select(p[n], list[n + 1], limit) ELSE p[m]]
  <2>2. ASSUME NEW m \in 0..(n + 1)
        PROVE  r[m] = IF m = 0 THEN <<>> ELSE Select(r[m - 1], list[m], limit)
    <3>1. CASE m = n + 1
      BY <3>1
    <3>2. CASE m # n + 1
      <4>1. m \in 0..n /\ (m # 0 => m - 1 \in 0..n)
        BY <3>2
      <4>2. p[m] = IF m = 0 THEN <<>> ELSE Select(p[m - 1], list[m], limit)
        BY <2>1, <4>1 DEF IsLoop
      <4>3. r[m] = p[m] /\ (m # 0 => r[m - 1] = p[m - 1])
        BY <3>2, <4>1
      <4> QED BY <4>2, <4>3
    <3> QED BY <3>1, <3>2
  <2>3. IsLoop(r, list, limit, n + 1)
    BY <2>2 DEF IsLoop
  <2> QED BY <2>3
<1>3. Nat \subseteq S
  <2> HIDE DEF S
  <2> QED BY <1>1, <1>2, NatSetInduction
<1> QED BY <1>3

\* Diverse is the result of the loop.
LEMMA DiverseIsLoop ==
  ASSUME NEW items, NEW limit, Cardinality(items) \in Nat
  PROVE  \E p : /\ IsLoop(p, Sorted(items), limit, Cardinality(items))
                /\ Diverse(items, limit) = p[Cardinality(items)]
<1> DEFINE N == Cardinality(items)
           p == CHOOSE p : IsLoop(p, Sorted(items), limit, N)
<1>1. \E q : IsLoop(q, Sorted(items), limit, N)
  BY LoopExists
<1>2. IsLoop(p, Sorted(items), limit, N)
  BY <1>1
<1>3. Diverse(items, limit) = p[N]
  BY DEF Diverse, IsLoop
<1> QED BY <1>2, <1>3

\* Every case of the items has a best one.
LEMMA CaseHasBest ==
  ASSUME NEW items, Orderable(items), NEW i \in items
  PROVE  \E b \in BestOfCase(items) :
           b.candidate.case = i.candidate.case /\ (b = i \/ Better(b, i))
<1> DEFINE list == Sorted(items)
           N == Cardinality(items)
           S == {n \in 1..N : list[n].candidate.case = i.candidate.case}
<1>1. PICK m \in 1..N : list[m] = i
  BY SortedOrder
<1>2. S # {} /\ S \subseteq Nat
  BY <1>1
<1>3. PICK n \in S : \A k \in S : ~(<<k, n>> \in OpToRel(<, Nat))
  <2> HIDE DEF S
  <2> QED BY <1>2, WFMin, NatLessThanWellFounded
<1>4. N \in Nat /\ n \in 1..N /\ \A k \in S : ~(k < n)
  BY <1>2, <1>3, SortedOrder DEF OpToRel
<1> DEFINE b == list[n]
<1>5. b \in items /\ b.candidate.case = i.candidate.case
  BY <1>4, SortedOrder
<1>6. ASSUME NEW j \in items, j.candidate.case = b.candidate.case, Better(j, b)
      PROVE  FALSE
  <2>1. PICK k \in 1..N : list[k] = j
    BY SortedOrder
  <2>2. k < n
    BY <1>4, <1>6, <2>1, SortedOrder
  <2>3. k \in S
    BY <1>5, <1>6, <2>1
  <2> QED BY <1>4, <2>2, <2>3
<1>7. b \in BestOfCase(items)
  BY <1>5, <1>6 DEF BestOfCase
<1>8. b = i \/ Better(b, i)
  BY <1>5, <1>7, BetterOrder DEF BestOfCase
<1> QED BY <1>5, <1>7, <1>8

\* What the loop has selected after n items.
Chosen(items, limit) ==
  LET best == BestOfCase(items) IN
  {i \in best : Above(best, i) = {} \/ Cardinality(Above(best, i)) < limit}

Prefix(items, n) == {Sorted(items)[m] : m \in 1..n}

Members(list) == {list[m] : m \in DOMAIN list}

LoopInv(items, limit, n, list) ==
  /\ list \in Seq(items)
  /\ \A k, m \in 1..Len(list) : k < m => Better(list[k], list[m])
  /\ Members(list) = Chosen(items, limit) \cap Prefix(items, n)
  /\ \/ Members(list) = BestOfCase(items) \cap Prefix(items, n)
     \/ list # <<>> /\ Len(list) >= limit

\* A descending list counts its members.
LEMMA DescendingCounts ==
  ASSUME NEW items, Orderable(items), NEW list \in Seq(items),
         \A k, m \in 1..Len(list) : k < m => Better(list[k], list[m])
  PROVE  IsFiniteSet(Members(list)) /\ Cardinality(Members(list)) = Len(list)
<1>1. list \in [1..Len(list) -> Members(list)] /\ Len(list) \in Nat
  BY DEF Members
<1>2. \A k, m \in 1..Len(list) : list[k] = list[m] => k = m
  <2> SUFFICES ASSUME NEW k \in 1..Len(list), NEW m \in 1..Len(list), list[k] = list[m], k # m
               PROVE  FALSE
    OBVIOUS
  <2>1. list[k] \in items
    OBVIOUS
  <2>2. k < m \/ m < k
    BY <1>1
  <2> QED BY <2>1, <2>2, BetterOrder
<1>3. list \in Bijection(1..Len(list), Members(list))
  BY <1>1, <1>2 DEF Members, Bijection, Injection, Surjection, IsInjective
<1>4. ExistsBijection(1..Len(list), Members(list))
  BY <1>3 DEF ExistsBijection
<1> QED BY <1>1, <1>4, FS_CountingElements, FS_NatBijection

\* The best items before an item are the ones above it.
LEMMA AbovePrefix ==
  ASSUME NEW items, Orderable(items), NEW n \in Nat, n + 1 \in 1..Cardinality(items)
  PROVE  /\ Above(BestOfCase(items), Sorted(items)[n + 1]) = BestOfCase(items) \cap Prefix(items, n)
         /\ Prefix(items, n + 1) = Prefix(items, n) \cup {Sorted(items)[n + 1]}
         /\ Sorted(items)[n + 1] \in items /\ Sorted(items)[n + 1] \notin Prefix(items, n)
         /\ Prefix(items, n) \subseteq items
<1> DEFINE N == Cardinality(items)
           item == Sorted(items)[n + 1]
<1>1. N \in Nat /\ n + 1 <= N /\ 1..n \subseteq 1..N /\ 1..(n + 1) = 1..n \cup {n + 1}
  BY SortedOrder
<1>2. item \in items /\ Prefix(items, n) \subseteq items
  BY <1>1, SortedOrder DEF Prefix
<1>3. Prefix(items, n + 1) = Prefix(items, n) \cup {item}
  BY <1>1 DEF Prefix
<1>4. \A m \in 1..n : Better(Sorted(items)[m], item)
  BY <1>1, SortedOrder
<1>5. item \notin Prefix(items, n)
  BY <1>2, <1>4, BetterOrder DEF Prefix
<1>6. ASSUME NEW j \in BestOfCase(items)
      PROVE  Better(j, item) <=> j \in Prefix(items, n)
  <2>1. PICK m \in 1..N : Sorted(items)[m] = j
    BY SortedOrder DEF BestOfCase
  <2>2. Better(j, item) <=> m < n + 1
    BY <2>1, SortedOrder
  <2>3. Better(j, item) => m \in 1..n
    BY <1>1, <2>1, <2>2
  <2>4. j \in Prefix(items, n) => Better(j, item)
    BY <1>4 DEF Prefix
  <2> QED BY <2>1, <2>3, <2>4 DEF Prefix
<1>7. Above(BestOfCase(items), item) = BestOfCase(items) \cap Prefix(items, n)
  BY <1>6 DEF Above
<1> QED BY <1>2, <1>3, <1>5, <1>7

\* One turn of the loop.
LEMMA LoopStep ==
  ASSUME NEW items, Orderable(items), NEW limit \in Nat, NEW n \in Nat,
         n + 1 \in 1..Cardinality(items), NEW list, LoopInv(items, limit, n, list)
  PROVE  LoopInv(items, limit, n + 1, Select(list, Sorted(items)[n + 1], limit))
<1> DEFINE item == Sorted(items)[n + 1]
           best == BestOfCase(items)
           before == Prefix(items, n)
<1>1. /\ Above(best, item) = best \cap before
      /\ Prefix(items, n + 1) = before \cup {item}
      /\ item \in items /\ item \notin before /\ before \subseteq items
  BY AbovePrefix
<1>2. /\ list \in Seq(items) /\ Len(list) \in Nat
      /\ \A k, m \in 1..Len(list) : k < m => Better(list[k], list[m])
      /\ Members(list) = Chosen(items, limit) \cap before
  BY DEF LoopInv
<1>3. /\ IsFiniteSet(Members(list)) /\ Cardinality(Members(list)) = Len(list)
      /\ Chosen(items, limit) \subseteq best /\ best \subseteq items
  BY <1>2, DescendingCounts DEF Chosen, BestOfCase
<1>4. IsFiniteSet(best) /\ IsFiniteSet(best \cap before) /\ Cardinality(best \cap before) \in Nat
  BY <1>3, FS_Subset, FS_Intersection, FS_CardinalityType DEF Orderable
<1>5. \A b \in best \cap before : Better(b, item)
  BY <1>1 DEF Above
<1>6. CASE list # <<>> /\ Len(list) >= limit
  <2>1. Select(list, item, limit) = list
    BY <1>6 DEF Select
  <2>2. list[1] \in Members(list)
    BY <1>2, <1>6 DEF Members
  <2>3. Members(list) \in SUBSET (best \cap before) /\ best \cap before # {}
    BY <1>2, <1>3, <2>2
  <2>4. Len(list) <= Cardinality(best \cap before)
    BY <1>3, <1>4, <2>3, FS_Subset
  <2>5. item \notin Chosen(items, limit)
    <3>1. Above(best, item) # {} /\ ~(Cardinality(Above(best, item)) < limit)
      BY <1>1, <1>2, <1>4, <1>6, <2>3, <2>4
    <3> QED BY <3>1 DEF Chosen
  <2>6. Members(list) = Chosen(items, limit) \cap Prefix(items, n + 1)
    BY <1>1, <1>2, <2>5
  <2> QED BY <1>2, <1>6, <2>1, <2>6 DEF LoopInv
<1>7. CASE /\ ~(list # <<>> /\ Len(list) >= limit)
           /\ \E i \in DOMAIN list : list[i].candidate.case = item.candidate.case
  <2>1. Select(list, item, limit) = list
    BY <1>7 DEF Select
  <2>2. PICK i \in DOMAIN list : list[i].candidate.case = item.candidate.case
    BY <1>7
  <2>3. list[i] \in best \cap before
    BY <1>2, <1>3 DEF Members
  <2>4. item \notin best
    BY <1>3, <1>5, <2>2, <2>3 DEF BestOfCase
  <2>5. /\ Members(list) = best \cap Prefix(items, n + 1)
        /\ Members(list) = Chosen(items, limit) \cap Prefix(items, n + 1)
    BY <1>1, <1>2, <1>3, <1>7, <2>4 DEF LoopInv
  <2> QED BY <1>2, <2>1, <2>5 DEF LoopInv
<1>8. CASE /\ ~(list # <<>> /\ Len(list) >= limit)
           /\ ~\E i \in DOMAIN list : list[i].candidate.case = item.candidate.case
  <2> DEFINE longer == Append(list, item)
  <2>1. Select(list, item, limit) = longer
    BY <1>8 DEF Select
  <2>2. Members(list) = best \cap before
    BY <1>8 DEF LoopInv
  <2>3. item \in best
    <3>1. PICK b \in best : /\ b.candidate.case = item.candidate.case
                            /\ b = item \/ Better(b, item)
      BY <1>1, CaseHasBest
    <3>2. CASE Better(b, item)
      <4>1. b \in Members(list)
        BY <1>1, <2>2, <3>2 DEF Above
      <4> QED BY <1>8, <3>1, <4>1 DEF Members
    <3> QED BY <3>1, <3>2
  <2>4. Above(best, item) = {} \/ Cardinality(Above(best, item)) < limit
    <3>1. CASE list = <<>>
      <4>1. Members(list) = {}
        BY <3>1 DEF Members
      <4> QED BY <1>1, <2>2, <4>1
    <3>2. CASE Len(list) < limit
      BY <1>1, <1>3, <2>2, <3>2
    <3> QED BY <1>2, <1>8, <3>1, <3>2
  <2>5. item \in Chosen(items, limit)
    BY <2>3, <2>4 DEF Chosen
  <2>6. /\ longer \in Seq(items) /\ Len(longer) = Len(list) + 1
        /\ \A k \in 1..Len(list) : longer[k] = list[k]
        /\ longer[Len(list) + 1] = item
    BY <1>1, <1>2
  <2>7. Members(longer) = Members(list) \cup {item}
    <3>1. DOMAIN longer = 1..(Len(list) + 1) /\ DOMAIN list = 1..Len(list)
      BY <1>2, <2>6
    <3> HIDE DEF longer, item
    <3>2. 1..(Len(list) + 1) = 1..Len(list) \cup {Len(list) + 1}
      BY <1>2
    <3> QED BY <2>6, <3>1, <3>2 DEF Members
  <2>8. ASSUME NEW k \in 1..Len(longer), NEW m \in 1..Len(longer), k < m
        PROVE  Better(longer[k], longer[m])
    <3>1. k \in 1..Len(list)
      BY <1>2, <2>6, <2>8
    <3>2. CASE m \in 1..Len(list)
      BY <1>2, <2>6, <2>8, <3>1, <3>2
    <3>3. CASE m = Len(list) + 1
      <4>1. list[k] \in best \cap before
        BY <1>2, <2>2, <3>1 DEF Members
      <4> QED BY <1>5, <2>6, <3>1, <3>3, <4>1
    <3> QED BY <1>2, <2>6, <3>2, <3>3
  <2>9. /\ Members(longer) = best \cap Prefix(items, n + 1)
        /\ Members(longer) = Chosen(items, limit) \cap Prefix(items, n + 1)
    BY <1>1, <1>2, <2>2, <2>3, <2>5, <2>7
  <2> HIDE DEF longer
  <2> QED BY <2>1, <2>6, <2>8, <2>9 DEF LoopInv
<1> QED BY <1>6, <1>7, <1>8

\* The greedy scan chooses what the reference describes.
LEMMA DiverseChooses ==
  ASSUME NEW items, Orderable(items), NEW limit \in Nat
  PROVE  IsDiverseChoice(Diverse(items, limit), items, limit)
<1> DEFINE N == Cardinality(items)
<1>1. N \in Nat
  BY SortedOrder
<1>2. PICK p : IsLoop(p, Sorted(items), limit, N) /\ Diverse(items, limit) = p[N]
  BY <1>1, DiverseIsLoop
<1> DEFINE S == {n \in Nat : n <= N => LoopInv(items, limit, n, p[n])}
<1>3. 0 \in S
  <2>1. p[0] = <<>>
    BY <1>1, <1>2 DEF IsLoop
  <2>2. Prefix(items, 0) = {} /\ Members(<<>>) = {}
    BY DEF Prefix, Members
  <2>3. LoopInv(items, limit, 0, <<>>)
    BY <2>2 DEF LoopInv
  <2> QED BY <2>1, <2>3
<1>4. ASSUME NEW n \in Nat, n \in S PROVE n + 1 \in S
  <2> SUFFICES ASSUME n + 1 <= N PROVE LoopInv(items, limit, n + 1, p[n + 1])
    OBVIOUS
  <2>1. LoopInv(items, limit, n, p[n])
    BY <1>1, <1>4
  <2>2. p[n + 1] = Select(p[n], Sorted(items)[n + 1], limit)
    BY <1>1, <1>2 DEF IsLoop
  <2>3. n + 1 \in 1..N
    BY <1>1
  <2> QED BY <2>1, <2>2, <2>3, LoopStep
<1>5. LoopInv(items, limit, N, p[N])
  <2>1. Nat \subseteq S
    <3> HIDE DEF S
    <3> QED BY <1>3, <1>4, NatSetInduction
  <2> QED BY <1>1, <2>1
<1>6. Prefix(items, N) = items
  BY SortedOrder DEF Prefix
<1>7. Members(p[N]) = Chosen(items, limit)
  BY <1>5, <1>6 DEF LoopInv, Chosen, BestOfCase
<1>8. \A m, n \in DOMAIN p[N] : m < n => Better(p[N][m], p[N][n])
  BY <1>5 DEF LoopInv
<1> QED BY <1>2, <1>7, <1>8 DEF IsDiverseChoice, Chosen, Above, Members

----------------------------------------------------------------------------
(* Scores.                                                                 *)

\* p halves 100 as often as asked, up to n times.
IsHalving(p, n) == p = [m \in 0..n |-> IF m = 0 THEN 100 ELSE p[m - 1] \div 2]

LEMMA HalvingExists == \A n \in Nat : \E p : IsHalving(p, n)
<1> DEFINE S == {n \in Nat : \E p : IsHalving(p, n)}
<1>1. 0 \in S
  <2>1. IsHalving([m \in 0..0 |-> 100], 0)
    BY DEF IsHalving
  <2> QED BY <2>1
<1>2. ASSUME NEW n \in Nat, n \in S PROVE n + 1 \in S
  <2>1. PICK p : IsHalving(p, n)
    BY <1>2
  <2> DEFINE r == [m \in 0..(n + 1) |-> IF m = n + 1 THEN p[n] \div 2 ELSE p[m]]
  <2>2. ASSUME NEW m \in 0..(n + 1)
        PROVE  r[m] = IF m = 0 THEN 100 ELSE r[m - 1] \div 2
    <3>1. CASE m = n + 1
      BY <3>1
    <3>2. CASE m # n + 1
      <4>1. m \in 0..n /\ (m # 0 => m - 1 \in 0..n)
        BY <3>2
      <4>2. p[m] = IF m = 0 THEN 100 ELSE p[m - 1] \div 2
        BY <2>1, <4>1 DEF IsHalving
      <4>3. r[m] = p[m] /\ (m # 0 => r[m - 1] = p[m - 1])
        BY <3>2, <4>1
      <4> QED BY <4>2, <4>3
    <3> QED BY <3>1, <3>2
  <2>3. IsHalving(r, n + 1)
    BY <2>2 DEF IsHalving
  <2> QED BY <2>3
<1>3. Nat \subseteq S
  <2> HIDE DEF S
  <2> QED BY <1>1, <1>2, NatSetInduction
<1> QED BY <1>3

\* Two of them agree.
LEMMA HalvingsAgree ==
  ASSUME NEW k \in Nat, NEW l \in Nat, NEW p, NEW r, IsHalving(p, k), IsHalving(r, l)
  PROVE  \A n \in Nat : n <= k /\ n <= l => p[n] = r[n] /\ p[n] \in Nat
<1> DEFINE S == {n \in Nat : n <= k /\ n <= l => p[n] = r[n] /\ p[n] \in Nat}
<1>1. 0 \in S
  BY DEF IsHalving
<1>2. ASSUME NEW n \in Nat, n \in S PROVE n + 1 \in S
  <2> SUFFICES ASSUME n + 1 <= k, n + 1 <= l PROVE p[n + 1] = r[n + 1] /\ p[n + 1] \in Nat
    OBVIOUS
  <2>1. p[n] = r[n] /\ p[n] \in Nat
    BY <1>2
  <2>2. p[n + 1] = p[n] \div 2 /\ r[n + 1] = r[n] \div 2
    BY DEF IsHalving
  <2> QED BY <2>1, <2>2
<1>3. Nat \subseteq S
  <2> HIDE DEF S
  <2> QED BY <1>1, <1>2, NatSetInduction
<1> QED BY <1>3

LEMMA HalvedType == \A n \in Nat : Halved[n] \in Nat
<1> DEFINE P(n) == CHOOSE p : IsHalving(p, n)
           IsHalved(h) == h = [n \in Nat |-> IF n = 0 THEN 100 ELSE h[n - 1] \div 2]
           h == [n \in Nat |-> P(n)[n]]
<1>1. \A n \in Nat : IsHalving(P(n), n)
  BY HalvingExists
<1>2. \A n \in Nat : \A m \in 0..n :
        P(n)[m] = IF m = 0 THEN 100 ELSE P(n)[m - 1] \div 2
  <2> HIDE DEF P
  <2> QED BY <1>1 DEF IsHalving
<1> HIDE DEF P
<1>3. ASSUME NEW n \in Nat PROVE h[n] = IF n = 0 THEN 100 ELSE h[n - 1] \div 2
  <2>1. CASE n = 0
    BY <1>2, <2>1
  <2>2. CASE n # 0
    <3>1. n - 1 \in Nat /\ n - 1 <= n
      BY <2>2
    <3>2. P(n - 1)[n - 1] = P(n)[n - 1]
      BY <1>1, <3>1, HalvingsAgree
    <3>3. P(n)[n] = P(n)[n - 1] \div 2
      BY <1>2, <2>2
    <3> QED BY <2>2, <3>1, <3>2, <3>3
  <2> QED BY <2>1, <2>2
<1>4. IsHalved(h)
  <2>1. h = [n \in Nat |-> h[n]]
    OBVIOUS
  <2> HIDE DEF h
  <2> QED BY <1>3, <2>1
<1>5. IsHalved(Halved)
  <2>1. Halved = CHOOSE g : IsHalved(g)
    BY DEF Halved
  <2> HIDE DEF IsHalved, h
  <2> QED BY <1>4, <2>1
<1> DEFINE S == {n \in Nat : Halved[n] \in Nat}
<1>6. 0 \in S
  BY <1>5
<1>7. ASSUME NEW n \in Nat, n \in S PROVE n + 1 \in S
  <2>1. Halved[n + 1] = Halved[n] \div 2
    BY <1>5
  <2> QED BY <1>7, <2>1
<1>8. Nat \subseteq S
  <2> HIDE DEF S
  <2> QED BY <1>6, <1>7, NatSetInduction
<1> QED BY <1>8

\* Two candidates of one kind differ in similarity or in id.
Comparable(C) ==
  /\ IsFiniteSet(C)
  /\ \A c \in C : c.similarity \in Nat /\ c.id \in Nat
  /\ \A c, d \in C : c.similarity = d.similarity /\ c.id = d.id => c = d

\* Scored candidates can be sorted.
LEMMA ScoredOrderable ==
  ASSUME NEW C, Comparable(C), NEW f, NEW items, items = {f[c] : c \in C},
         \A c \in C : f[c].candidate = c /\ f[c].score \in Nat
  PROVE  Orderable(items)
<1> DEFINE g == [c \in C |-> f[c]]
<1>1. g \in Surjection(C, items)
  BY DEF Surjection
<1>2. IsFiniteSet(items)
  BY <1>1, FS_Surjection DEF Comparable
<1> QED BY <1>2 DEF Orderable, Comparable

LEMMA RecencyType ==
  ASSUME NEW q \in Queries, NEW t \in Nat \cup {Null}
  PROVE  Recency(q, t) \in Nat
<1>1. q.as_of \in Nat
  BY RecallAssumption
<1>2. t # Null => AtLeast(q.as_of, t) - t \in Nat
  BY <1>1 DEF AtLeast
<1> QED BY <1>2, HalvedType DEF Recency

\* An image of a finite set is finite.
LEMMA FiniteImage ==
  ASSUME NEW S, IsFiniteSet(S), NEW f, NEW T, T = {f[x] : x \in S}
  PROVE  IsFiniteSet(T)
<1> DEFINE g == [x \in S |-> f[x]]
<1>1. g \in Surjection(S, T)
  BY DEF Surjection
<1> QED BY <1>1, FS_Surjection

\* What is nearest is a part of the rows.
LEMMA NearestIsPart ==
  ASSUME NEW rows, NEW n, NEW S \in Nearest(rows, n)
  PROVE  S \subseteq rows
  BY DEF Nearest, kSubset

\* The episodes a read has found.
LEMMA EpisodesOrderable ==
  ASSUME NEW q \in Queries, tables \in Tables, NEW E \in EpisodicRecall(q)
  PROVE  Orderable(ScoredEpisodes(q, E))
<1>1. PICK S \in SUBSET tables.episodes :
        E = {AsEpisode(e) : e \in {e \in S : e.service \in {Null, q.service}}}
  BY NearestIsPart DEF EpisodicRecall, EpisodicRows
<1> DEFINE row == [e \in tables.episodes |-> AsEpisode(e)]
           all == {row[e] : e \in tables.episodes}
           C == {c \in E : EpisodeEligible(q, c)}
           f == [c \in C |-> [candidate |-> c, score |-> ScoreEpisode(q, c),
                              actionable |-> Actionable(c)]]
<1>2. IsFiniteSet(all)
  <2>1. IsFiniteSet(tables.episodes)
    BY RecallAssumption DEF TableOK
  <2> HIDE DEF row
  <2> QED BY <2>1, FiniteImage
<1>3. C \in SUBSET all
  BY <1>1
<1>4. \A e \in tables.episodes :
        /\ AsEpisode(e).id = e.id /\ AsEpisode(e).similarity = e.similarity
        /\ AsEpisode(e).occurred_at = e.occurred_at
        /\ {e.id, e.similarity, e.occurred_at} \subseteq Nat
  <2>1. TableOK(tables)
    BY RecallAssumption
  <2>2. \A e \in tables.episodes : {e.id, e.similarity, e.occurred_at} \subseteq Nat
    BY <2>1 DEF TableOK
  <2>3. ASSUME NEW e
        PROVE  /\ AsEpisode(e).id = e.id /\ AsEpisode(e).similarity = e.similarity
               /\ AsEpisode(e).occurred_at = e.occurred_at
    BY DEF AsEpisode, Candidate
  <2> QED BY <2>2, <2>3
<1>5. \A d, e \in tables.episodes : d.id = e.id => d = e
  BY RecallAssumption DEF TableOK
<1>6. Comparable(C)
  <2>1. IsFiniteSet(C)
    BY <1>2, <1>3, FS_Subset
  <2>2. \A c \in C : \E e \in tables.episodes : c = AsEpisode(e)
    BY <1>3
  <2> HIDE DEF C
  <2> QED BY <1>4, <1>5, <2>1, <2>2 DEF Comparable
<1>7. ASSUME NEW c \in C PROVE f[c].candidate = c /\ f[c].score \in Nat
  <2>1. PICK e \in tables.episodes : c = AsEpisode(e)
    BY <1>3
  <2>2. c.similarity \in Nat /\ Recency(q, c.occurred_at) \in Nat
    BY <1>4, <2>1, RecencyType
  <2>3. ScoreEpisode(q, c) \in Nat
    BY <2>2 DEF ScoreEpisode
  <2> QED BY <2>3
<1>8. ScoredEpisodes(q, E) = {f[c] : c \in C}
  BY DEF ScoredEpisodes, Scored
<1> QED BY <1>6, <1>7, <1>8, ScoredOrderable

\* The facts a read has found: one of a key is valid at one instant.
LEMMA FactsOrderable ==
  ASSUME FactsInv, NEW q \in Queries, NEW F \in SemanticRecall(q)
  PROVE  Orderable(ScoredFacts(q, F))
<1> DEFINE rows == SemanticRows(q.agent, q.as_of)
           row == [g \in rows |-> AsFact(q, g)]
           all == {row[g] : g \in rows}
           C == {c \in F : FactEligible(q, c)}
           f == [c \in C |-> [candidate |-> c, score |-> ScoreFact(q, c),
                              actionable |-> Actionable(c)]]
<1>1. PICK S \in SUBSET {Near(g) : g \in rows} :
        F = {AsFact(q, r.fact) :
               r \in {r \in S : About[facts[r.fact].key].service \in {Null, q.service}}}
  BY NearestIsPart DEF SemanticRecall, Near
<1>2. IsFiniteSet(rows)
  BY RecallAssumption, FS_Subset DEF SemanticRows, Recorded
<1>3. IsFiniteSet(all)
  BY <1>2, FiniteImage
<1>4. \A c \in C : \E g \in rows : c = AsFact(q, g)
  BY <1>1 DEF Near
<1>5. ASSUME NEW g \in rows
      PROVE  /\ g \in Recorded /\ facts[g].key \in Key /\ facts[g] \in Row
             /\ ValidAt(facts[g], q.as_of)
             /\ AsFact(q, g).id = 0
             /\ AsFact(q, g).similarity = About[facts[g].key].similarity
             /\ AsFact(q, g).confidence = About[facts[g].key].confidence
             /\ AsFact(q, g).positive = 0
             /\ AsFact(q, g).recorded_at \in Nat
  <2>1. g \in Recorded /\ facts[g] \in Row /\ ValidAt(facts[g], q.as_of)
    BY DEF SemanticRows, FactsInv, TypeOK, Recorded
  <2> QED BY <2>1 DEF AsFact, Candidate, Row
<1>6. ASSUME NEW g \in rows, NEW h \in rows, facts[g].key = facts[h].key PROVE g = h
  <2>1. /\ g \in Recorded /\ h \in Recorded /\ facts[g] \in Row /\ facts[h] \in Row
        /\ ValidAt(facts[g], q.as_of) /\ ValidAt(facts[h], q.as_of)
    BY <1>5
  <2>2. q.as_of \in Nat /\ Null \notin Nat
    BY RecallAssumption, FactsAssumption
  <2> QED BY <1>6, <2>1, <2>2 DEF FactsInv, WindowsDisjoint, ValidAt, Row
<1>7. Comparable(C)
  <2>1. C \in SUBSET all
    BY <1>4
  <2>2. IsFiniteSet(C)
    BY <1>3, <2>1, FS_Subset
  <2>3. ASSUME NEW c \in C PROVE c.similarity \in Nat /\ c.id \in Nat
    BY <1>4, <1>5, RecallAssumption
  <2>4. ASSUME NEW c \in C, NEW d \in C, c.similarity = d.similarity PROVE c = d
    <3>1. PICK g \in rows : c = AsFact(q, g)
      BY <1>4
    <3>2. PICK h \in rows : d = AsFact(q, h)
      BY <1>4
    <3>3. facts[g].key = facts[h].key
      BY <1>5, <2>4, <3>1, <3>2, RecallAssumption
    <3> QED BY <1>6, <3>1, <3>2, <3>3
  <2> QED BY <2>2, <2>3, <2>4 DEF Comparable
<1>8. ASSUME NEW c \in C PROVE f[c].candidate = c /\ f[c].score \in Nat
  <2>1. PICK g \in rows : c = AsFact(q, g)
    BY <1>4
  <2>2. /\ c.similarity \in Nat /\ c.confidence \in Nat /\ c.positive = 0
        /\ Recency(q, c.recorded_at) \in Nat
    BY <1>5, <2>1, RecencyType, RecallAssumption
  <2>3. ScoreFact(q, c) \in Nat
    BY <2>2 DEF ScoreFact, AtMost
  <2> QED BY <2>3
<1>9. ScoredFacts(q, F) = {f[c] : c \in C}
  BY DEF ScoredFacts, Scored
<1> QED BY <1>7, <1>8, <1>9, ScoredOrderable

\* The runbooks a read has found.
LEMMA RunbooksOrderable ==
  ASSUME NEW q \in Queries, tables \in Tables, NEW R \in ProceduralRecall(q)
  PROVE  Orderable(ScoredRunbooks(q, R))
<1>1. PICK S \in SUBSET tables.runbooks : R = {AsRunbook(r) : r \in S}
  BY NearestIsPart DEF ProceduralRecall
<1> DEFINE row == [r \in tables.runbooks |-> AsRunbook(r)]
           all == {row[r] : r \in tables.runbooks}
           C == {c \in R : RunbookEligible(q, c)}
           f == [c \in C |-> [candidate |-> c, score |-> ScoreRunbook(q, c),
                              actionable |-> Actionable(c)]]
<1>2. IsFiniteSet(all)
  <2>1. IsFiniteSet(tables.runbooks)
    BY RecallAssumption DEF TableOK
  <2> HIDE DEF row
  <2> QED BY <2>1, FiniteImage
<1>3. C \in SUBSET all
  BY <1>1
<1>4. \A r \in tables.runbooks :
        /\ AsRunbook(r).id = r.id /\ AsRunbook(r).similarity = r.similarity
        /\ AsRunbook(r).success_rate = r.success_rate /\ AsRunbook(r).positive = r.positive
        /\ AsRunbook(r).recorded_at = r.recorded_at /\ AsRunbook(r).last_used = r.last_used
        /\ {r.id, r.similarity, r.recorded_at, r.success_rate, r.positive} \subseteq Nat
        /\ r.last_used \in Nat \cup {Null}
  <2>1. TableOK(tables)
    BY RecallAssumption
  <2>2. \A r \in tables.runbooks :
          /\ {r.id, r.similarity, r.recorded_at, r.success_rate, r.positive} \subseteq Nat
          /\ r.last_used \in Nat \cup {Null}
    BY <2>1 DEF TableOK
  <2>3. ASSUME NEW r
        PROVE  /\ AsRunbook(r).id = r.id /\ AsRunbook(r).similarity = r.similarity
               /\ AsRunbook(r).success_rate = r.success_rate
               /\ AsRunbook(r).positive = r.positive
               /\ AsRunbook(r).recorded_at = r.recorded_at
               /\ AsRunbook(r).last_used = r.last_used
    BY DEF AsRunbook, Candidate
  <2> QED BY <2>2, <2>3
<1>5. \A r, s \in tables.runbooks : r.id = s.id => r = s
  BY RecallAssumption DEF TableOK
<1>6. Comparable(C)
  <2>1. IsFiniteSet(C)
    BY <1>2, <1>3, FS_Subset
  <2>2. \A c \in C : \E r \in tables.runbooks : c = AsRunbook(r)
    BY <1>3
  <2> HIDE DEF C
  <2> QED BY <1>4, <1>5, <2>1, <2>2 DEF Comparable
<1>7. ASSUME NEW c \in C PROVE f[c].candidate = c /\ f[c].score \in Nat
  <2>1. PICK r \in tables.runbooks : c = AsRunbook(r)
    BY <1>3
  <2> DEFINE used == IF c.last_used = Null THEN c.recorded_at ELSE c.last_used
  <2>2. /\ c.similarity \in Nat /\ c.success_rate \in Nat /\ c.positive \in Nat
        /\ used \in Nat \cup {Null}
    BY <1>4, <2>1
  <2>3. Recency(q, used) \in Nat
    BY <2>2, RecencyType
  <2>4. RunbookScope(q, c) \in Nat
    BY DEF RunbookScope
  <2>5. (AtMost(c.positive, 3) * 100) \div 3 \in Nat
    BY <2>2 DEF AtMost
  <2>6. ScoreRunbook(q, c) \in Nat
    BY <2>2, <2>3, <2>4, <2>5 DEF ScoreRunbook
  <2> QED BY <2>6
<1>8. ScoredRunbooks(q, R) = {f[c] : c \in C}
  BY DEF ScoredRunbooks, Scored
<1> QED BY <1>6, <1>7, <1>8, ScoredOrderable

\* The bundle of a read is the diverse choice of what it found.
LEMMA ReadRanks ==
  ASSUME FactsInv, ReaderInv, Read PROVE RankMatchesReference'
<1> DEFINE q == reader.query
<1>1. PICK E \in EpisodicRecall(q), F \in SemanticRecall(q), R \in ProceduralRecall(q) :
        reader' = [reader EXCEPT !.pc = "done", !.attempt = 0,
                     !.found = [episodes |-> E, facts |-> F, runbooks |-> R],
                     !.bundle = Rank(q, E, F, R)]
  BY DEF Read
<1>2. q \in Queries /\ tables \in Tables /\ ReaderShape
  BY DEF Read, ReaderInv
<1>3. /\ reader'.pc = "done" /\ reader'.query = q /\ reader'.bundle = Rank(q, E, F, R)
      /\ reader'.found = [episodes |-> E, facts |-> F, runbooks |-> R]
  BY <1>1, <1>2 DEF ReaderShape
<1> DEFINE limit == AtMost(q.k, Policy.max_episodes)
<1>4. limit \in Nat /\ Policy.max_facts \in Nat /\ Policy.max_runbooks \in Nat
  BY <1>2, RecallAssumption DEF AtMost
<1>5. /\ IsDiverseChoice(Diverse(ScoredEpisodes(q, E), limit), ScoredEpisodes(q, E), limit)
      /\ IsDiverseChoice(Diverse(ScoredFacts(q, F), Policy.max_facts),
                         ScoredFacts(q, F), Policy.max_facts)
      /\ IsDiverseChoice(Diverse(ScoredRunbooks(q, R), Policy.max_runbooks),
                         ScoredRunbooks(q, R), Policy.max_runbooks)
  <2> HIDE DEF q, limit
  <2>1. /\ Orderable(ScoredEpisodes(q, E)) /\ Orderable(ScoredFacts(q, F))
        /\ Orderable(ScoredRunbooks(q, R))
    BY <1>2, EpisodesOrderable, FactsOrderable, RunbooksOrderable
  <2> QED BY <1>4, <2>1, DiverseChooses
<1>6. ~q.cold_start =>
        /\ reader'.bundle.episodes = Diverse(ScoredEpisodes(q, E), limit)
        /\ reader'.bundle.facts = Diverse(ScoredFacts(q, F), Policy.max_facts)
        /\ reader'.bundle.runbooks = Diverse(ScoredRunbooks(q, R), Policy.max_runbooks)
  BY <1>3 DEF Rank
<1>7. /\ reader'.found.episodes = E /\ reader'.found.facts = F /\ reader'.found.runbooks = R
  BY <1>3
<1> HIDE DEF limit
<1> QED BY <1>3, <1>5, <1>6, <1>7 DEF RankMatchesReference, Answered, limit

\* For every table, policy and query the greedy scan shows the agent, best
\* first, exactly the best candidates of the best cases of each kind.
THEOREM RankingIsDiverse == RecallSpec => []RankMatchesReference
<1>1. RecallInit => RankMatchesReference
  BY DEF RecallInit, RankMatchesReference, Answered
<1>2. FactsInv /\ ReaderInv /\ RankMatchesReference /\ [RecallNext]_recallVars
        => RankMatchesReference'
  <2> SUFFICES ASSUME FactsInv, ReaderInv, RankMatchesReference, [RecallNext]_recallVars
               PROVE  RankMatchesReference'
    OBVIOUS
  <2>1. CASE UNCHANGED reader
    BY <2>1 DEF RankMatchesReference, Answered
  <2>2. CASE Ask \/ ReadAgain \/ ReadError
    <3>1. ~Answered'
      BY <2>2 DEF ReaderInv, ReaderShape, Answered, Ask, ReadAgain, ReadError, Raise
    <3> QED BY <3>1 DEF RankMatchesReference
  <2>3. CASE Read
    BY <2>3, ReadRanks
  <2> QED BY <2>1, <2>2, <2>3 DEF RecallNext, recallVars
<1> QED BY <1>1, <1>2, ForwardInvariant, ReaderInvariant, PTL DEF RecallSpec
=============================================================================
