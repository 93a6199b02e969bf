------------------------ MODULE SemanticFactsProofs ------------------------
(***************************************************************************)
(* The bitemporal facts, for any number of calls, agents, keys and         *)
(* instants.  Neither WindowsDisjoint nor BeliefChain is inductive: that a *)
(* commit keeps them depends on what the transaction saw when it closed    *)
(* the old row still being so, that is on its lock and on the unique       *)
(* index, which the invariant InFlight states.                             *)
(***************************************************************************)
EXTENDS SemanticFacts, FiniteSetTheorems, TLAPS

Active(w) == call[w].pc \in {"insert", "link", "commit"}
Inserted(w) == call[w].pc \in {"link", "commit"}

\* The open rows, whatever their key.
OpenRows == {f \in Recorded : facts[f].valid_to = Null}

\* What the calls in flight hold.  A call that is not over has recorded no
\* fact; the row it will close is open, locked by it alone, and began before
\* the transition; once its insert has passed the unique index, no other open
\* row has its key and no other insert of that key is pending.
InFlight ==
  /\ \A w \in Writer :
       /\ call[w].pc \notin {"done", "failed"} => facts[w] = Null
       /\ call[w].pc \in {"close", "insert", "link", "commit"} =>
            call[w].key \in Key /\ call[w].agent \in Agent
       /\ Active(w) /\ call[w].old # Null =>
            /\ call[w].old \in OpenRows
            /\ facts[call[w].old].key = call[w].key
            /\ facts[call[w].old].valid_from < call[w].at
       /\ Inserted(w) =>
            \A f \in OpenRows : facts[f].key = call[w].key => f = call[w].old
  /\ \A v, w \in Writer : v # w =>
       /\ Active(v) /\ Active(w) /\ call[v].old # Null => call[v].old # call[w].old
       /\ Inserted(v) /\ Inserted(w) => call[v].key # call[w].key

\* A key that was ever asserted has exactly one open row.
OneOpen ==
  /\ \A f \in Recorded : \E g \in OpenRows : facts[g].key = facts[f].key
  /\ \A f, g \in OpenRows : facts[f].key = facts[g].key => f = g

\* A closed row names its successor and ends where that begins.
Linked ==
  \A f \in Recorded : facts[f].valid_to # Null =>
    /\ facts[f].superseded_by \in Recorded
    /\ facts[facts[f].superseded_by].key = facts[f].key
    /\ facts[facts[f].superseded_by].valid_from = facts[f].valid_to

\* Rows begin at instants that callers chose.
Instants ==
  /\ \A f \in Recorded : facts[f].valid_from \in Time
  /\ \A w \in Writer : call[w].pc \in {"close", "insert", "link", "commit"} => call[w].at \in Time

FactsInv == TypeOK /\ InFlight /\ OneOpen /\ Linked /\ WindowsDisjoint


LEMMA InitFacts == Init => FactsInv
  BY FactsAssumption
  DEF Init, FactsInv, TypeOK, InFlight, OneOpen, Linked, WindowsDisjoint,
      Locals, TransitionCall, Recorded, OpenRows, Active, Inserted

----------------------------------------------------------------------------
(* Steps that leave the table alone.                                       *)

\* A step that touches one call only keeps the type if the new state of the
\* call has its type.
LEMMA OneCall ==
  ASSUME TypeOK, NEW w \in Writer, NEW c \in TransitionCall,
         call' = [call EXCEPT ![w] = c], UNCHANGED <<clock, facts>>
  PROVE  /\ TypeOK'
         /\ call'[w] = c
         /\ \A v \in Writer : v # w => call'[v] = call[v]
  BY DEF TypeOK

\* Calls that end or start again hold nothing.
LEMMA RestartFacts ==
  ASSUME FactsInv, NEW w \in Writer, NEW c \in TransitionCall,
         call' = [call EXCEPT ![w] = c], UNCHANGED <<clock, facts>>,
         c.pc \in {"close", "done", "failed"},
         c.pc = "close" => c.key \in Key /\ c.agent \in Agent /\ facts[w] = Null
  PROVE  FactsInv'
<1>1. /\ TypeOK' /\ call'[w] = c
      /\ \A v \in Writer : v # w => call'[v] = call[v]
  BY OneCall DEF FactsInv
<1>2. InFlight'
  BY <1>1 DEF FactsInv, InFlight, Active, Inserted, OpenRows, Recorded
<1> QED BY <1>1, <1>2 DEF FactsInv, OneOpen, Linked, WindowsDisjoint, OpenRows, Recorded

LEMMA LocalsType ==
  ASSUME NEW pc \in {"idle", "done", "failed"}
  PROVE  Locals(pc) \in TransitionCall /\ Locals(pc).pc = pc
  BY FactsAssumption DEF Locals, TransitionCall

LEMMA AgainFacts ==
  ASSUME FactsInv, NEW w \in Writer, Again(w), UNCHANGED <<clock, facts>>,
         call[w].pc \in {"close", "insert", "link", "commit"}
  PROVE  FactsInv'
<1>0. call[w] \in TransitionCall /\ clock \in Nat
  BY DEF FactsInv, TypeOK
<1>1. CASE call[w].attempt < MaxRetries
  <2> DEFINE c == [call[w] EXCEPT !.pc = "close", !.attempt = @ + 1,
                                  !.began = clock, !.old = Null]
  <2>1. call' = [call EXCEPT ![w] = c]
    BY <1>1 DEF Again
  <2>2. /\ c \in TransitionCall /\ c.pc = "close"
        /\ c.key = call[w].key /\ c.agent = call[w].agent
    <3>1. call[w].attempt + 1 \in 0..MaxRetries
      BY <1>0, <1>1, FactsAssumption DEF TransitionCall
    <3> QED BY <1>0, <3>1 DEF TransitionCall
  <2>3. call[w].key \in Key /\ call[w].agent \in Agent /\ facts[w] = Null
    BY DEF FactsInv, InFlight
  <2> HIDE DEF c
  <2> QED BY <2>1, <2>2, <2>3, RestartFacts
<1>2. CASE ~(call[w].attempt < MaxRetries)
  BY <1>2, LocalsType, RestartFacts DEF Again, Fail, End
<1> QED BY <1>1, <1>2

LEMMA RequestFacts ==
  ASSUME FactsInv, NEW w \in Writer, Request(w)
  PROVE  FactsInv'
<1>1. PICK a \in Agent, k \in Key, t \in Time :
        call' = [call EXCEPT ![w] = [call[w] EXCEPT !.pc = "close", !.agent = a,
                                       !.key = k, !.at = t, !.began = clock]]
  BY DEF Request
<1> DEFINE c == [call[w] EXCEPT !.pc = "close", !.agent = a, !.key = k,
                                !.at = t, !.began = clock]
<1>2. /\ c \in TransitionCall /\ c.pc = "close" /\ c.key = k /\ c.agent = a
  BY FactsAssumption DEF FactsInv, TypeOK, TransitionCall
<1>3. facts[w] = Null
  BY DEF Request, FactsInv, InFlight
<1> HIDE DEF c
<1>4. call' = [call EXCEPT ![w] = c] /\ UNCHANGED <<clock, facts>>
  BY <1>1 DEF c, Request
<1> QED BY <1>2, <1>3, <1>4, RestartFacts

LEMMA CloseFacts ==
  ASSUME FactsInv, NEW w \in Writer, Close(w)
  PROVE  FactsInv'
<1> DEFINE k == call[w].key
<1>1. PICK f \in IF Open(k) = {} THEN {Null} ELSE Open(k) :
        call' = [call EXCEPT ![w].pc = "insert", ![w].old = f]
  BY DEF Close
<1> DEFINE c == [call[w] EXCEPT !.pc = "insert", !.old = f]
<1>2. call \in [Writer -> TransitionCall] /\ call[w] \in TransitionCall
  BY DEF FactsInv, TypeOK
<1>3. f \in Writer \cup {Null}
  BY DEF Open, Recorded
<1>4. /\ c \in TransitionCall /\ c.pc = "insert" /\ c.old = f
      /\ c.key = k /\ c.agent = call[w].agent /\ c.at = call[w].at
  BY <1>2, <1>3 DEF TransitionCall
<1>5. call' = [call EXCEPT ![w] = c] /\ UNCHANGED <<clock, facts>>
  BY <1>1, <1>2 DEF Close
<1> HIDE DEF c
<1>6. /\ TypeOK' /\ call'[w] = c
      /\ \A v \in Writer : v # w => call'[v] = call[v]
  BY <1>4, <1>5, OneCall DEF FactsInv
<1>7. f # Null => /\ f \in Open(k) /\ facts[f].valid_from < call[w].at
                  /\ \A v \in Writer \ {w} : Active(v) => call[v].old # f
  <2> SUFFICES ASSUME f # Null
               PROVE  /\ f \in Open(k) /\ facts[f].valid_from < call[w].at
                      /\ \A v \in Writer \ {w} : Active(v) => call[v].old # f
    OBVIOUS
  <2>1. f \in Open(k)
    OBVIOUS
  <2>2. ~Locked(w, f) /\ call[w].at > facts[f].valid_from
    BY <2>1 DEF Close
  <2>3. call[w].at \in Nat /\ facts[f].valid_from \in Nat
    BY <1>2, <2>1 DEF TransitionCall, Open, Recorded, FactsInv, TypeOK, Row
  <2> QED BY <2>1, <2>2, <2>3 DEF Locked, Active
<1>8. /\ facts' = facts /\ facts[w] = Null
      /\ call[w].key \in Key /\ call[w].agent \in Agent
      /\ OpenRows' = OpenRows
  BY <1>5 DEF Close, FactsInv, InFlight, OpenRows, Recorded
<1>10. f # Null => f \in OpenRows /\ facts[f].key = k
  BY <1>7 DEF Open, OpenRows
<1>9. InFlight'
  <2>1. ASSUME NEW v \in Writer, v # w
        PROVE  /\ call'[v] = call[v]
               /\ Active(v)' <=> Active(v)
               /\ Inserted(v)' <=> Inserted(v)
    BY <1>6, <2>1 DEF Active, Inserted
  <2>2. Active(w)' /\ ~Inserted(w)'
    BY <1>4, <1>6 DEF Active, Inserted
  <2> QED BY <1>4, <1>6, <1>7, <1>8, <1>10, <2>1, <2>2 DEF FactsInv, InFlight
<1> QED BY <1>5, <1>6, <1>9
        DEF FactsInv, OneOpen, Linked, WindowsDisjoint, OpenRows, Recorded

\* Insert and Link: the call moves on with what it holds.
LEMMA AdvanceFacts ==
  ASSUME FactsInv, NEW w \in Writer, Insert(w) \/ Link(w)
  PROVE  FactsInv'
<1> DEFINE to == IF call[w].pc = "insert" /\ call[w].old # Null THEN "link" ELSE "commit"
           c == [call[w] EXCEPT !.pc = to]
<1>1. call[w] \in TransitionCall /\ call \in [Writer -> TransitionCall]
  BY DEF FactsInv, TypeOK
<1>2. /\ call' = [call EXCEPT ![w] = c] /\ UNCHANGED <<clock, facts>>
      /\ call[w].pc \in {"insert", "link"}
  BY <1>1 DEF Insert, Link, Goto
<1>3. /\ c \in TransitionCall /\ c.pc \in {"link", "commit"} /\ c.old = call[w].old
      /\ c.key = call[w].key /\ c.agent = call[w].agent /\ c.at = call[w].at
  BY <1>1 DEF TransitionCall
<1> HIDE DEF c
<1>4. /\ TypeOK' /\ call'[w] = c
      /\ \A v \in Writer : v # w => call'[v] = call[v]
  BY <1>2, <1>3, OneCall DEF FactsInv
<1>5. /\ \A f \in OpenRows : facts[f].key = call[w].key => f = call[w].old
      /\ \A v \in Writer \ {w} : Inserted(v) => call[v].key # call[w].key
  <2>1. CASE call[w].pc = "insert"
    BY <2>1 DEF Insert, Link, Goto, Collides, InsertPending, Inserted, Open, OpenRows
  <2>2. CASE call[w].pc = "link"
    BY <2>2 DEF FactsInv, InFlight, Inserted
  <2> QED BY <1>2, <2>1, <2>2
<1>6. InFlight'
  BY <1>2, <1>3, <1>4, <1>5 DEF FactsInv, InFlight, Active, Inserted, OpenRows, Recorded
<1> QED BY <1>2, <1>4, <1>6
        DEF FactsInv, OneOpen, Linked, WindowsDisjoint, OpenRows, Recorded

----------------------------------------------------------------------------
(* The commit.                                                             *)

\* The table after the commit of w: its fact is the only open row of its key,
\* the row it replaces ends where it begins, every other row is as it was.
LEMMA AppliedRows ==
  ASSUME FactsInv, NEW w \in Writer, call[w].pc = "commit", facts' = Applied(w)
  PROVE  /\ facts[w] = Null /\ w # call[w].old
         /\ call[w].key \in Key /\ call[w].agent \in Agent
         /\ call[w].at \in Nat /\ call[w].began \in Nat
         /\ facts'[w] = [key |-> call[w].key, agent |-> call[w].agent,
                         valid_from |-> call[w].at, valid_to |-> Null,
                         recorded_at |-> call[w].began, superseded_by |-> Null]
         /\ call[w].old # Null =>
              /\ call[w].old \in Recorded /\ facts[call[w].old] \in Row
              /\ facts[call[w].old].key = call[w].key
              /\ facts[call[w].old].valid_to = Null
              /\ facts[call[w].old].valid_from < call[w].at
              /\ facts'[call[w].old] = [facts[call[w].old] EXCEPT
                                         !.valid_to = call[w].at, !.superseded_by = w]
         /\ \A f \in Writer \ {w, call[w].old} : facts'[f] = facts[f]
<1>1. /\ facts[w] = Null /\ call[w].key \in Key /\ call[w].agent \in Agent
      /\ call[w] \in TransitionCall /\ facts \in [Writer -> Row \cup {Null}]
  BY DEF FactsInv, InFlight, TypeOK
<1>2. call[w].at \in Nat /\ call[w].began \in Nat /\ call[w].old \in Writer \cup {Null}
  BY <1>1 DEF TransitionCall
<1>3. call[w].old # Null =>
        /\ call[w].old \in OpenRows /\ facts[call[w].old].key = call[w].key
        /\ facts[call[w].old].valid_from < call[w].at
  BY DEF FactsInv, InFlight, Active
<1>4. call[w].old # Null =>
        /\ call[w].old \in Recorded /\ facts[call[w].old] \in Row
        /\ facts[call[w].old].valid_to = Null
  BY <1>1, <1>3 DEF OpenRows, Recorded
<1>5. w # call[w].old
  BY <1>1, <1>4, FactsAssumption DEF Recorded
<1>6. facts'[w] = [key |-> call[w].key, agent |-> call[w].agent,
                  valid_from |-> call[w].at, valid_to |-> Null,
                  recorded_at |-> call[w].began, superseded_by |-> Null]
  BY DEF Applied
<1>7. call[w].old # Null =>
        facts'[call[w].old] = [facts[call[w].old] EXCEPT !.valid_to = call[w].at,
                                                         !.superseded_by = w]
  BY <1>2, <1>5 DEF Applied
<1>8. \A f \in Writer \ {w, call[w].old} : facts'[f] = facts[f]
  BY DEF Applied
<1> QED BY <1>1, <1>2, <1>3, <1>4, <1>5, <1>6, <1>7, <1>8

\* The same, as far as the invariants look at the rows.
AppliedField(w, f) ==
  /\ facts'[f].key = facts[f].key
  /\ facts'[f].agent = facts[f].agent
  /\ facts'[f].recorded_at = facts[f].recorded_at
  /\ facts'[f].valid_from = facts[f].valid_from
  /\ facts'[f].valid_to = IF f = call[w].old THEN call[w].at ELSE facts[f].valid_to
  /\ facts'[f].superseded_by = IF f = call[w].old THEN w ELSE facts[f].superseded_by

LEMMA AppliedSets ==
  ASSUME FactsInv, NEW w \in Writer, call[w].pc = "commit", facts' = Applied(w)
  PROVE  /\ facts' \in [Writer -> Row \cup {Null}]
         /\ Recorded' = Recorded \cup {w} /\ w \notin Recorded
         /\ \A f \in Recorded : AppliedField(w, f)
         /\ facts'[w].key = call[w].key /\ facts'[w].valid_to = Null
         /\ facts'[w].valid_from = call[w].at
         /\ facts'[w].agent = call[w].agent
         /\ OpenRows' = (OpenRows \ {call[w].old}) \cup {w}
<1> DEFINE old == call[w].old
           row == [key |-> call[w].key, agent |-> call[w].agent,
                   valid_from |-> call[w].at, valid_to |-> Null,
                   recorded_at |-> call[w].began, superseded_by |-> Null]
           closed == [facts[old] EXCEPT !.valid_to = call[w].at, !.superseded_by = w]
<1>1. facts \in [Writer -> Row \cup {Null}] /\ DOMAIN facts' = Writer
  BY DEF FactsInv, TypeOK, Applied
<1>2. /\ facts'[w] = row /\ w # old /\ facts[w] = Null
      /\ \A f \in Writer \ {w, old} : facts'[f] = facts[f]
  BY AppliedRows
<1>3. /\ call[w].key \in Key /\ call[w].agent \in Agent
      /\ call[w].at \in Nat /\ call[w].began \in Nat
  BY AppliedRows
<1>4. old # Null => /\ old \in Recorded /\ facts[old] \in Row
                    /\ facts[old].valid_to = Null /\ facts'[old] = closed
  BY AppliedRows
<1>5. /\ row \in Row /\ row.key = call[w].key /\ row.valid_to = Null
      /\ row.valid_from = call[w].at /\ row.agent = call[w].agent
  BY <1>3 DEF Row
<1>6. old # Null =>
        /\ closed \in Row
        /\ closed.key = facts[old].key
        /\ closed.agent = facts[old].agent
        /\ closed.recorded_at = facts[old].recorded_at
        /\ closed.valid_from = facts[old].valid_from
        /\ closed.valid_to = call[w].at
        /\ closed.superseded_by = w
  BY <1>3, <1>4 DEF Row
<1>7. Null \notin Row /\ Null \notin Writer /\ Null \notin Nat
  BY FactsAssumption
<1> HIDE DEF row, closed
<1>8. w \notin Recorded /\ Recorded' = Recorded \cup {w}
  BY <1>1, <1>2, <1>4, <1>5, <1>6, <1>7 DEF Recorded
<1>9. facts' \in [Writer -> Row \cup {Null}]
  <2>1. \A f \in Writer : facts'[f] \in Row \cup {Null}
    BY <1>1, <1>2, <1>4, <1>5, <1>6, <1>7
  <2> QED BY <1>1, <2>1 DEF Applied
<1>10. ASSUME NEW f \in Recorded PROVE AppliedField(w, f)
  <2>1. f \in Writer /\ f # w /\ f # Null
    BY <1>7, <1>8 DEF Recorded
  <2>2. CASE f = old
    BY <1>4, <1>6, <2>1, <2>2 DEF AppliedField
  <2>3. CASE f # old
    BY <1>2, <2>1, <2>3 DEF AppliedField
  <2> QED BY <2>2, <2>3
<1>11. OpenRows' = (OpenRows \ {old}) \cup {w}
  <2>1. \A f \in Recorded : facts'[f].valid_to = IF f = old THEN call[w].at ELSE facts[f].valid_to
    BY <1>10 DEF AppliedField
  <2>2. facts'[w].valid_to = Null /\ call[w].at # Null
    BY <1>2, <1>3, <1>5, <1>7
  <2> QED BY <1>8, <2>1, <2>2 DEF OpenRows
<1> QED BY <1>2, <1>5, <1>8, <1>9, <1>10, <1>11

LEMMA CommitFacts ==
  ASSUME FactsInv, NEW w \in Writer, NEW how \in {"done", "failed"},
         call[w].pc = "commit", facts' = Applied(w), End(w, how), UNCHANGED clock
  PROVE  FactsInv'
<1> DEFINE old == call[w].old
           k == call[w].key
<1>1. /\ facts' \in [Writer -> Row \cup {Null}]
      /\ Recorded' = Recorded \cup {w} /\ w \notin Recorded
      /\ OpenRows' = (OpenRows \ {old}) \cup {w}
      /\ facts'[w].key = k /\ facts'[w].valid_to = Null
      /\ facts'[w].valid_from = call[w].at
  BY AppliedSets
<1>2. \A f \in Recorded : /\ facts'[f].key = facts[f].key
                          /\ facts'[f].valid_from = facts[f].valid_from
                          /\ facts'[f].valid_to = IF f = old THEN call[w].at
                                                  ELSE facts[f].valid_to
                          /\ facts'[f].superseded_by = IF f = old THEN w
                                                       ELSE facts[f].superseded_by
  BY AppliedSets DEF AppliedField
<1>3. /\ facts[w] = Null /\ k \in Key /\ call[w].at \in Nat
      /\ \A f \in Writer \ {w, old} : facts'[f] = facts[f]
  BY AppliedRows
<1>4. old # Null => /\ old \in OpenRows /\ facts[old].key = k
                    /\ facts[old].valid_from < call[w].at
  BY DEF FactsInv, InFlight, Active
<1>5. /\ \A f \in OpenRows : facts[f].key = k => f = old
      /\ \A v \in Writer \ {w} : Inserted(v) => call[v].key # k
      /\ \A v \in Writer \ {w} : Active(v) /\ call[v].old # Null => call[v].old # old
  BY DEF FactsInv, InFlight, Inserted, Active
<1>6. /\ call' \in [Writer -> TransitionCall] /\ call'[w].pc = how
      /\ \A v \in Writer \ {w} : call'[v] = call[v]
  BY LocalsType DEF End, FactsInv, TypeOK
<1>7. /\ \A f \in Recorded : /\ f \in Writer /\ facts[f].key \in Key
                            /\ facts[f].valid_from \in Nat
                            /\ facts[f].valid_to \in Nat \cup {Null}
      /\ \A f \in OpenRows : f \in Recorded /\ facts[f].valid_to = Null
      /\ Null \notin Recorded /\ Null \notin Nat
  BY FactsAssumption DEF FactsInv, TypeOK, Recorded, OpenRows, Row
<1> HIDE DEF old, k
<1>8. TypeOK'
  BY <1>1, <1>6 DEF FactsInv, TypeOK
<1>9. OneOpen'
  <2>1. /\ \A f \in Recorded : \E g \in OpenRows : facts[g].key = facts[f].key
        /\ \A f, g \in OpenRows : facts[f].key = facts[g].key => f = g
    BY DEF FactsInv, OneOpen
  <2>2. \A f \in OpenRows \ {old} : facts[f].key # k
    BY <1>5
  <2>3. ASSUME NEW f \in Recorded' PROVE \E g \in OpenRows' : facts'[g].key = facts'[f].key
    <3>1. CASE facts'[f].key = k
      BY <1>1, <3>1
    <3>2. CASE facts'[f].key # k
      <4>1. f \in Recorded /\ facts[f].key = facts'[f].key
        BY <1>1, <1>2, <3>2
      <4>2. PICK g \in OpenRows : facts[g].key = facts[f].key
        BY <2>1, <4>1
      <4>3. g # old
        BY <1>4, <1>7, <3>2, <4>1, <4>2
      <4> QED BY <1>1, <1>2, <1>7, <4>1, <4>2, <4>3
    <3> QED BY <3>1, <3>2
  <2>4. ASSUME NEW f \in OpenRows', NEW g \in OpenRows', facts'[f].key = facts'[g].key
        PROVE  f = g
    <3>1. \A h \in OpenRows \ {old} : facts'[h].key = facts[h].key /\ facts[h].key # k
      BY <1>2, <1>7, <2>2
    <3> QED BY <1>1, <2>1, <2>4, <3>1
  <2> QED BY <2>3, <2>4 DEF OneOpen
<1>10. Linked'
  <2> SUFFICES ASSUME NEW f \in Recorded', facts'[f].valid_to # Null
               PROVE  /\ facts'[f].superseded_by \in Recorded'
                      /\ facts'[facts'[f].superseded_by].key = facts'[f].key
                      /\ facts'[facts'[f].superseded_by].valid_from = facts'[f].valid_to
    BY DEF Linked
  <2>1. f \in Recorded
    BY <1>1
  <2>2. CASE f = old
    <3>1. facts'[f].superseded_by = w /\ facts'[f].valid_to = call[w].at /\ facts'[f].key = k
      BY <1>2, <1>4, <1>7, <2>1, <2>2
    <3> QED BY <1>1, <3>1
  <2>3. CASE f # old
    <3>1. facts'[f].superseded_by = facts[f].superseded_by /\ facts'[f].valid_to = facts[f].valid_to
      BY <1>2, <2>1, <2>3
    <3>2. /\ facts[f].superseded_by \in Recorded
          /\ facts[facts[f].superseded_by].key = facts[f].key
          /\ facts[facts[f].superseded_by].valid_from = facts[f].valid_to
      BY <2>1, <3>1 DEF FactsInv, Linked
    <3> QED BY <1>1, <1>2, <2>1, <3>1, <3>2
  <2> QED BY <2>2, <2>3
<1>11. WindowsDisjoint'
  <2>1. ASSUME NEW f \in Recorded, facts[f].key = k
        PROVE  facts'[f].valid_to # Null /\ facts'[f].valid_to <= call[w].at
    <3>1. old \in OpenRows /\ old # Null
      <4>1. PICK g \in OpenRows : facts[g].key = k
        BY <2>1 DEF FactsInv, OneOpen
      <4>2. g = old
        BY <1>5, <4>1
      <4> QED BY <1>7, <4>1, <4>2
    <3>2. CASE f = old
      <4>1. facts'[f].valid_to = call[w].at
        BY <1>2, <3>2
      <4> QED BY <1>3, <1>7, <4>1
    <3>3. CASE f # old
      <4>1. old \in Recorded /\ facts[old].key = k /\ facts[old].valid_to = Null
        BY <1>4, <1>7, <3>1
      <4>2. facts[f].valid_to # Null /\ facts[f].valid_to <= facts[old].valid_from
        BY <2>1, <3>3, <4>1 DEF FactsInv, WindowsDisjoint
      <4>3. /\ facts[f].valid_to \in Nat /\ facts[old].valid_from \in Nat
            /\ facts[old].valid_from < call[w].at
        BY <1>4, <1>7, <3>1, <4>1, <4>2
      <4>4. facts'[f].valid_to = facts[f].valid_to
        BY <1>2, <3>3
      <4> QED BY <1>3, <4>2, <4>3, <4>4
    <3> QED BY <3>2, <3>3
  <2>2. ASSUME NEW f \in Recorded, NEW g \in Recorded, f # g, facts[f].key = facts[g].key
        PROVE  \/ facts'[f].valid_to # Null /\ facts'[f].valid_to <= facts'[g].valid_from
               \/ facts'[g].valid_to # Null /\ facts'[g].valid_to <= facts'[f].valid_from
    <3>1. \/ facts[f].valid_to # Null /\ facts[f].valid_to <= facts[g].valid_from
          \/ facts[g].valid_to # Null /\ facts[g].valid_to <= facts[f].valid_from
      BY <2>2 DEF FactsInv, WindowsDisjoint
    <3>2. \A h \in Recorded : facts[h].valid_to # Null => facts'[h].valid_to = facts[h].valid_to
      BY <1>2, <1>4, <1>7
    <3> QED BY <1>2, <3>1, <3>2
  <2>3. \A f \in Recorded' : f = w \/ f \in Recorded
    BY <1>1
  <2>4. ASSUME NEW f \in Recorded', NEW g \in Recorded', f # g, facts'[f].key = facts'[g].key
        PROVE  \/ facts'[f].valid_to # Null /\ facts'[f].valid_to <= facts'[g].valid_from
               \/ facts'[g].valid_to # Null /\ facts'[g].valid_to <= facts'[f].valid_from
    <3>1. CASE f = w
      BY <1>1, <1>2, <2>1, <2>3, <2>4, <3>1
    <3>2. CASE g = w
      BY <1>1, <1>2, <2>1, <2>3, <2>4, <3>2
    <3>3. CASE f # w /\ g # w
      BY <1>2, <2>2, <2>3, <2>4, <3>3
    <3> QED BY <3>1, <3>2, <3>3
  <2> QED BY <2>4 DEF WindowsDisjoint
<1>12. InFlight'
  <2>1. ASSUME NEW v \in Writer, v # w
        PROVE  /\ call'[v] = call[v]
               /\ Active(v)' <=> Active(v)
               /\ Inserted(v)' <=> Inserted(v)
               /\ facts[v] = Null => facts'[v] = Null
    <3>1. facts[v] = Null => v # old
      BY <1>4, <1>7, FactsAssumption DEF Recorded
    <3> QED BY <1>3, <1>6, <2>1, <3>1 DEF Active, Inserted
  <2>2. /\ ~Active(w)' /\ ~Inserted(w)' /\ call'[w].pc \in {"done", "failed"}
    BY <1>6 DEF Active, Inserted
  <2>3. ASSUME NEW v \in Writer, v # w, Active(v), call[v].old # Null
        PROVE  /\ call[v].old \in OpenRows'
               /\ facts'[call[v].old].key = call[v].key
               /\ facts'[call[v].old].valid_from < call[v].at
    <3>1. /\ call[v].old \in OpenRows /\ facts[call[v].old].key = call[v].key
          /\ facts[call[v].old].valid_from < call[v].at
      BY <2>3 DEF FactsInv, InFlight
    <3>2. call[v].old # old
      BY <1>5, <2>3
    <3> QED BY <1>1, <1>2, <1>7, <3>1, <3>2
  <2>4. ASSUME NEW v \in Writer, v # w, Inserted(v), NEW f \in OpenRows',
               facts'[f].key = call[v].key
        PROVE  f = call[v].old
    <3>1. call[v].key # k /\ \A g \in OpenRows : facts[g].key = call[v].key => g = call[v].old
      BY <1>5, <2>4 DEF FactsInv, InFlight
    <3> QED BY <1>1, <1>2, <1>7, <2>4, <3>1
  <2>5. ASSUME NEW v \in Writer
        PROVE  /\ call'[v].pc \notin {"done", "failed"} => facts'[v] = Null
               /\ call'[v].pc \in {"close", "insert", "link", "commit"} =>
                    call'[v].key \in Key /\ call'[v].agent \in Agent
    BY <2>1, <2>2 DEF FactsInv, InFlight
  <2>6. ASSUME NEW u \in Writer, NEW v \in Writer, u # v
        PROVE  /\ Active(u)' /\ Active(v)' /\ call'[u].old # Null => call'[u].old # call'[v].old
               /\ Inserted(u)' /\ Inserted(v)' => call'[u].key # call'[v].key
    BY <2>1, <2>2, <2>6 DEF FactsInv, InFlight
  <2> QED BY <2>1, <2>2, <2>3, <2>4, <2>5, <2>6 DEF InFlight
<1> QED BY <1>8, <1>9, <1>10, <1>11, <1>12 DEF FactsInv

LEMMA NextFacts == FactsInv /\ [Next]_vars => FactsInv'
<1> SUFFICES ASSUME FactsInv, [Next]_vars PROVE FactsInv'
  OBVIOUS
<1>1. CASE UNCHANGED vars
  BY <1>1 DEF vars, FactsInv, TypeOK, InFlight, OneOpen, Linked, WindowsDisjoint,
              OpenRows, Recorded, Active, Inserted
<1>2. CASE Tick
  BY <1>2 DEF Tick, FactsInv, TypeOK, InFlight, OneOpen, Linked, WindowsDisjoint,
              OpenRows, Recorded, Active, Inserted
<1>3. ASSUME NEW w \in Writer, TransitionFact(w) PROVE FactsInv'
  <2>1. CASE Request(w)
    BY <2>1, RequestFacts
  <2>2. CASE Close(w)
    BY <2>2, CloseFacts
  <2>3. CASE CloseRejected(w) \/ DatabaseError(w)
    BY <2>3, LocalsType, RestartFacts DEF CloseRejected, DatabaseError, Fail, End
  <2>4. CASE Insert(w) \/ Link(w)
    BY <2>4, AdvanceFacts
  <2>5. CASE InsertCollides(w) \/ SerializationFailure(w)
    BY <2>5, AgainFacts DEF InsertCollides, SerializationFailure
  <2>6. CASE Commit(w) \/ CommitUnacknowledged(w)
    BY <2>6, CommitFacts DEF Commit, CommitUnacknowledged, Fail
  <2> QED BY <1>3, <2>1, <2>2, <2>3, <2>4, <2>5, <2>6 DEF TransitionFact
<1> QED BY <1>1, <1>2, <1>3 DEF Next

\* The invariant of every reachable state.
LEMMA FactsInvariant == Spec => []FactsInv
  BY InitFacts, NextFacts, PTL DEF Spec

\* Type correctness of the clock, the table and the calls of transition_fact.
THEOREM FactsTypeCorrect == Spec => []TypeOK
<1>1. FactsInv => TypeOK
  BY DEF FactsInv
<1> QED BY <1>1, FactsInvariant, PTL

\* Whatever transitions race, are retried or lose their acknowledgement, the
\* validity windows of one key never overlap.
THEOREM WindowsNeverOverlap == Spec => []WindowsDisjoint
<1>1. FactsInv => WindowsDisjoint
  BY DEF FactsInv
<1> QED BY <1>1, FactsInvariant, PTL

\* The rows of a key form one chain with exactly one open end.
THEOREM BeliefsFormChains == Spec => []BeliefChain
<1>1. FactsInv => BeliefChain
  <2> SUFFICES ASSUME FactsInv PROVE BeliefChain
    OBVIOUS
  <2>1. ASSUME NEW f \in Recorded
        PROVE  Cardinality(Open(facts[f].key)) = 1
    <3>1. facts[f].key \in Key
      BY DEF FactsInv, TypeOK, Recorded, Row
    <3>2. PICK g \in OpenRows : facts[g].key = facts[f].key
      BY DEF FactsInv, OneOpen
    <3>3. Open(facts[f].key) = {g}
      BY <3>2 DEF FactsInv, OneOpen, Open, OpenRows
    <3> QED BY <3>3, FS_Singleton
  <2> QED BY <2>1 DEF BeliefChain, FactsInv, Linked
<1> QED BY <1>1, FactsInvariant, PTL

----------------------------------------------------------------------------
(* The refinement.                                                         *)

LEMMA InitInstants == Init => Instants
  BY DEF Init, Instants, Locals, Recorded

LEMMA NextInstants == FactsInv /\ Instants /\ [Next]_vars => Instants'
<1> SUFFICES ASSUME FactsInv, Instants, [Next]_vars PROVE Instants'
  OBVIOUS
<1>1. CASE UNCHANGED vars \/ Tick
  BY <1>1 DEF vars, Tick, Instants, Recorded
<1>2. ASSUME NEW w \in Writer, TransitionFact(w) PROVE Instants'
  <2>1. CASE Commit(w) \/ CommitUnacknowledged(w)
    <3>1. PICK how \in {"done", "failed"} :
            call[w].pc = "commit" /\ facts' = Applied(w) /\ End(w, how)
      BY <2>1 DEF Commit, CommitUnacknowledged, Fail
    <3>2. /\ call' \in [Writer -> TransitionCall] /\ call'[w].pc = how
          /\ \A v \in Writer \ {w} : call'[v] = call[v]
      BY <3>1, LocalsType DEF End, FactsInv, TypeOK
    <3>3. /\ Recorded' = Recorded \cup {w}
          /\ \A f \in Recorded : facts'[f].valid_from = facts[f].valid_from
          /\ facts'[w].valid_from = call[w].at
      BY <3>1, AppliedSets DEF AppliedField
    <3> QED BY <3>1, <3>2, <3>3 DEF Instants
  <2>2. CASE ~(Commit(w) \/ CommitUnacknowledged(w))
    <3>1. UNCHANGED facts /\ Recorded' = Recorded
      BY <1>2, <2>2 DEF TransitionFact, Request, Close, CloseRejected, Insert,
           InsertCollides, Link, SerializationFailure, DatabaseError, Recorded
    <3>2. \A v \in Writer \ {w} : call'[v] = call[v]
      BY <1>2, <2>2 DEF TransitionFact, Request, Close, CloseRejected, Insert,
           InsertCollides, Link, SerializationFailure, DatabaseError, Goto, Again,
           Fail, End, FactsInv, TypeOK
    <3>3. call \in [Writer -> TransitionCall] /\ call[w] \in TransitionCall
      BY DEF FactsInv, TypeOK
    <3>4. \/ call'[w].pc \in {"done", "failed"}
          \/ call'[w].at \in Time
          \/ /\ call'[w].at = call[w].at
             /\ call[w].pc \in {"close", "insert", "link", "commit"}
      <4>1. CASE Request(w)
        <5>1. PICK a \in Agent, k \in Key, t \in Time :
                call' = [call EXCEPT ![w] = [call[w] EXCEPT !.pc = "close", !.agent = a,
                                       !.key = k, !.at = t, !.began = clock]]
          BY <4>1 DEF Request
        <5> QED BY <3>3, <5>1 DEF TransitionCall
      <4>2. CASE CloseRejected(w) \/ DatabaseError(w)
        BY <3>3, <4>2, LocalsType DEF CloseRejected, DatabaseError, Fail, End
      <4>3. CASE Close(w) \/ Insert(w) \/ Link(w)
        BY <3>3, <4>3 DEF Close, Insert, Link, Goto, TransitionCall
      <4>4. CASE InsertCollides(w) \/ SerializationFailure(w)
        <5>1. call[w].pc \in {"close", "insert", "link", "commit"} /\ Again(w)
          BY <4>4 DEF InsertCollides, SerializationFailure
        <5>2. CASE call[w].attempt < MaxRetries
          <6> DEFINE c == [call[w] EXCEPT !.pc = "close", !.attempt = call[w].attempt + 1,
                                          !.began = clock, !.old = Null]
          <6>1. call' = [call EXCEPT ![w] = c]
            BY <5>1, <5>2 DEF Again
          <6>2. c.at = call[w].at
            BY <3>3 DEF TransitionCall
          <6> HIDE DEF c
          <6>3. call'[w] = c
            BY <3>3, <6>1
          <6> QED BY <5>1, <6>2, <6>3
        <5>3. CASE ~(call[w].attempt < MaxRetries)
          BY <3>3, <5>1, <5>3, LocalsType DEF Again, Fail, End
        <5> QED BY <5>2, <5>3
      <4> QED BY <1>2, <2>2, <4>1, <4>2, <4>3, <4>4 DEF TransitionFact
    <3> QED BY <3>1, <3>2, <3>4 DEF Instants
  <2> QED BY <2>1, <2>2
<1> QED BY <1>1, <1>2 DEF Next

\* The mapped state is what the rows say: the belief of a key for an instant
\* is the one row valid then, its current fact the one open row.
Exact ==
  /\ \A k \in Key : \A x \in Time :
       /\ beliefs[k][x] \in Recorded \cup {Null}
       /\ \A f \in Recorded :
            beliefs[k][x] = f <=> facts[f].key = k /\ ValidAt(facts[f], x)
  /\ \A k \in Key :
       /\ openFacts[k] \in Recorded \cup {Null}
       /\ \A f \in Recorded :
            openFacts[k] = f <=> facts[f].key = k /\ facts[f].valid_to = Null

LEMMA MappingIsExact == FactsInv => Exact
<1> SUFFICES ASSUME FactsInv PROVE Exact
  OBVIOUS
<1>0. Null \notin Recorded /\ Null \notin Nat /\ Time \subseteq Nat
  BY FactsAssumption DEF Recorded
<1>1. \A f \in Recorded : facts[f].valid_from \in Nat /\ facts[f].valid_to \in Nat \cup {Null}
  BY DEF FactsInv, TypeOK, Recorded, Row
<1>2. ASSUME NEW k \in Key, NEW x \in Time
      PROVE  /\ beliefs[k][x] \in Recorded \cup {Null}
             /\ \A f \in Recorded :
                  beliefs[k][x] = f <=> facts[f].key = k /\ ValidAt(facts[f], x)
  <2> DEFINE V(f) == facts[f].key = k /\ ValidAt(facts[f], x)
  <2>1. \A f, g \in Recorded : V(f) /\ V(g) => f = g
    <3> SUFFICES ASSUME NEW f \in Recorded, NEW g \in Recorded, V(f), V(g), f # g PROVE FALSE
      OBVIOUS
    <3>1. \/ facts[f].valid_to # Null /\ facts[f].valid_to <= facts[g].valid_from
          \/ facts[g].valid_to # Null /\ facts[g].valid_to <= facts[f].valid_from
      BY DEF FactsInv, WindowsDisjoint
    <3> QED BY <1>0, <1>1, <3>1 DEF ValidAt
  <2>2. beliefs[k][x] = IF \E f \in Recorded : V(f) THEN CHOOSE f \in Recorded : V(f) ELSE Null
    BY DEF beliefs, BeliefAt
  <2> HIDE DEF V
  <2>3. CASE \E f \in Recorded : V(f)
    <3>1. beliefs[k][x] \in Recorded /\ V(beliefs[k][x])
      BY <2>2, <2>3
    <3> QED BY <2>1, <3>1 DEF V
  <2>4. CASE ~\E f \in Recorded : V(f)
    BY <1>0, <2>2, <2>4 DEF V
  <2> QED BY <2>3, <2>4
<1>3. ASSUME NEW k \in Key
      PROVE  /\ openFacts[k] \in Recorded \cup {Null}
             /\ \A f \in Recorded :
                  openFacts[k] = f <=> facts[f].key = k /\ facts[f].valid_to = Null
  <2>1. \A f, g \in Open(k) : f = g
    BY DEF FactsInv, OneOpen, Open, OpenRows
  <2>2. openFacts[k] = IF Open(k) = {} THEN Null ELSE CHOOSE f \in Open(k) : TRUE
    BY DEF openFacts, OpenFact
  <2>3. Open(k) # {} => openFacts[k] \in Open(k)
    BY <2>2
  <2>4. Open(k) \subseteq Recorded
    BY DEF Open
  <2>5. \A f \in Recorded : openFacts[k] = f <=> f \in Open(k)
    BY <1>0, <2>1, <2>2, <2>3
  <2>6. openFacts[k] \in Recorded \cup {Null}
    BY <2>2, <2>3, <2>4
  <2> QED BY <2>5, <2>6 DEF Open
<1> QED BY <1>2, <1>3 DEF Exact

\* A committed transition is a transition of the timeline.
LEMMA CommitTransitions ==
  ASSUME FactsInv, Instants, Exact, Exact', NEW w \in Writer,
         call[w].pc = "commit", facts' = Applied(w)
  PROVE  Timeline!Transition(call[w].key, w, call[w].at)
<1> DEFINE k == call[w].key
           t == call[w].at
           old == call[w].old
<1>1. /\ Recorded' = Recorded \cup {w} /\ w \notin Recorded
      /\ facts'[w].key = k /\ facts'[w].valid_to = Null /\ facts'[w].valid_from = t
  BY AppliedSets
<1>2. \A f \in Recorded : /\ facts'[f].key = facts[f].key
                          /\ facts'[f].valid_from = facts[f].valid_from
                          /\ facts'[f].valid_to = IF f = old THEN t ELSE facts[f].valid_to
  BY AppliedSets DEF AppliedField
<1>3. /\ k \in Key /\ t \in Time /\ t \in Nat /\ Time \subseteq Nat
      /\ Null \notin Recorded /\ Null \notin Nat /\ w # Null
  BY AppliedRows, FactsAssumption DEF Instants, Recorded
<1>4. old # Null => /\ old \in Recorded /\ facts[old].key = k
                    /\ facts[old].valid_to = Null
                    /\ facts[old].valid_from < t /\ facts[old].valid_from \in Time
  BY AppliedRows DEF Instants
<1>5. \A f \in Recorded : facts[f].key = k /\ facts[f].valid_to = Null => f = old
  BY DEF FactsInv, InFlight, Inserted, OpenRows
<1>6. \A f \in Recorded : facts[f].valid_from \in Nat /\ facts[f].valid_to \in Nat \cup {Null}
  BY DEF FactsInv, TypeOK, Recorded, Row
<1> HIDE DEF k, t, old
<1>7. openFacts' = [openFacts EXCEPT ![k] = w]
  <2>1. ASSUME NEW i \in Key PROVE openFacts'[i] = IF i = k THEN w ELSE openFacts[i]
    <3>1. /\ openFacts'[i] \in Recorded \cup {w, Null}
          /\ \A f \in Recorded \cup {w} :
               openFacts'[i] = f <=> facts'[f].key = i /\ facts'[f].valid_to = Null
      BY <1>1 DEF Exact
    <3>2. /\ openFacts[i] \in Recorded \cup {Null}
          /\ \A f \in Recorded :
               openFacts[i] = f <=> facts[f].key = i /\ facts[f].valid_to = Null
      BY DEF Exact
    <3>3. CASE i = k
      BY <1>1, <3>1, <3>3
    <3>4. CASE i # k
      <4>1. \A f \in Recorded : openFacts'[i] = f <=> openFacts[i] = f
        BY <1>2, <1>3, <1>4, <3>1, <3>2, <3>4
      <4>2. openFacts'[i] # w
        BY <1>1, <3>1, <3>4
      <4> QED BY <3>1, <3>2, <3>4, <4>1, <4>2
    <3> QED BY <3>3, <3>4
  <2>2. openFacts = [i \in Key |-> openFacts[i]] /\ openFacts' = [i \in Key |-> openFacts'[i]]
    BY DEF openFacts
  <2> HIDE DEF openFacts
  <2> QED BY <1>3, <2>1, <2>2
<1>8. \A j \in Key : openFacts[j] # w /\ \A x \in Time : beliefs[j][x] # w
  BY <1>1, <1>3 DEF Exact
<1>9. openFacts[k] # Null => \E x \in Time : x < t /\ beliefs[k][x] = openFacts[k]
  <2> SUFFICES ASSUME openFacts[k] # Null
               PROVE  \E x \in Time : x < t /\ beliefs[k][x] = openFacts[k]
    OBVIOUS
  <2>1. openFacts[k] \in Recorded /\ openFacts[k] = old /\ old # Null
    BY <1>3, <1>5 DEF Exact
  <2>2. facts[old].valid_from \in Time /\ facts[old].valid_from < t
    BY <1>4, <2>1
  <2>3. ValidAt(facts[old], facts[old].valid_from)
    <3>1. facts[old].valid_to = Null /\ facts[old].valid_from \in Nat
      BY <1>4, <1>6, <2>1
    <3>2. facts[old].valid_from <= facts[old].valid_from
      BY <3>1
    <3> QED BY <3>1, <3>2 DEF ValidAt
  <2>4. beliefs[k][facts[old].valid_from] = old
    <3>1. ASSUME NEW x \in Time, ValidAt(facts[old], x)
          PROVE  beliefs[k][x] = old
      BY <1>3, <1>4, <2>1, <3>1 DEF Exact
    <3> QED BY <2>2, <2>3, <3>1
  <2> QED BY <2>1, <2>2, <2>4
<1>10. beliefs' = [beliefs EXCEPT ![k] = [x \in Time |-> IF x >= t THEN w ELSE beliefs[k][x]]]
  <2>1. ASSUME NEW i \in Key, NEW x \in Time
        PROVE  beliefs'[i][x] = IF i = k /\ x >= t THEN w ELSE beliefs[i][x]
    <3>1. /\ beliefs'[i][x] \in Recorded \cup {w, Null}
          /\ \A f \in Recorded \cup {w} :
               beliefs'[i][x] = f <=> facts'[f].key = i /\ ValidAt(facts'[f], x)
      BY <1>1 DEF Exact
    <3>2. /\ beliefs[i][x] \in Recorded \cup {Null}
          /\ \A f \in Recorded :
               beliefs[i][x] = f <=> facts[f].key = i /\ ValidAt(facts[f], x)
      BY DEF Exact
    <3>3. CASE i = k /\ x >= t
      BY <1>1, <3>1, <3>3 DEF ValidAt
    <3>4. CASE ~(i = k /\ x >= t)
      <4>1. ~(facts'[w].key = i /\ ValidAt(facts'[w], x))
        BY <1>1, <1>3, <3>4 DEF ValidAt
      <4>2. ASSUME NEW f \in Recorded
            PROVE  (facts'[f].key = i /\ ValidAt(facts'[f], x))
                     <=> (facts[f].key = i /\ ValidAt(facts[f], x))
        <5>1. CASE f # old
          BY <1>2, <5>1 DEF ValidAt
        <5>2. CASE f = old
          <6>1. old # Null
            BY <1>3, <5>2
          <6>2. facts[f].key = k /\ facts[f].valid_to = Null /\ facts'[f].valid_to = t
            BY <1>2, <1>4, <5>2, <6>1
          <6> QED BY <1>2, <1>3, <3>4, <6>2 DEF ValidAt
        <5> QED BY <5>1, <5>2
      <4> QED BY <3>1, <3>2, <3>4, <4>1, <4>2
    <3> QED BY <3>3, <3>4
  <2>2. /\ beliefs = [i \in Key |-> [x \in Time |-> beliefs[i][x]]]
        /\ beliefs' = [i \in Key |-> [x \in Time |-> beliefs'[i][x]]]
    BY DEF beliefs
  <2> HIDE DEF beliefs
  <2>3. \A i \in Key : beliefs'[i] = IF i = k THEN [x \in Time |-> IF x >= t THEN w ELSE beliefs[k][x]]
                                             ELSE beliefs[i]
    BY <2>1, <2>2
  <2> QED BY <1>3, <2>2, <2>3
<1> QED BY <1>7, <1>8, <1>9, <1>10 DEF Timeline!Transition, k, t

LEMMA StepTransitions ==
  FactsInv /\ Instants /\ Exact /\ Exact' /\ [Next]_vars
    => [Timeline!Next]_<<beliefs, openFacts>>
<1> SUFFICES ASSUME FactsInv, Instants, Exact, Exact', [Next]_vars
             PROVE  [Timeline!Next]_<<beliefs, openFacts>>
  OBVIOUS
<1>1. CASE UNCHANGED facts
  BY <1>1 DEF beliefs, openFacts, BeliefAt, OpenFact, Open, Recorded
<1>2. ASSUME NEW w \in Writer, Commit(w) \/ CommitUnacknowledged(w)
      PROVE  Timeline!Next
  <2>1. Timeline!Transition(call[w].key, w, call[w].at)
    BY <1>2, CommitTransitions DEF Commit, CommitUnacknowledged
  <2>2. call[w].key \in Key /\ call[w].at \in Time
    BY <1>2 DEF Commit, CommitUnacknowledged, FactsInv, InFlight, Instants
  <2> QED BY <2>1, <2>2 DEF Timeline!Next
<1>3. \/ UNCHANGED facts
      \/ \E w \in Writer : Commit(w) \/ CommitUnacknowledged(w)
  BY DEF Next, vars, Tick, TransitionFact, Request, Close, CloseRejected, Insert,
         InsertCollides, Link, SerializationFailure, DatabaseError
<1> QED BY <1>1, <1>2, <1>3

\* The table implements the belief timeline: every committed transition, and
\* nothing else, replaces a belief, and only from its own instant on.
THEOREM FactsImplementTimeline == Spec => ImplementsTimeline
<1>1. Init => Timeline!Init
  BY DEF Init, Timeline!Init, beliefs, openFacts, BeliefAt, OpenFact, Open, Recorded
<1>2. Spec => []Instants
  BY InitFacts, NextFacts, InitInstants, NextInstants, PTL DEF Spec
<1> QED BY <1>1, <1>2, FactsInvariant, MappingIsExact, StepTransitions, PTL
        DEF Spec, ImplementsTimeline, Timeline!Spec, Timeline!timeline

\* No transition changes what recall answers for an instant before it.
THEOREM PastIsFixed == Spec => PastAnswersFixed
<1> DEFINE Step ==
      facts' # facts =>
        /\ \A f \in Recorded : facts'[f] # Null
        /\ \A a \in Agent, x \in Time :
             SemanticRows(a, x)' # SemanticRows(a, x) =>
               \E f \in Recorded' \ Recorded : facts'[f].valid_from <= x
<1>1. FactsInv /\ [Next]_vars => Step
  <2> SUFFICES ASSUME FactsInv, [Next]_vars, facts' # facts PROVE Step
    OBVIOUS
  <2>1. PICK w \in Writer : call[w].pc = "commit" /\ facts' = Applied(w)
    BY DEF Next, vars, Tick, TransitionFact, Request, Close, CloseRejected, Insert,
           InsertCollides, Link, SerializationFailure, DatabaseError, Commit,
           CommitUnacknowledged
  <2>2. /\ Recorded' = Recorded \cup {w} /\ w \notin Recorded
        /\ facts'[w].valid_from = call[w].at
    BY <2>1, AppliedSets
  <2>3. \A f \in Recorded :
          /\ facts'[f].agent = facts[f].agent
          /\ facts'[f].recorded_at = facts[f].recorded_at
          /\ facts'[f].valid_from = facts[f].valid_from
          /\ facts'[f].valid_to = IF f = call[w].old THEN call[w].at ELSE facts[f].valid_to
    BY <2>1, AppliedSets DEF AppliedField
  <2>4. \A f \in Recorded : facts'[f] # Null
    BY <2>2 DEF Recorded
  <2>5. ASSUME NEW a \in Agent, NEW x \in Time, ~(call[w].at <= x)
        PROVE  SemanticRows(a, x)' = SemanticRows(a, x)
    <3>1. /\ call[w].at \in Nat /\ x \in Nat /\ Null \notin Nat /\ Null \notin Recorded
          /\ call[w].old # Null => facts[call[w].old].valid_to = Null
      BY <2>1, AppliedRows, FactsAssumption DEF Recorded
    <3>2. ~ValidAt(facts'[w], x)
      BY <2>2, <2>5 DEF ValidAt
    <3>3. \A f \in Recorded : ValidAt(facts'[f], x) <=> ValidAt(facts[f], x)
      BY <2>3, <2>5, <3>1 DEF ValidAt
    <3> QED BY <2>2, <2>3, <3>2, <3>3 DEF SemanticRows
  <2> QED BY <2>2, <2>4, <2>5
<1> QED BY <1>1, FactsInvariant, PTL DEF Spec, PastAnswersFixed
============================================================================
