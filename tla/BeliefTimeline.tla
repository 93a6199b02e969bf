--------------------------- MODULE BeliefTimeline ---------------------------
(***************************************************************************)
(* What the bitemporal memory promises, without transactions or rows: for  *)
(* every subject and predicate there is one belief per instant.  A         *)
(* transition replaces the belief from an instant on and leaves every      *)
(* earlier instant alone; it never erases a belief altogether.             *)
(***************************************************************************)
EXTENDS Naturals

CONSTANTS
  Key,    \* (subject, predicate) pairs
  Fact,   \* fact ids
  Time,   \* the instants of valid time
  Null    \* no belief

VARIABLES
  belief,   \* belief[k][x]: the fact believed of k for instant x
  current   \* current[k]: the fact believed of k from now on

timeline == <<belief, current>>

Init ==
  /\ belief = [k \in Key |-> [x \in Time |-> Null]]
  /\ current = [k \in Key |-> Null]

\* The fact is new, and the belief it replaces keeps at least one instant.
Transition(k, f, t) ==
  /\ current' = [current EXCEPT ![k] = f]
  /\ \A j \in Key : current[j] # f /\ \A x \in Time : belief[j][x] # f
  /\ current[k] # Null => \E x \in Time : x < t /\ belief[k][x] = current[k]
  /\ belief' = [belief EXCEPT ![k] = [x \in Time |-> IF x >= t THEN f ELSE belief[k][x]]]

Next == \E k \in Key, f \in Fact, t \in Time : Transition(k, f, t)

Spec == Init /\ [][Next]_timeline
=============================================================================
