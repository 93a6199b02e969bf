--------------------------- MODULE SemanticFacts ---------------------------
(***************************************************************************)
(* The bitemporal facts of semantic memory: calls of transition_fact, each *)
(* a client-retried SERIALIZABLE transaction of three statements (close    *)
(* the open row, insert the new one, link the old row to it) on the table  *)
(* semantic_facts, and the as-of reads of recall and fact_history.         *)
(*                                                                         *)
(* CockroachDB is external.  A transaction's statements run one at a time  *)
(* between those of others; the rows a transaction has written stay locked *)
(* until it ends; the unique index semantic_current and the table's CHECKs *)
(* hold for what a transaction can see.  The client may be told 40001 or   *)
(* 23505, or lose the connection before or after the commit.               *)
(***************************************************************************)
EXTENDS Naturals, FiniteSets

CONSTANTS
  Writer,       \* calls of transition_fact; a call generates one fact id, so it
                \* names the fact as well
  Agent,        \* agents
  Key,          \* (subject, predicate) pairs of one organization
  Time,         \* instants a caller may pass as transition_at, or observe
  MaxClock,     \* bound on the server's clock
  MaxRetries,   \* max_serialization_retries
  Null          \* SQL NULL, Python None

\* Table semantic_facts, as far as it is modelled.
Row == [key : Key, agent : Agent, valid_from : Nat, valid_to : Nat \cup {Null},
        recorded_at : Nat, superseded_by : Writer \cup {Null}]

ASSUME FactsAssumption ==
  /\ Time \subseteq Nat
  /\ MaxClock \in Nat
  /\ MaxRetries \in Nat
  /\ Null \notin Writer \cup Nat \cup Key \cup Row

VARIABLES
  clock,   \* the server's clock
  facts,   \* table semantic_facts: the committed row of a fact, or Null
  call     \* the state of every call of transition_fact

vars == <<clock, facts, call>>

----------------------------------------------------------------------------
TransitionCall ==
  [pc : {"idle", "close", "insert", "link", "commit", "done", "failed"},
   agent : Agent \cup {Null}, key : Key \cup {Null}, at : Nat, began : Nat, attempt : 0..MaxRetries,
   old : Writer \cup {Null}]

\* The clock, the rows and the calls have the types the schema and the code
\* give them.
TypeOK ==
  /\ clock \in Nat
  /\ facts \in [Writer -> Row \cup {Null}]
  /\ call \in [Writer -> TransitionCall]

Recorded == {f \in Writer : facts[f] # Null}

\* The rows with valid_to IS NULL: what semantic_current indexes.
Open(k) == {f \in Recorded : facts[f].key = k /\ facts[f].valid_to = Null}

Locals(pc) == [pc |-> pc, agent |-> Null, key |-> Null, at |-> 0, began |-> 0,
               attempt |-> 0, old |-> Null]

Init ==
  /\ clock = 0
  /\ facts = [w \in Writer |-> Null]
  /\ call = [w \in Writer |-> Locals("idle")]

----------------------------------------------------------------------------
(* One call of transition_fact.                                            *)

Goto(w, from, to) == /\ call[w].pc = from
                     /\ call' = [call EXCEPT ![w].pc = to]

\* The call returns or raises; what it held in its locals is gone.
End(w, how) == call' = [call EXCEPT ![w] = Locals(how)]

\* RecallError for the caller.
Fail(w) == End(w, "failed")

\* The caller chooses transition_at (default: its clock); the fact id is
\* generated here, once for all attempts.  The first transaction begins: now(),
\* the default of recorded_at, is its start.
Request(w) ==
  /\ call[w].pc = "idle"
  /\ \E a \in Agent, k \in Key, t \in Time :
       call' = [call EXCEPT ![w] = [@ EXCEPT !.pc = "close", !.agent = a, !.key = k,
                                             !.at = t, !.began = clock]]
  /\ UNCHANGED <<clock, facts>>

\* Another transaction has written the row and has not ended.
Locked(w, f) ==
  \E v \in Writer \ {w} : call[v].pc \in {"insert", "link", "commit"} /\ call[v].old = f

\* Mutant: the CHECK semantic_valid_window does not exist.
CloseUnchecked(w) ==
  /\ call[w].pc = "close"
  /\ \A f \in Open(call[w].key) : ~Locked(w, f)
  /\ \E f \in IF Open(call[w].key) = {} THEN {Null} ELSE Open(call[w].key) :
       call' = [call EXCEPT ![w].pc = "insert", ![w].old = f]
  /\ UNCHANGED <<clock, facts>>

\* CLOSE_SUPERSEDED_FACT_SQL: find and close the open row, if there is one.
Close(w) ==
  /\ call[w].pc = "close"
  /\ \A f \in Open(call[w].key) : ~Locked(w, f) /\ call[w].at > facts[f].valid_from
  /\ \E f \in IF Open(call[w].key) = {} THEN {Null} ELSE Open(call[w].key) :
       call' = [call EXCEPT ![w].pc = "insert", ![w].old = f]
  /\ UNCHANGED <<clock, facts>>

\* The CHECK semantic_valid_window refuses to close a row before it began; the
\* error is not retried.
CloseRejected(w) ==
  /\ call[w].pc = "close"
  /\ \E f \in Open(call[w].key) : ~Locked(w, f) /\ call[w].at <= facts[f].valid_from
  /\ Fail(w)
  /\ UNCHANGED <<clock, facts>>

\* Another transaction has inserted an open row for the key and has not ended.
InsertPending(w) ==
  \E v \in Writer \ {w} : call[v].pc \in {"link", "commit"} /\ call[v].key = call[w].key

\* Mutant: the index semantic_current is not unique (as before migration 0008).
CollidesNever(w) == FALSE

\* An open row the transaction has not closed itself.
Collides(w) == Open(call[w].key) \ {call[w].old} # {}

\* INSERT_TRANSITIONED_FACT_SQL; the LINK statement runs only for an old row.
Insert(w) ==
  /\ ~InsertPending(w) /\ ~Collides(w)
  /\ Goto(w, "insert", IF call[w].old = Null THEN "commit" ELSE "link")
  /\ UNCHANGED <<clock, facts>>

\* The retry loop: the whole transaction again, or RecallError at the end.
Again(w) ==
  IF call[w].attempt < MaxRetries
    THEN call' = [call EXCEPT ![w] = [@ EXCEPT !.pc = "close", !.attempt = call[w].attempt + 1,
                                               !.began = clock, !.old = Null]]
    ELSE Fail(w)

\* 23505 on semantic_current: the race of two first facts.
InsertCollides(w) ==
  /\ call[w].pc = "insert" /\ ~InsertPending(w) /\ Collides(w)
  /\ Again(w)
  /\ UNCHANGED <<clock, facts>>

\* 40001 on any statement or on the commit.
SerializationFailure(w) ==
  /\ call[w].pc \in {"close", "insert", "link", "commit"}
  /\ Again(w)
  /\ UNCHANGED <<clock, facts>>

\* Any other error before the commit, a crash of the process included.
DatabaseError(w) ==
  /\ call[w].pc \in {"close", "insert", "link", "commit"}
  /\ Fail(w)
  /\ UNCHANGED <<clock, facts>>

\* LINK_SUPERSEDED_FACT_SQL, on the row this transaction has locked.
Link(w) ==
  /\ Goto(w, "link", "commit")
  /\ UNCHANGED <<clock, facts>>

\* Mutant: the old row is closed at now(), not at transition_at.
AppliedNow(w) ==
  [f \in Writer |->
     CASE f = w -> [key |-> call[w].key, agent |-> call[w].agent,
                    valid_from |-> call[w].at, valid_to |-> Null,
                    recorded_at |-> call[w].began, superseded_by |-> Null]
       [] f # w /\ f = call[w].old ->
            [facts[f] EXCEPT !.valid_to = call[w].began, !.superseded_by = w]
       [] OTHER -> facts[f]]

\* The rows the three statements have written.
Applied(w) ==
  [f \in Writer |->
     CASE f = w -> [key |-> call[w].key, agent |-> call[w].agent,
                    valid_from |-> call[w].at, valid_to |-> Null,
                    recorded_at |-> call[w].began, superseded_by |-> Null]
       [] f # w /\ f = call[w].old ->
            [facts[f] EXCEPT !.valid_to = call[w].at, !.superseded_by = w]
       [] OTHER -> facts[f]]

Commit(w) ==
  /\ call[w].pc = "commit"
  /\ facts' = Applied(w)
  /\ End(w, "done")
  /\ UNCHANGED clock

\* The connection is lost after the commit: the caller is told the transition
\* failed.
CommitUnacknowledged(w) ==
  /\ call[w].pc = "commit"
  /\ facts' = Applied(w)
  /\ Fail(w)
  /\ UNCHANGED clock

Tick ==
  /\ clock < MaxClock
  /\ clock' = clock + 1
  /\ UNCHANGED <<facts, call>>

TransitionFact(w) ==
  \/ Request(w) \/ Close(w) \/ CloseRejected(w)
  \/ Insert(w) \/ InsertCollides(w) \/ Link(w)
  \/ SerializationFailure(w) \/ DatabaseError(w)
  \/ Commit(w) \/ CommitUnacknowledged(w)

Next == Tick \/ \E w \in Writer : TransitionFact(w)

Spec == Init /\ [][Next]_vars

----------------------------------------------------------------------------
(* Reads.                                                                  *)

\* valid_from <= as_of AND (valid_to IS NULL OR valid_to > as_of)
ValidAt(row, x) ==
  row.valid_from <= x /\ (row.valid_to = Null \/ row.valid_to > x)

\* Mutant: recorded_at is compared with <.
SemanticRowsBefore(a, x) ==
  {f \in Recorded : /\ facts[f].agent = a
                    /\ ValidAt(facts[f], x)
                    /\ facts[f].recorded_at < x}

\* The facts SEMANTIC_RECALL_SQL finds for an agent as of an instant, before
\* its limit and its subject filter.
SemanticRows(a, x) ==
  {f \in Recorded : /\ facts[f].agent = a
                    /\ ValidAt(facts[f], x)
                    /\ facts[f].recorded_at <= x}

----------------------------------------------------------------------------
(* Refinement: the table implements one belief per instant and key.        *)

BeliefAt(k, x) ==
  IF \E f \in Recorded : facts[f].key = k /\ ValidAt(facts[f], x)
    THEN CHOOSE f \in Recorded : facts[f].key = k /\ ValidAt(facts[f], x)
    ELSE Null

OpenFact(k) == IF Open(k) = {} THEN Null ELSE CHOOSE f \in Open(k) : TRUE

beliefs == [k \in Key |-> [x \in Time |-> BeliefAt(k, x)]]
openFacts == [k \in Key |-> OpenFact(k)]

Timeline == INSTANCE BeliefTimeline WITH Fact <- Writer, belief <- beliefs, current <- openFacts

\* Concurrent, retried and half-acknowledged transitions implement the belief
\* timeline: each committed one replaces the belief from its instant on, leaves
\* every earlier instant as it was, and erases no belief altogether.
ImplementsTimeline == Timeline!Spec

----------------------------------------------------------------------------
(* Properties.                                                             *)

\* Two rows of one key are never valid at one instant, whatever instants the
\* racing callers of transition_fact chose.
WindowsDisjoint ==
  \A f, g \in Recorded : f # g /\ facts[f].key = facts[g].key =>
    \/ facts[f].valid_to # Null /\ facts[f].valid_to <= facts[g].valid_from
    \/ facts[g].valid_to # Null /\ facts[g].valid_to <= facts[f].valid_from

\* The rows of a key are one chain: a closed row names the row that replaced
\* it and ends where that one begins, and a key that was ever asserted has
\* exactly one open row (a failed transition closes nothing).
BeliefChain ==
  /\ \A f \in Recorded : facts[f].valid_to # Null =>
       /\ facts[f].superseded_by \in Recorded
       /\ facts[facts[f].superseded_by].key = facts[f].key
       /\ facts[facts[f].superseded_by].valid_from = facts[f].valid_to
  /\ \A f \in Recorded : Cardinality(Open(facts[f].key)) = 1

\* What recall answers for a past instant changes only if somebody transitions
\* a fact at or before that instant; a fact once recorded never disappears.
PastAnswersFixed ==
  [][facts' # facts =>
     /\ \A f \in Recorded : facts'[f] # Null
     /\ \A a \in Agent, x \in Time :
          SemanticRows(a, x)' # SemanticRows(a, x) =>
            \E f \in Recorded' \ Recorded : facts'[f].valid_from <= x]_vars
============================================================================
