---------------------------- MODULE MCResponder ----------------------------
(* Small instances of Responder for TLC. *)
EXTENDS Responder, TLC

CONSTANTS i1, i2, s1, s2

\* Both incidents are on one service.
OneService == [i \in Incident |-> s1]

\* Every combination of tags and approval, for the right and the wrong service.
AllRequests ==
  [incident : Incident, service : Service, critical : BOOLEAN,
   approved : BOOLEAN, named : BOOLEAN]

\* No approval needed or given: the turns meet in the store.
PlainRequests ==
  {q \in AllRequests : q.service = ServiceOf[q.incident] /\ ~q.critical /\ ~q.approved /\ ~q.named}

\* The same, and commands that name a service the incident is not on.
MisaddressedRequests ==
  {q \in AllRequests : ~q.critical /\ ~q.approved /\ ~q.named}

\* Every combination of tags, approval and approver; the reasoner may ask for
\* approval under each of them. (A name without an approval is ignored.)
ApprovalRequests ==
  {q \in AllRequests : q.service = ServiceOf[q.incident] /\ (q.named => q.approved)}

TurnSymmetry == Permutations(Turn)

\* ServiceOf maps every incident to s1, so incidents can be exchanged; the
\* services cannot.
ActSymmetry == Permutations(Turn) \cup Permutations(Incident)
                 \cup Permutations(Runbook) \cup Permutations(Remedy)
OutcomeSymmetry == Permutations(Turn) \cup Permutations(Call) \cup Permutations(Remedy)

----------------------------------------------------------------------------
(* Bounds of the exploration, each a disjunction of two kinds of run.      *)

\* Either one runbook at most is in use and everything may be retried, or
\* nothing is retried and the turns may choose between all the runbooks.
RetryOrChoice ==
  \/ Cardinality({r \in Runbook : runbooks[r].status # "draft"}) <= 1
  \/ (\A t \in Turn : attempt[t] = 0) /\ (\A c \in Call : call[c].attempt = 0)

\* The turn has no tag and no approval of its own.
Plain(t) == signal[t] = Null \/ (~signal[t].critical /\ ~signal[t].approved)

\* Either all turns are plain and the reports race with each other, or one
\* report at most is made and the turns take every combination.
OneReportUnlessPlain ==
  \/ \A t \in Turn : Plain(t)
  \/ Cardinality({c \in Call : call[c].pc # "idle"}) <= 1

----------------------------------------------------------------------------
(* What comments and documentation say of the act path, as it is not.      *)

\* The event transaction.rolled_back of the exception handler in
\* ResponderService.handle says that nothing of the turn was recorded.
RolledBackIsNotRecorded ==
  \A t \in Turn :
    (\E k \in DOMAIN trail[t] : trail[t][k] = "transaction.rolled_back") =>
      \A n \in DOMAIN actions : actions[n].by # t

\* A duplicate of a committed command is answered with the original result by
\* CockroachAtomicRemediationStore, never refused by the statement's gates.
DuplicateIsReplayed ==
  [][\A t \in Turn : (pc[t] = "execute" /\ KeyTaken(command[t]) /\ pc'[t] = "failed")
        => error'[t] # "ProvenanceError"]_vars
============================================================================
