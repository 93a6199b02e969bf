------------------------- MODULE RemediationLedger -------------------------
(***************************************************************************)
(* What the act path and the outcome path promise together: a ledger of    *)
(* the commands applied to production, each with at most one verdict.      *)
(* A command is a tuple whose first component is its incident.             *)
(***************************************************************************)
EXTENDS Naturals, Sequences

VARIABLES
  applied,  \* the commands applied, in order
  verdict,  \* what became of each of them, "none" while unknown
  closed    \* the incidents that are over

Init == /\ applied = <<>>
        /\ verdict = <<>>
        /\ closed = {}

\* A command that was never applied before is applied to an open incident.
Apply ==
  LET c == applied'[Len(applied) + 1] IN
  /\ Len(applied') = Len(applied) + 1
  /\ applied' = Append(applied, c)
  /\ \A n \in DOMAIN applied : applied[n] # c
  /\ c[1] \notin closed
  /\ verdict' = Append(verdict, "none")
  /\ UNCHANGED closed

\* A command without a verdict gets one; a success closes its incident.
Judge ==
  \E n \in DOMAIN applied, v \in {"success", "failed", "no_effect"} :
    /\ verdict[n] = "none"
    /\ verdict' = [verdict EXCEPT ![n] = v]
    /\ closed' = IF v = "success" THEN closed \cup {applied[n][1]} ELSE closed
    /\ UNCHANGED applied

Next == Apply \/ Judge

Spec == Init /\ [][Next]_<<applied, verdict, closed>>
============================================================================
