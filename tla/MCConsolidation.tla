-------------------------- MODULE MCConsolidation --------------------------
(* Small instances of Consolidation for TLC. *)
EXTENDS Consolidation, TLC

CONSTANTS i1, i2

R(i, kind, occurred) == [incident |-> i, kind |-> kind, occurred |-> occurred]

\* An incident that ends well; one whose outcomes are committed in the reverse
\* order of their observation; two incidents.
OneIncident == <<R(i1, "other", 1), R(i1, "success", 2)>>
LateReport == <<R(i1, "failed", 2), R(i1, "success", 1)>>
TwoIncidents == <<R(i1, "success", 1), R(i2, "failed", 2)>>
ShortHistories == {OneIncident, LateReport, TwoIncidents}
============================================================================
