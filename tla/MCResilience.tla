---------------------------- MODULE MCResilience ----------------------------
(***************************************************************************)
(* A cluster of five nodes in three regions.  The voters are placed as     *)
(* SURVIVE REGION FAILURE places them (2 / 2 / 1), or so that the killed   *)
(* region holds a majority: the survival goal was never applied.           *)
(***************************************************************************)
EXTENDS ResilienceHarness

Nodes == <<"use1-a", "use1-b", "use2-a", "use2-b", "usw2-a">>
Regions ==
  [n \in Range(Nodes) |->
     CASE n \in {"use1-a", "use1-b"} -> "us-east-1"
       [] n \in {"use2-a", "use2-b"} -> "us-east-2"
       [] OTHER -> "us-west-2"]
SurvivingOrNot == {Range(Nodes), {"use1-a", "use2-a", "use2-b"}}
=============================================================================
