-------------------------- MODULE ResilienceProofs --------------------------
(***************************************************************************)
(* The safety theorems of ResilienceHarness: what a report says holds for  *)
(* every topology, placement of voters, bound and behaviour of the cluster.*)
(***************************************************************************)
EXTENDS ResilienceHarness, FiniteSetTheorems, TLAPS

----------------------------------------------------------------------------
(* The steps of a run, by what has happened to the region.                 *)

BeforeKill == {"seed", "pin", "verify", "pinned", "before", "freshness",
               "cross_agent", "atomicity", "kill"}
WhileDown == {"rto", "outage_writes", "wait_down", "rpo_during", "restore"}
Restored == {"wait_full", "rpo", "record", "report", "done"}

\* Where each probe has been made.
RpoMade == {"record", "report", "done"}
RpoDuringMade == RpoMade \cup {"restore", "wait_full", "rpo"}
RtoMade == RpoDuringMade \cup {"outage_writes", "wait_down", "rpo_during"}
AtomicityMade == RtoMade \cup {"kill", "rto"}
CrossAgentMade == AtomicityMade \cup {"atomicity"}
FreshnessMade == CrossAgentMade \cup {"cross_agent"}
Counted == FreshnessMade \cup {"freshness"}

----------------------------------------------------------------------------
(* The inductive invariant.                                                *)

ClusterFact ==
  /\ voters \in Placements
  /\ up \subseteq Node
  /\ lease \in [Table -> voters]
  /\ preference \in [Table -> Region]
  /\ settled \in BOOLEAN
  /\ blips \in 0 .. MaxBlips

\* The harness is the only one who takes nodes down and brings them back.
UpFact ==
  /\ pc \in BeforeKill => up = Node /\ settled
  /\ pc \in WhileDown => up = Node \ Killed
  /\ pc \in Restored => up = Node

ControlFact ==
  /\ pc \in BeforeKill \cup WhileDown \cup Restored \cup {"raised"}
  /\ clock \in 0 .. (IF pc \in DOMAIN Bound THEN Bound[pc] ELSE 0)
  /\ done \in Nat
  /\ pc \in {"pin", "verify"} => done \in {0, 1}
  /\ pc = "record" => done \in 0 .. 5

PinFact ==
  /\ verified \subseteq Table
  /\ leaseholder \in Node \cup {Null}
  /\ heldAtKill \in BOOLEAN
  /\ failed \in BOOLEAN
  /\ pc \in {"before", "freshness", "cross_agent", "atomicity", "kill"} => verified = Table

\* Between its verification and the kill only a blip moves the lease away.
LeaseFact ==
  /\ (pc = "pin" /\ done = 1) \/ pc = "verify" => preference["episodic_events"] = KillRegion
  /\ pc \in BeforeKill /\ "episodic_events" \in verified =>
       /\ preference["episodic_events"] = KillRegion
       /\ blips = MaxBlips => RegionOf[lease["episodic_events"]] = KillRegion
  /\ pc \in WhileDown \cup Restored /\ blips = MaxBlips => heldAtKill

\* The tracker holds what was acknowledged, at every moment.
RowsFact ==
  /\ rows \subseteq AllRows
  /\ rows \ {Unacknowledged} = tracked

ProbesFact ==
  /\ probes \in [Probe -> {"none", "pass", "fail"}]
  /\ pc \in FreshnessMade => probes["freshness"] # "none"
  /\ pc \in CrossAgentMade => probes["cross_agent"] # "none"
  /\ pc \in AtomicityMade => probes["atomicity"] # "none"
  /\ pc \in RtoMade => probes["rto"] # "none"
  /\ pc \in RpoDuringMade => probes["rpo_during"] # "none"
  /\ pc \in RpoMade => probes["rpo"] # "none"

\* The probe during the outage was served by the survivors.
SurvivalFact == probes["rpo_during"] = "pass" => HasQuorum(Node \ Killed)

LivenessFact ==
  /\ liveness \in [before : Count, during : Count, after : Count,
                   regionDown : BOOLEAN, recovered : BOOLEAN]
  /\ pc \in Counted => liveness.before = Cardinality(Node)
  /\ liveness.regionDown => liveness.during = Cardinality(Node \ Killed)
  /\ liveness.recovered => liveness.after = Cardinality(Node)

\* The rows of eval_probes are the probes, as far as they have been recorded.
StoredFact ==
  /\ stored \in Seq([type : {ProbeType(p) : p \in Probe}, status : {"pass", "fail"}])
  /\ pc \in BeforeKill \cup WhileDown \cup {"wait_full", "rpo"} => stored = <<>>
  /\ pc = "record" => Len(stored) = done
  /\ pc \in {"report", "done"} => Len(stored) = Len(ProbeOrder)
  /\ pc \in {"record", "report", "done"} =>
       \A i \in DOMAIN stored : stored[i].status = probes[ProbeOrder[i]]

ReportFact ==
  /\ report = Null \/ report \in [pass : BOOLEAN]
  /\ report # Null => pc = "done" /\ (report.pass <=> OverallPass)

RunInv ==
  /\ ClusterFact /\ UpFact /\ ControlFact /\ PinFact /\ LeaseFact
  /\ RowsFact /\ ProbesFact /\ NoFalseAlarm /\ SurvivalFact /\ PassMeansTransfer
  /\ LivenessFact /\ StoredFact /\ ReportFact

----------------------------------------------------------------------------
(* Tables, probes, bounds and nodes.                                       *)

LEMMA TableSet == Table = {"episodic_events", "remediation_actions"}
  BY DEF Table, PinnedTables, Range

LEMMA ProbeSet == Probe = {"freshness", "cross_agent", "atomicity", "rto", "rpo_during", "rpo"}
  BY DEF Probe, ProbeOrder, Range

LEMMA BoundOf ==
  /\ DOMAIN Bound = {"verify", "rto", "wait_down", "wait_full"}
  /\ Bound["verify"] \in Nat /\ Bound["rto"] \in Nat
  /\ Bound["wait_down"] \in Nat /\ Bound["wait_full"] \in Nat
  BY ResilienceAssumption DEF Bound

LEMMA NodeFacts ==
  /\ Control \in Node /\ RegionOf[Control] \in Region /\ KillRegion \in Region
  /\ Len(Topology) \in Nat \ {0}
  /\ Killed \subseteq Node
  /\ \A v \in Placements : v \subseteq Node /\ Control \in v
<1>1. Topology \in Seq(Node) /\ KillRegion \in Region
  BY ResilienceAssumption
<1>2. Len(Topology) \in Nat /\ DOMAIN Topology = 1..Len(Topology)
  BY <1>1
<1>3. Len(Topology) # 0
  <2>1. Node # {}
    BY <1>1 DEF Region
  <2> QED BY <1>2, <2>1 DEF Node, Range
<1>4. Control \in Node
  BY <1>2, <1>3 DEF Control, Node, Range
<1> QED BY <1>1, <1>2, <1>3, <1>4, ResilienceAssumption DEF Region, Killed

\* There are finitely many nodes, and no snapshot counts more than there are.
LEMMA NodeCounts ==
  /\ IsFiniteSet(Node)
  /\ Cardinality(Node) \in Nat
  /\ \A live \in SUBSET Node : Cardinality(live) \in Count
<1>1. Topology \in Seq(Node)
  BY ResilienceAssumption
<1>2. Topology \in Surjection(1..Len(Topology), Node)
  <2>1. Topology \in [1..Len(Topology) -> Node] /\ \A n \in Node : \E i \in 1..Len(Topology) : Topology[i] = n
    BY <1>1 DEF Node, Range
  <2> QED BY <2>1 DEF Surjection
<1>3. IsFiniteSet(1..Len(Topology))
  BY <1>1, FS_Interval
<1>4. IsFiniteSet(Node)
  BY <1>2, <1>3, FS_Surjection
<1>5. ASSUME NEW live \in SUBSET Node PROVE Cardinality(live) \in Count
  <2>1. IsFiniteSet(live) /\ Cardinality(live) <= Cardinality(Node)
    BY <1>4, FS_Subset
  <2> QED BY <1>4, <2>1, FS_CardinalityType DEF Count
<1> QED BY <1>4, <1>5, FS_CardinalityType

----------------------------------------------------------------------------
(* Which steps write what.                                                 *)

\* The three probes before the kill, as one.
Writes ==
  ProbeFreshness \/ ProbeCrossAgent \/ ProbeAtomicity

\* Steps that only wait, look or move on.
Passes ==
  \/ Seed \/ VerifyTimesOut \/ CheckPin \/ OutageWritesDone \/ DownTimesOut \/ FullTimesOut \/ Raise

LEMMA RunSteps ==
  ASSUME Next
  PROVE  \/ \E t \in Table : Rebalance(t) \/ Reacquire(t)
         \/ Converge \/ Tick \/ Passes \/ Writes
         \/ SetLeasePreference \/ VerifyLeaseholder \/ CountBefore \/ KillRegionNow
         \/ AttemptFails \/ AttemptSucceeds \/ NoSuccessWithinDeadline
         \/ OutageWrite \/ PollDown \/ RestoreRegion \/ PollFull
         \/ ProbeRpo("rpo_during", "restore") \/ ProbeRpo("rpo", "record")
         \/ RecordProbe \/ WriteReport
  BY DEF Next, Run, Passes, Writes

LEMMA PassesKeep ==
  ASSUME Passes
  PROVE  /\ UNCHANGED <<cluster, pinned, results, rows, tracked>>
         /\ \/ GoTo("pin") /\ pc = "seed"
            \/ NextTable /\ pc = "verify"
            \/ GoTo("before") /\ pc = "pinned" /\ PinVerified
            \/ GoTo("wait_down") /\ pc = "outage_writes"
            \/ GoTo("rpo_during") /\ pc = "wait_down"
            \/ GoTo("rpo") /\ pc = "wait_full"
            \/ GoTo("raised") /\ pc \notin {"done", "raised"}
  BY DEF Passes, Seed, VerifyTimesOut, CheckPin, OutageWritesDone, DownTimesOut, FullTimesOut,
         Raise, Running

\* What a probe before the kill inserts, and where the run goes on.
LEMMA WritesKeep ==
  ASSUME Writes
  PROVE  /\ UNCHANGED <<cluster, pinned, failed, liveness, stored, report>>
         /\ \E p \in {"freshness", "cross_agent", "atomicity"} :
              \E ids \in SUBSET (AllRows \ {Unacknowledged}) :
                /\ pc = p /\ rows' = rows \cup ids /\ tracked' = tracked \cup ids
                /\ probes' = [probes EXCEPT ![p] = "pass"]
                /\ GoTo(CASE p = "freshness" -> "cross_agent"
                          [] p = "cross_agent" -> "atomicity"
                          [] p = "atomicity" -> "kill")
<1> DEFINE Own(id) == {Row("episodic_events", id)}
<1>1. \A id \in {"freshness", "cross_agent"} : Own(id) \subseteq AllRows \ {Unacknowledged}
  BY DEF AllRows, Row, Unacknowledged
<1>2. AtomicRows \subseteq AllRows \ {Unacknowledged}
  BY DEF AllRows, AtomicRows, Row, Unacknowledged
<1> HIDE DEF Own
<1>3. CASE ProbeFreshness
  <2>1. WriteAndRead("freshness", Own("freshness"), Control, ThirdRegionNode, "cross_agent")
    BY <1>3 DEF ProbeFreshness, Own
  <2>2. Own("freshness") \subseteq rows' /\ probes' = [probes EXCEPT !["freshness"] = "pass"]
    BY <2>1 DEF WriteAndRead
  <2> QED BY <1>1, <2>1, <2>2 DEF WriteAndRead
<1>4. CASE ProbeCrossAgent
  <2>1. WriteAndRead("cross_agent", Own("cross_agent"), NodesInRegion(KillRegion)[1], Control, "atomicity")
    BY <1>4 DEF ProbeCrossAgent, Own
  <2>2. Own("cross_agent") \subseteq rows' /\ probes' = [probes EXCEPT !["cross_agent"] = "pass"]
    BY <2>1 DEF WriteAndRead
  <2> QED BY <1>1, <2>1, <2>2 DEF WriteAndRead
<1>5. CASE ProbeAtomicity
  <2>1. WriteAndRead("atomicity", AtomicRows, Control, Control, "kill")
    BY <1>5 DEF ProbeAtomicity
  <2>2. AtomicRows \subseteq rows' /\ probes' = [probes EXCEPT !["atomicity"] = "pass"]
    BY <2>1 DEF WriteAndRead
  <2> QED BY <1>2, <2>1, <2>2 DEF WriteAndRead
<1> QED BY <1>3, <1>4, <1>5 DEF Writes

----------------------------------------------------------------------------
(* The cluster.                                                            *)

LEMMA ClusterSteps ==
  ASSUME Next
  PROVE  \/ UNCHANGED cluster
         \/ \E t \in Table : Rebalance(t) \/ Reacquire(t)
         \/ Converge \/ SetLeasePreference \/ KillRegionNow \/ RestoreRegion
<1>1. Passes \/ Writes => UNCHANGED cluster
  BY PassesKeep, WritesKeep
<1>2. Tick \/ VerifyLeaseholder \/ CountBefore \/ AttemptFails \/ AttemptSucceeds => UNCHANGED cluster
  BY DEF Tick, VerifyLeaseholder, CountBefore, AttemptFails, AttemptSucceeds
<1>3. NoSuccessWithinDeadline \/ OutageWrite \/ PollDown \/ PollFull => UNCHANGED cluster
  BY DEF NoSuccessWithinDeadline, OutageWrite, PollDown, PollFull
<1>4. ProbeRpo("rpo_during", "restore") \/ ProbeRpo("rpo", "record") \/ RecordProbe \/ WriteReport
        => UNCHANGED cluster
  BY DEF ProbeRpo, RecordProbe, WriteReport
<1> QED BY <1>1, <1>2, <1>3, <1>4, RunSteps

LEMMA NextCluster ==
  ASSUME ClusterFact, Next
  PROVE  ClusterFact' /\ voters' = voters
<1>1. CASE UNCHANGED cluster
  BY <1>1 DEF cluster, ClusterFact
<1>2. ASSUME NEW t \in Table, Rebalance(t) PROVE ClusterFact' /\ voters' = voters
  <2>1. PICK n \in up \cap voters : lease' = [lease EXCEPT ![t] = n]
    BY <1>2 DEF Rebalance
  <2> QED BY <1>2, <2>1 DEF Rebalance, ClusterFact
<1>3. ASSUME NEW t \in Table, Reacquire(t) PROVE ClusterFact' /\ voters' = voters
  <2>1. PICK n \in (up \cap voters) \ {lease[t]} : lease' = [lease EXCEPT ![t] = n]
    BY <1>3 DEF Reacquire
  <2>2. blips' \in 0 .. MaxBlips
    BY <1>3, ResilienceAssumption DEF Reacquire, ClusterFact
  <2> QED BY <1>3, <2>1, <2>2 DEF Reacquire, ClusterFact
<1>4. CASE Converge
  BY <1>4 DEF Converge, ClusterFact
<1>5. CASE SetLeasePreference
  BY <1>5, NodeFacts DEF SetLeasePreference, ClusterFact
<1>6. CASE KillRegionNow \/ RestoreRegion
  BY <1>6, NodeFacts DEF KillRegionNow, RestoreRegion, ClusterFact
<1> QED BY <1>1, <1>2, <1>3, <1>4, <1>5, <1>6, ClusterSteps

\* Only the kill and the restore cross the borders between the phases.
LEMMA PhaseSteps ==
  ASSUME Next
  PROVE  \/ KillRegionNow \/ RestoreRegion \/ pc' = "raised" \/ pc' = pc
         \/ pc \in BeforeKill \ {"kill"} /\ pc' \in BeforeKill
         \/ pc \in WhileDown \ {"restore"} /\ pc' \in WhileDown
         \/ pc \in Restored /\ pc' \in Restored
<1> USE DEF BeforeKill, WhileDown, Restored, GoTo
<1>1. ASSUME NEW t \in Table, Rebalance(t) \/ Reacquire(t) PROVE pc' = pc
  BY <1>1 DEF Rebalance, Reacquire, control
<1>2. Converge \/ Tick \/ AttemptFails \/ OutageWrite => pc' = pc
  BY DEF Converge, Tick, AttemptFails, OutageWrite, control
<1>3. Passes => \/ pc' = "raised" \/ pc' = pc
                \/ pc \in BeforeKill \ {"kill"} /\ pc' \in BeforeKill
                \/ pc \in WhileDown \ {"restore"} /\ pc' \in WhileDown
                \/ pc \in Restored /\ pc' \in Restored
  BY PassesKeep DEF NextTable
<1>4. Writes => pc \in BeforeKill \ {"kill"} /\ pc' \in BeforeKill
  BY WritesKeep
<1>5. SetLeasePreference \/ VerifyLeaseholder \/ CountBefore
        => pc' = pc \/ (pc \in BeforeKill \ {"kill"} /\ pc' \in BeforeKill)
  BY DEF SetLeasePreference, VerifyLeaseholder, CountBefore, NextTable
<1>6. AttemptSucceeds \/ NoSuccessWithinDeadline \/ PollDown \/ ProbeRpo("rpo_during", "restore")
        => pc' = pc \/ (pc \in WhileDown \ {"restore"} /\ pc' \in WhileDown)
  BY DEF AttemptSucceeds, NoSuccessWithinDeadline, PollDown, ProbeRpo, LeaveRto, control
<1>7. PollFull \/ ProbeRpo("rpo", "record") \/ RecordProbe \/ WriteReport
        => pc' = pc \/ (pc \in Restored /\ pc' \in Restored)
  BY DEF PollFull, ProbeRpo, RecordProbe, WriteReport, control
<1> QED BY <1>1, <1>2, <1>3, <1>4, <1>5, <1>6, <1>7, RunSteps

LEMMA NextUp ==
  ASSUME ControlFact, UpFact, Next
  PROVE  UpFact'
<1> USE DEF BeforeKill, WhileDown, Restored
<1>1. CASE KillRegionNow
  BY <1>1 DEF KillRegionNow, UpFact, GoTo
<1>2. CASE RestoreRegion
  BY <1>2, NodeFacts DEF RestoreRegion, UpFact, GoTo
<1>3. CASE ~KillRegionNow /\ ~RestoreRegion
  <2>1. UNCHANGED up /\ (settled' = settled \/ settled' = TRUE)
    BY <1>3, ClusterSteps DEF cluster, Rebalance, Reacquire, Converge, SetLeasePreference
  <2> HIDE DEF BeforeKill, WhileDown, Restored
  <2>2. pc' = "raised" => pc' \notin BeforeKill \cup WhileDown \cup Restored
    BY DEF BeforeKill, WhileDown, Restored
  <2>3. BeforeKill \cap WhileDown = {} /\ BeforeKill \cap Restored = {} /\ WhileDown \cap Restored = {}
    BY DEF BeforeKill, WhileDown, Restored
  <2> QED BY <1>3, <2>1, <2>2, <2>3, PhaseSteps DEF UpFact
<1> QED BY <1>1, <1>2, <1>3

----------------------------------------------------------------------------
(* Where the run is.                                                       *)

Steps == BeforeKill \cup WhileDown \cup Restored \cup {"raised"}

\* A new step starts its loop and its wait from nothing.
LEMMA GoToControl ==
  ASSUME NEW step \in Steps, GoTo(step)
  PROVE  ControlFact'
<1>1. pc' \in Steps /\ done' = 0 /\ clock' = 0
  BY DEF GoTo
<1>2. pc' \in DOMAIN Bound => Bound[pc'] \in Nat
  BY BoundOf
<1>3. (DOMAIN Bound)' = DOMAIN Bound /\ Bound' = Bound
  BY DEF Bound
<1> QED BY <1>1, <1>2, <1>3 DEF ControlFact, Steps

LEMMA NextTableControl ==
  ASSUME ControlFact, NextTable, pc = "verify"
  PROVE  ControlFact'
<1>1. done \in {0, 1} /\ Len(PinnedTables) = 2
  BY DEF ControlFact, PinnedTables
<1>2. (pc' = "verify" /\ done' = 1 /\ clock' = 0) \/ (pc' = "pinned" /\ done' = 0 /\ clock' = 0)
  BY <1>1 DEF NextTable
<1>3. Bound' = Bound
  BY DEF Bound
<1> QED BY <1>2, <1>3, BoundOf DEF ControlFact, BeforeKill

LEMMA NextControl ==
  ASSUME ControlFact, Next
  PROVE  ControlFact'
<1> USE DEF BeforeKill, WhileDown, Restored, Steps
<1>1. UNCHANGED control => ControlFact'
  BY DEF control, ControlFact, Bound
<1>2. ASSUME NEW t \in Table, Rebalance(t) \/ Reacquire(t) PROVE UNCHANGED control
  BY <1>2 DEF Rebalance, Reacquire
<1>3. Converge => UNCHANGED control
  BY DEF Converge
<1>4. CASE Tick
  <2>1. clock' = clock + 1 /\ clock < Bound[pc] /\ pc \in DOMAIN Bound /\ pc' = pc /\ done' = done
    BY <1>4 DEF Tick
  <2>2. Bound' = Bound
    BY DEF Bound
  <2>3. clock \in 0 .. Bound[pc] /\ Bound[pc] \in Nat
    BY <2>1, BoundOf DEF ControlFact
  <2>4. clock' \in 0 .. Bound[pc]
    BY <2>1, <2>3
  <2> QED BY <2>1, <2>2, <2>4 DEF ControlFact
<1>5. CASE Passes
  BY <1>5, PassesKeep, NextTableControl, GoToControl
<1>6. CASE Writes
  BY <1>6, WritesKeep, GoToControl
<1>7. CASE SetLeasePreference
  <2>1. done \in {0, 1} /\ Len(PinnedTables) = 2 /\ clock = 0
    BY <1>7, BoundOf DEF SetLeasePreference, ControlFact, PinnedTables
  <2>2. CASE GoTo("verify")
    BY <2>2, GoToControl
  <2>3. CASE done' = 1 /\ UNCHANGED <<pc, clock>>
    BY <1>7, <2>1, <2>3, BoundOf DEF SetLeasePreference, ControlFact, Bound
  <2> QED BY <1>7, <2>1, <2>2, <2>3 DEF SetLeasePreference
<1>8. CASE VerifyLeaseholder
  BY <1>8, NextTableControl DEF VerifyLeaseholder
<1>9. CASE CountBefore
  BY <1>9, GoToControl DEF CountBefore
<1>10. CASE KillRegionNow \/ RestoreRegion
  BY <1>10, GoToControl DEF KillRegionNow, RestoreRegion
<1>11. CASE AttemptFails
  <2>1. done' \in Nat
    BY <1>11, NodeFacts DEF AttemptFails, ControlFact
  <2> QED BY <1>11, <2>1 DEF AttemptFails, ControlFact, Bound
<1>12. CASE AttemptSucceeds \/ NoSuccessWithinDeadline
  BY <1>12, GoToControl DEF AttemptSucceeds, NoSuccessWithinDeadline, LeaveRto
<1>13. CASE OutageWrite
  BY <1>13 DEF OutageWrite, ControlFact, Bound
<1>14. CASE PollDown \/ PollFull
  <2>1. UNCHANGED control \/ GoTo("rpo_during") \/ GoTo("rpo")
    BY <1>14 DEF PollDown, PollFull
  <2> QED BY <1>1, <2>1, GoToControl
<1>15. CASE ProbeRpo("rpo_during", "restore") \/ ProbeRpo("rpo", "record")
  BY <1>15, GoToControl DEF ProbeRpo
<1>16. CASE RecordProbe
  <2>1. done \in 0 .. 5 /\ Len(ProbeOrder) = 6 /\ clock = 0
    BY <1>16, BoundOf DEF RecordProbe, ControlFact, ProbeOrder
  <2>2. CASE GoTo("report")
    BY <2>2, GoToControl
  <2>3. CASE done' = done + 1 /\ done + 1 < 6 /\ UNCHANGED <<pc, clock>>
    BY <1>16, <2>1, <2>3, BoundOf DEF RecordProbe, ControlFact, Bound
  <2> QED BY <1>16, <2>1, <2>2, <2>3 DEF RecordProbe
<1>17. CASE WriteReport
  BY <1>17, GoToControl DEF WriteReport
<1> HIDE DEF BeforeKill, WhileDown, Restored, Steps
<1> QED BY <1>1, <1>2, <1>3, <1>4, <1>5, <1>6, <1>7, <1>8, <1>9, <1>10, <1>11, <1>12, <1>13,
           <1>14, <1>15, <1>16, <1>17, RunSteps

----------------------------------------------------------------------------
(* The pin, the lease and the kill.                                        *)

LEMMA NextPin ==
  ASSUME ClusterFact, ControlFact, PinFact, Next
  PROVE  PinFact'
<1> DEFINE Ready == {"before", "freshness", "cross_agent", "atomicity", "kill"}
<1>1. CASE VerifyLeaseholder
  <2>1. done \in {0, 1} /\ PinnedTables[done + 1] \in Table
    BY <1>1 DEF VerifyLeaseholder, ControlFact, Table, PinnedTables, Range
  <2>2. lease[PinnedTables[done + 1]] \in Node
    BY <2>1, NodeFacts DEF ClusterFact
  <2>3. pc' \in {"verify", "pinned"}
    BY <1>1 DEF VerifyLeaseholder, NextTable
  <2> QED BY <1>1, <2>1, <2>2, <2>3 DEF VerifyLeaseholder, PinFact, results
<1>2. CASE KillRegionNow
  BY <1>2 DEF KillRegionNow, PinFact, results, GoTo
<1>3. CASE AttemptFails
  BY <1>3 DEF AttemptFails, PinFact, pinned
<1>4. CASE AttemptSucceeds \/ NoSuccessWithinDeadline
  BY <1>4 DEF AttemptSucceeds, NoSuccessWithinDeadline, LeaveRto, PinFact, GoTo
<1>5. CASE UNCHANGED <<pinned, failed>> /\ (pc' \in Ready => pc \in Ready \/ verified = Table)
  BY <1>5 DEF PinFact, pinned
<1> HIDE DEF Ready
<1>6. (\E t \in Table : Rebalance(t) \/ Reacquire(t)) \/ Converge \/ Tick
        => UNCHANGED <<pinned, failed>> /\ pc' = pc
  BY DEF Rebalance, Reacquire, Converge, Tick, results, control
<1>7. Passes => UNCHANGED <<pinned, failed>> /\ (pc' \in Ready => pc \in Ready \/ verified = Table)
  BY PassesKeep DEF results, GoTo, NextTable, PinVerified, Ready
<1>8. Writes => UNCHANGED <<pinned, failed>> /\ pc \in Ready
  BY WritesKeep DEF Ready
<1>9. SetLeasePreference \/ CountBefore \/ OutageWrite \/ PollDown \/ PollFull \/ RestoreRegion
        => UNCHANGED <<pinned, failed>> /\ (pc' \in Ready => pc \in Ready)
  BY DEF SetLeasePreference, CountBefore, OutageWrite, PollDown, PollFull, RestoreRegion,
         results, GoTo, control, Ready
<1>10. ProbeRpo("rpo_during", "restore") \/ ProbeRpo("rpo", "record") \/ RecordProbe \/ WriteReport
         => UNCHANGED <<pinned, failed>> /\ (pc' \in Ready => pc \in Ready)
  BY DEF ProbeRpo, RecordProbe, WriteReport, GoTo, Ready
<1> QED BY <1>1, <1>2, <1>3, <1>4, <1>5, <1>6, <1>7, <1>8, <1>9, <1>10, RunSteps
\* Steps that leave alone what the pin established; the preference of a table
\* is only read after the step that set it.
LEMMA PinKept ==
  ASSUME Next
  PROVE  \/ \E t \in Table : Rebalance(t) \/ Reacquire(t)
         \/ SetLeasePreference \/ VerifyLeaseholder \/ KillRegionNow
         \/ /\ UNCHANGED <<verified, heldAtKill, preference, lease, blips>>
            /\ \/ pc' = pc /\ done' = done
               \/ pc' = "pin" /\ done' = 0
               \/ pc' = "verify" /\ pc = "verify"
               \/ pc' \notin {"pin", "verify"}
<1> DEFINE Kept == UNCHANGED <<verified, heldAtKill, preference, lease, blips>>
           Onward == \/ pc' = pc /\ done' = done
                     \/ pc' = "pin" /\ done' = 0
                     \/ pc' = "verify" /\ pc = "verify"
                     \/ pc' \notin {"pin", "verify"}
<1>1. Converge \/ Tick => Kept /\ Onward
  BY DEF Converge, Tick, control, cluster, pinned
<1>2. Passes => Kept /\ Onward
  BY PassesKeep DEF GoTo, NextTable, cluster, pinned
<1>3. Writes => Kept /\ Onward
  BY WritesKeep DEF GoTo, cluster, pinned
<1>4. CountBefore \/ AttemptFails \/ AttemptSucceeds \/ NoSuccessWithinDeadline \/ OutageWrite => Kept /\ Onward
  BY DEF CountBefore, AttemptFails, AttemptSucceeds, NoSuccessWithinDeadline, OutageWrite, LeaveRto,
         GoTo, cluster, pinned
<1>5. PollDown \/ PollFull \/ RestoreRegion => Kept /\ Onward
  BY DEF PollDown, PollFull, RestoreRegion, GoTo, cluster, pinned, control
<1>6. ProbeRpo("rpo_during", "restore") \/ ProbeRpo("rpo", "record") \/ RecordProbe \/ WriteReport
        => Kept /\ Onward
  BY DEF ProbeRpo, RecordProbe, WriteReport, GoTo, cluster, pinned
<1> HIDE DEF Kept, Onward
<1>7. \/ \E t \in Table : Rebalance(t) \/ Reacquire(t)
      \/ SetLeasePreference \/ VerifyLeaseholder \/ KillRegionNow \/ (Kept /\ Onward)
  BY <1>1, <1>2, <1>3, <1>4, <1>5, <1>6, RunSteps
<1> QED BY <1>7 DEF Kept, Onward

LEMMA NextLease ==
  ASSUME ClusterFact, UpFact, ControlFact, PinFact, LeaseFact, Next
  PROVE  LeaseFact'
<1> DEFINE e == "episodic_events"
           Lost == WhileDown \cup Restored
<1>a. e \in Table /\ \A t \in Table : lease[t] \in Node
  BY TableSet, NodeFacts DEF ClusterFact
<1>b. "kill" \in BeforeKill /\ "pin" \in BeforeKill /\ "verify" \in BeforeKill /\ "pinned" \in BeforeKill
      /\ BeforeKill \cap Lost = {} /\ "raised" \notin Lost \cup BeforeKill /\ "rto" \in Lost
      /\ "restore" \in Lost /\ "wait_full" \in Lost
  BY DEF BeforeKill, WhileDown, Restored
<1> HIDE DEF Lost
<1>1. ASSUME NEW t \in Table, Rebalance(t) PROVE LeaseFact'
  <2>1. PICK n \in up \cap voters : RegionOf[n] = preference[t] /\ lease' = [lease EXCEPT ![t] = n]
    BY <1>1 DEF Rebalance
  <2>2. UNCHANGED <<preference, blips, pc, done, verified, heldAtKill>>
    BY <1>1 DEF Rebalance, control, pinned
  <2>3. lease'[e] = IF t = e THEN n ELSE lease[e]
    BY <1>a, <2>1 DEF ClusterFact
  <2> QED BY <2>1, <2>2, <2>3 DEF LeaseFact
<1>2. ASSUME NEW t \in Table, Reacquire(t) PROVE LeaseFact'
  <2>1. blips' = (IF lease[t] \in up THEN blips - 1 ELSE blips)
        /\ UNCHANGED <<preference, pc, done, verified, heldAtKill>>
    BY <1>2 DEF Reacquire, control, pinned
  <2>2. blips \in Int /\ MaxBlips \in Int /\ blips <= MaxBlips
    BY ResilienceAssumption DEF ClusterFact
  <2>3. blips' = MaxBlips => blips = MaxBlips
    BY <2>1, <2>2
  <2>4. pc \in BeforeKill => blips' # MaxBlips
    BY <1>a, <2>1, <2>2 DEF UpFact
  <2> QED BY <2>1, <2>3, <2>4 DEF LeaseFact
<1>3. CASE SetLeasePreference
  <2>1. UNCHANGED <<blips, lease, verified, heldAtKill>> /\ pc = "pin" /\ done \in {0, 1}
        /\ preference' = [preference EXCEPT ![PinnedTables[done + 1]] = KillRegion]
    BY <1>3 DEF SetLeasePreference, ControlFact, pinned
  <2>2. preference'[e] = KillRegion
    <3>1. CASE done = 0
      BY <1>a, <2>1, <3>1 DEF PinnedTables, ClusterFact
    <3>2. CASE done = 1
      BY <1>a, <2>1, <3>2 DEF PinnedTables, ClusterFact, LeaseFact
    <3> QED BY <2>1, <3>1, <3>2
  <2>3. pc' \in {"pin", "verify"}
    BY <1>3 DEF SetLeasePreference, GoTo
  <2> QED BY <1>b, <2>1, <2>2, <2>3 DEF LeaseFact, Lost
<1>4. CASE VerifyLeaseholder
  <2>1. UNCHANGED <<blips, lease, preference, heldAtKill>> /\ pc = "verify" /\ done \in {0, 1}
        /\ RegionOf[lease[PinnedTables[done + 1]]] = KillRegion
        /\ verified' = verified \cup {PinnedTables[done + 1]}
    BY <1>4 DEF VerifyLeaseholder, ControlFact, cluster
  <2>2. preference[e] = KillRegion
    BY <2>1 DEF LeaseFact
  <2>3. e \in verified' => e \in verified \/ RegionOf[lease[e]] = KillRegion
    BY <2>1
  <2>4. pc' \in {"verify", "pinned"}
    BY <1>4 DEF VerifyLeaseholder, NextTable
  <2> QED BY <1>b, <2>1, <2>2, <2>3, <2>4 DEF LeaseFact, Lost
<1>5. CASE KillRegionNow
  <2>1. pc = "kill" /\ pc' = "rto" /\ heldAtKill' = (lease[e] \in Killed) /\ blips' = blips
    BY <1>5 DEF KillRegionNow, GoTo
  <2>2. e \in verified
    BY <1>a, <2>1 DEF PinFact
  <2>3. blips = MaxBlips => lease[e] \in Killed
    BY <1>a, <1>b, <2>1, <2>2 DEF LeaseFact, Killed
  <2> QED BY <1>b, <2>1, <2>3 DEF LeaseFact, Lost
<1>6. CASE /\ ~KillRegionNow
           /\ UNCHANGED <<verified, heldAtKill, preference, lease, blips>>
           /\ \/ pc' = pc /\ done' = done
              \/ pc' = "pin" /\ done' = 0
              \/ pc' = "verify" /\ pc = "verify"
              \/ pc' \notin {"pin", "verify"}
  <2>1. (pc' \in BeforeKill => pc \in BeforeKill) /\ (pc' \in Lost => pc \in Lost)
    <3>1. RestoreRegion => pc = "restore" /\ pc' = "wait_full"
      BY DEF RestoreRegion, GoTo
    <3> QED BY <1>6, <1>b, <3>1, PhaseSteps DEF Lost
  <2> QED BY <1>6, <2>1 DEF LeaseFact, Lost
<1> HIDE DEF e
<1> QED BY <1>1, <1>2, <1>3, <1>4, <1>5, <1>6, PinKept

----------------------------------------------------------------------------
(* The rows.                                                               *)

LEMMA RowSteps ==
  ASSUME Next
  PROVE  \/ UNCHANGED <<rows, tracked>>
         \/ Writes \/ AttemptFails \/ AttemptSucceeds \/ OutageWrite
<1>1. (\E t \in Table : Rebalance(t) \/ Reacquire(t)) \/ Converge \/ Tick => UNCHANGED <<rows, tracked>>
  BY DEF Rebalance, Reacquire, Converge, Tick
<1>2. Passes => UNCHANGED <<rows, tracked>>
  BY PassesKeep
<1>3. SetLeasePreference \/ VerifyLeaseholder \/ CountBefore \/ KillRegionNow \/ RestoreRegion
        => UNCHANGED <<rows, tracked>>
  BY DEF SetLeasePreference, VerifyLeaseholder, CountBefore, KillRegionNow, RestoreRegion
<1>4. NoSuccessWithinDeadline \/ PollDown \/ PollFull => UNCHANGED <<rows, tracked>>
  BY DEF NoSuccessWithinDeadline, PollDown, PollFull
<1>5. ProbeRpo("rpo_during", "restore") \/ ProbeRpo("rpo", "record") \/ RecordProbe \/ WriteReport
        => UNCHANGED <<rows, tracked>>
  BY DEF ProbeRpo, RecordProbe, WriteReport
<1> QED BY <1>1, <1>2, <1>3, <1>4, <1>5, RunSteps

\* Adding an acknowledged row to both sides keeps them equal.
LEMMA RowsGrow ==
  ASSUME RowsFact, NEW ids \in SUBSET (AllRows \ {Unacknowledged}),
         rows' = rows \cup ids, tracked' = tracked \cup ids
  PROVE  RowsFact'
<1>1. AllRows' = AllRows /\ Unacknowledged' = Unacknowledged
  BY DEF AllRows, AtomicRows, RtoRow, Row, Unacknowledged, OutageRow
<1> QED BY <1>1 DEF RowsFact

LEMMA NextRows ==
  ASSUME ControlFact, RowsFact, Next
  PROVE  RowsFact'
<1>a. AllRows' = AllRows /\ Unacknowledged' = Unacknowledged /\ Unacknowledged \in AllRows
  BY DEF AllRows, AtomicRows, RtoRow, Row, Unacknowledged, OutageRow
<1>1. CASE UNCHANGED <<rows, tracked>>
  BY <1>1, <1>a DEF RowsFact
<1>2. CASE Writes
  BY <1>2, WritesKeep, RowsGrow
<1>3. CASE AttemptFails
  BY <1>3, <1>a DEF AttemptFails, RowsFact
<1>4. CASE AttemptSucceeds
  <2>1. {RtoRow} \in SUBSET (AllRows \ {Unacknowledged})
    BY DEF AllRows, RtoRow, Unacknowledged, Row
  <2> QED BY <1>4, <2>1, RowsGrow DEF AttemptSucceeds
<1>5. CASE OutageWrite
  <2>1. done \in 0 .. ExtraWrites - 1
    BY <1>5, ResilienceAssumption DEF OutageWrite, ControlFact
  <2>2. OutageRow(done) \in AllRows
    BY <2>1 DEF AllRows
  <2>3. OutageRow(done) # Unacknowledged
    BY DEF OutageRow, Unacknowledged, Row
  <2>4. {OutageRow(done)} \in SUBSET (AllRows \ {Unacknowledged})
    BY <2>2, <2>3
  <2> QED BY <1>5, <2>4, RowsGrow DEF OutageWrite
<1> QED BY <1>1, <1>2, <1>3, <1>4, <1>5, RowSteps
----------------------------------------------------------------------------
(* The probes.                                                             *)

\* The moves of a run that no probe makes.
Moves ==
  {<<"seed", "pin">>, <<"pin", "verify">>, <<"verify", "pinned">>, <<"pinned", "before">>,
   <<"before", "freshness">>, <<"kill", "rto">>, <<"outage_writes", "wait_down">>,
   <<"wait_down", "rpo_during">>, <<"restore", "wait_full">>, <<"wait_full", "rpo">>,
   <<"record", "report">>, <<"report", "done">>}
Quiet == UNCHANGED probes /\ (pc' = pc \/ pc' = "raised" \/ <<pc, pc'>> \in Moves)

\* No step is taken once the run is over; a step either makes a probe or
\* leaves the probes alone.
LEMMA ProbeSteps ==
  ASSUME Next
  PROVE  /\ pc \notin {"done", "raised"}
         /\ \/ Writes \/ AttemptSucceeds \/ NoSuccessWithinDeadline
            \/ ProbeRpo("rpo_during", "restore") \/ ProbeRpo("rpo", "record")
            \/ Quiet
<1> DEFINE Alive == pc \notin {"done", "raised"}
<1> USE DEF Quiet
<1>1. (\E t \in Table : Rebalance(t) \/ Reacquire(t)) \/ Converge => Alive /\ Quiet
  BY DEF Rebalance, Reacquire, Converge, Running, results, control
<1>2. Tick => Alive /\ Quiet
  BY BoundOf DEF Tick, results
<1>3. Passes => Alive /\ Quiet
  BY PassesKeep DEF results, GoTo, NextTable, Moves
<1>4. SetLeasePreference \/ VerifyLeaseholder \/ CountBefore \/ KillRegionNow \/ RestoreRegion
        => Alive /\ Quiet
  BY DEF SetLeasePreference, VerifyLeaseholder, CountBefore, KillRegionNow, RestoreRegion, NextTable,
         results, GoTo, Moves
<1>5. AttemptFails \/ OutageWrite \/ PollDown \/ PollFull => Alive /\ Quiet
  BY DEF AttemptFails, OutageWrite, PollDown, PollFull, results, control, GoTo, Moves
<1>6. RecordProbe \/ WriteReport => Alive /\ Quiet
  BY DEF RecordProbe, WriteReport, GoTo, Moves
<1>7. Writes \/ AttemptSucceeds \/ NoSuccessWithinDeadline
      \/ ProbeRpo("rpo_during", "restore") \/ ProbeRpo("rpo", "record") => Alive
  BY WritesKeep DEF AttemptSucceeds, NoSuccessWithinDeadline, ProbeRpo
<1> HIDE DEF Alive, Quiet
<1>8. /\ Alive
      /\ \/ Writes \/ AttemptSucceeds \/ NoSuccessWithinDeadline
         \/ ProbeRpo("rpo_during", "restore") \/ ProbeRpo("rpo", "record")
         \/ Quiet
  BY <1>1, <1>2, <1>3, <1>4, <1>5, <1>6, <1>7, RunSteps
<1> QED BY <1>8 DEF Alive

\* What a probe writes, where it is made and where the run goes on.
LEMMA ProbeMade ==
  ASSUME RowsFact, Next, ~Quiet
  PROVE  \E p \in Probe : \E s \in {"pass", "fail"} :
           /\ probes' = [probes EXCEPT ![p] = s]
           /\ p # "rto" => s = "pass"
           /\ <<p, pc, pc'>> \in
                {<<"freshness", "freshness", "cross_agent">>,
                 <<"cross_agent", "cross_agent", "atomicity">>,
                 <<"atomicity", "atomicity", "kill">>,
                 <<"rto", "rto", "outage_writes">>,
                 <<"rpo_during", "rpo_during", "restore">>,
                 <<"rpo", "rpo", "record">>}
<1> DEFINE Made(p, s, next) == pc = p /\ pc' = next /\ probes' = [probes EXCEPT ![p] = s]
<1>1. Writes => \/ Made("freshness", "pass", "cross_agent")
                \/ Made("cross_agent", "pass", "atomicity")
                \/ Made("atomicity", "pass", "kill")
  BY WritesKeep DEF GoTo
<1>2. AttemptSucceeds => \E s \in {"pass", "fail"} : Made("rto", s, "outage_writes")
  <2>1. \A c : RtoStatus(c) \in {"pass", "fail"}
    BY DEF RtoStatus
  <2> QED BY <2>1 DEF AttemptSucceeds, LeaveRto, GoTo
<1>3. NoSuccessWithinDeadline => Made("rto", "fail", "outage_writes")
  BY DEF NoSuccessWithinDeadline, LeaveRto, GoTo
<1>4. tracked \subseteq rows
  BY DEF RowsFact
<1>5. ProbeRpo("rpo_during", "restore") => Made("rpo_during", "pass", "restore")
  BY <1>4 DEF ProbeRpo, GoTo
<1>6. ProbeRpo("rpo", "record") => Made("rpo", "pass", "record")
  BY <1>4 DEF ProbeRpo, GoTo
<1> HIDE DEF Made
<1>7. \/ Made("freshness", "pass", "cross_agent") \/ Made("cross_agent", "pass", "atomicity")
      \/ Made("atomicity", "pass", "kill") \/ Made("rpo_during", "pass", "restore")
      \/ Made("rpo", "pass", "record")
      \/ \E s \in {"pass", "fail"} : Made("rto", s, "outage_writes")
  BY <1>1, <1>2, <1>3, <1>5, <1>6, ProbeSteps
<1> QED BY <1>7, ProbeSet DEF Made

LEMMA NextProbes ==
  ASSUME RowsFact, ProbesFact, NoFalseAlarm, Next
  PROVE  ProbesFact' /\ NoFalseAlarm'
<1> USE DEF FreshnessMade, CrossAgentMade, AtomicityMade, RtoMade, RpoDuringMade, RpoMade
<1>1. CASE Quiet
  BY <1>1 DEF Quiet, ProbesFact, NoFalseAlarm, Moves
<1>2. CASE ~Quiet
  <2>1. PICK p \in Probe, s \in {"pass", "fail"} :
           /\ probes' = [probes EXCEPT ![p] = s]
           /\ p # "rto" => s = "pass"
           /\ <<p, pc, pc'>> \in
                {<<"freshness", "freshness", "cross_agent">>,
                 <<"cross_agent", "cross_agent", "atomicity">>,
                 <<"atomicity", "atomicity", "kill">>,
                 <<"rto", "rto", "outage_writes">>,
                 <<"rpo_during", "rpo_during", "restore">>,
                 <<"rpo", "rpo", "record">>}
    BY <1>2, ProbeMade
  <2>2. probes \in [Probe -> {"none", "pass", "fail"}]
    BY DEF ProbesFact
  <2>3. /\ probes' \in [Probe -> {"none", "pass", "fail"}] /\ probes'[p] = s
        /\ \A q \in Probe : q # p => probes'[q] = probes[q]
    BY <2>1, <2>2
  <2>4. NoFalseAlarm'
    BY <2>1, <2>3 DEF NoFalseAlarm
  <2>5. ProbesFact'
    BY <2>1, <2>3, ProbeSet DEF ProbesFact
  <2> QED BY <2>4, <2>5
<1> QED BY <1>1, <1>2
\* A read during the outage was served by a quorum of the survivors.
LEMMA NextSurvival ==
  ASSUME ClusterFact, UpFact, RowsFact, ProbesFact, SurvivalFact, Next
  PROVE  SurvivalFact'
<1>1. HasQuorum(Node \ Killed)' <=> HasQuorum(Node \ Killed)
  BY NextCluster DEF HasQuorum, Node, Killed, Range
<1>2. CASE ProbeRpo("rpo_during", "restore")
  <2>1. pc \in WhileDown /\ HasQuorum(up)
    BY <1>2 DEF ProbeRpo, Serves, WhileDown
  <2>2. HasQuorum(Node \ Killed)
    BY <2>1 DEF UpFact
  <2> QED BY <1>1, <2>2 DEF SurvivalFact
<1>3. CASE probes'["rpo_during"] = probes["rpo_during"]
  BY <1>1, <1>3 DEF SurvivalFact
<1>4. Writes => probes'["rpo_during"] = probes["rpo_during"]
  BY WritesKeep, ProbeSet DEF ProbesFact
<1>5. AttemptSucceeds \/ NoSuccessWithinDeadline \/ ProbeRpo("rpo", "record")
        => probes'["rpo_during"] = probes["rpo_during"]
  BY ProbeSet DEF ProbesFact, AttemptSucceeds, NoSuccessWithinDeadline, ProbeRpo
<1> QED BY <1>2, <1>3, <1>4, <1>5, ProbeSteps DEF Quiet

\* A lease that is given up is never counted back.
LEMMA BlipsOnlyFall ==
  ASSUME ClusterFact, Next, blips' = MaxBlips
  PROVE  blips = MaxBlips
<1>1. blips \in 0 .. MaxBlips /\ MaxBlips \in Nat
  BY ResilienceAssumption DEF ClusterFact
<1>2. ASSUME NEW t \in Table, Rebalance(t) \/ Reacquire(t) PROVE blips' = blips \/ blips' = blips - 1
  BY <1>2 DEF Rebalance, Reacquire
<1>3. Converge \/ SetLeasePreference \/ KillRegionNow \/ RestoreRegion => blips' = blips
  BY DEF Converge, SetLeasePreference, KillRegionNow, RestoreRegion
<1> QED BY <1>1, <1>2, <1>3, ClusterSteps DEF cluster

LEMMA HeldChangesAtTheKill ==
  ASSUME Next
  PROVE  KillRegionNow \/ heldAtKill' = heldAtKill
<1>1. SetLeasePreference \/ VerifyLeaseholder => heldAtKill' = heldAtKill
  BY DEF SetLeasePreference, VerifyLeaseholder, pinned
<1>2. (\E t \in Table : Rebalance(t) \/ Reacquire(t)) => heldAtKill' = heldAtKill
  BY DEF Rebalance, Reacquire, pinned
<1> QED BY <1>1, <1>2, PinKept

LEMMA NextTransfer ==
  ASSUME ClusterFact, LeaseFact, LeaseFact', RowsFact, ProbesFact, PassMeansTransfer, Next
  PROVE  PassMeansTransfer'
<1>1. SUFFICES ASSUME probes'["rto"] = "pass", blips' = MaxBlips PROVE heldAtKill'
  BY DEF PassMeansTransfer
<1>2. blips = MaxBlips
  BY <1>1, BlipsOnlyFall
<1>3. CASE KillRegionNow
  <2>1. pc' \in WhileDown
    BY <1>3 DEF KillRegionNow, GoTo, WhileDown
  <2> QED BY <1>1, <2>1 DEF LeaseFact
<1>4. CASE AttemptSucceeds \/ NoSuccessWithinDeadline
  <2>1. pc \in WhileDown /\ heldAtKill' = heldAtKill
    BY <1>4 DEF AttemptSucceeds, NoSuccessWithinDeadline, WhileDown
  <2> QED BY <1>2, <2>1 DEF LeaseFact
<1>5. CASE heldAtKill' = heldAtKill /\ probes'["rto"] = probes["rto"]
  BY <1>1, <1>2, <1>5 DEF PassMeansTransfer
<1>6. Writes => probes'["rto"] = probes["rto"]
  BY WritesKeep, ProbeSet DEF ProbesFact
<1>7. ProbeRpo("rpo_during", "restore") \/ ProbeRpo("rpo", "record") => probes'["rto"] = probes["rto"]
  BY ProbeSet DEF ProbesFact, ProbeRpo
<1> QED BY <1>3, <1>4, <1>5, <1>6, <1>7, ProbeSteps, HeldChangesAtTheKill DEF Quiet

----------------------------------------------------------------------------
(* The node counts.                                                        *)

LEMMA LivenessSteps ==
  ASSUME Next
  PROVE  CountBefore \/ PollDown \/ PollFull \/ UNCHANGED liveness
<1>1. (\E t \in Table : Rebalance(t) \/ Reacquire(t)) \/ Converge \/ Tick => UNCHANGED liveness
  BY DEF Rebalance, Reacquire, Converge, Tick, results
<1>2. Passes \/ Writes => UNCHANGED liveness
  BY PassesKeep, WritesKeep DEF results
<1>3. SetLeasePreference \/ VerifyLeaseholder \/ KillRegionNow \/ RestoreRegion => UNCHANGED liveness
  BY DEF SetLeasePreference, VerifyLeaseholder, KillRegionNow, RestoreRegion, results
<1>4. AttemptFails \/ AttemptSucceeds \/ NoSuccessWithinDeadline \/ OutageWrite => UNCHANGED liveness
  BY DEF AttemptFails, AttemptSucceeds, NoSuccessWithinDeadline, OutageWrite, results
<1>5. ProbeRpo("rpo_during", "restore") \/ ProbeRpo("rpo", "record") \/ RecordProbe \/ WriteReport
        => UNCHANGED liveness
  BY DEF ProbeRpo, RecordProbe, WriteReport
<1> QED BY <1>1, <1>2, <1>3, <1>4, <1>5, RunSteps

\* Only the count before the kill leads to the steps that rely on it.
LEMMA CountedSteps ==
  ASSUME RowsFact, Next, pc' \in Counted, pc \notin Counted
  PROVE  CountBefore
<1> USE DEF Counted, FreshnessMade, CrossAgentMade, AtomicityMade, RtoMade, RpoDuringMade, RpoMade
<1>1. pc = "before"
  <2>1. CASE Quiet
    BY <2>1 DEF Quiet, Moves
  <2>2. CASE ~Quiet
    BY <2>2, ProbeMade
  <2> QED BY <2>1, <2>2
<1>2. (\E t \in Table : Rebalance(t) \/ Reacquire(t)) \/ Converge \/ Tick => pc' = pc
  BY DEF Rebalance, Reacquire, Converge, Tick, control
<1>3. ~Passes
  BY <1>1, PassesKeep DEF GoTo
<1>4. ~Writes
  BY <1>1, WritesKeep
<1>5. ~(SetLeasePreference \/ VerifyLeaseholder \/ KillRegionNow \/ RestoreRegion)
  BY <1>1 DEF SetLeasePreference, VerifyLeaseholder, KillRegionNow, RestoreRegion
<1>6. ~(AttemptFails \/ AttemptSucceeds \/ NoSuccessWithinDeadline \/ OutageWrite \/ PollDown \/ PollFull)
  BY <1>1 DEF AttemptFails, AttemptSucceeds, NoSuccessWithinDeadline, OutageWrite, PollDown, PollFull
<1>7. ~(ProbeRpo("rpo_during", "restore") \/ ProbeRpo("rpo", "record") \/ RecordProbe \/ WriteReport)
  BY <1>1 DEF ProbeRpo, RecordProbe, WriteReport
<1> HIDE DEF Counted, FreshnessMade, CrossAgentMade, AtomicityMade, RtoMade, RpoDuringMade, RpoMade
<1> QED BY <1>2, <1>3, <1>4, <1>5, <1>6, <1>7, RunSteps

\* A count that is at least that of all nodes is that of all nodes.
LEMMA SnapshotFacts ==
  ASSUME ClusterFact, NEW live \in Snapshots \cup {{}}
  PROVE  /\ live \subseteq Node /\ Cardinality(live) \in Count
         /\ FullyLive(live) => Cardinality(live) = Cardinality(Node)
<1>1. live \in SUBSET Node
  BY DEF Snapshots, ClusterFact
<1>2. Cardinality(live) \in Count /\ Cardinality(Node) \in Nat
  BY <1>1, NodeCounts
<1> QED BY <1>1, <1>2 DEF FullyLive, Count

LEMMA NextLiveness ==
  ASSUME ClusterFact, UpFact, ControlFact, RowsFact, LivenessFact, Next
  PROVE  LivenessFact'
<1> DEFINE All == Cardinality(Node)
           Left == Cardinality(Node \ Killed)
           Known == [before : Count, during : Count, after : Count,
                     regionDown : BOOLEAN, recovered : BOOLEAN]
<1>a. liveness \in Known
  BY DEF LivenessFact
<1>b. /\ Counted' = Counted
      /\ LivenessFact' <=> /\ liveness' \in Known
                           /\ pc' \in Counted => liveness'.before = All
                           /\ liveness'.regionDown => liveness'.during = Left
                           /\ liveness'.recovered => liveness'.after = All
  BY DEF LivenessFact, Count, Node, Killed, Range
<1>c. /\ pc \in Counted => liveness.before = All
      /\ liveness.regionDown => liveness.during = Left
      /\ liveness.recovered => liveness.after = All
  BY DEF LivenessFact
<1> HIDE DEF All, Left
<1>1. CASE CountBefore
  <2>1. settled /\ up = Node
    BY <1>1 DEF CountBefore, UpFact, BeforeKill
  <2>2. liveness' = [liveness EXCEPT !.before = All]
    BY <1>1, <2>1 DEF CountBefore, Snapshots, All
  <2>3. All \in Count
    BY NodeCounts DEF All
  <2> QED BY <1>a, <1>b, <1>c, <2>2, <2>3
<1>2. CASE PollDown
  <2>1. PICK live \in Snapshots \cup {{}} :
           liveness' = [liveness EXCEPT !.during = Cardinality(live),
                                        !.regionDown = RegionIsDown(live)]
    BY <1>2 DEF PollDown
  <2>2. Cardinality(live) \in Count
    BY SnapshotFacts
  <2>3. RegionIsDown(live) \in BOOLEAN /\ (RegionIsDown(live) => Cardinality(live) = Left)
    BY DEF RegionIsDown, Left
  <2>4. pc \in Counted
    BY <1>2 DEF PollDown, Counted, FreshnessMade, CrossAgentMade, AtomicityMade, RtoMade
  <2> QED BY <1>a, <1>b, <1>c, <2>1, <2>2, <2>3, <2>4
<1>3. CASE PollFull
  <2>1. PICK live \in Snapshots \cup {{}} :
           liveness' = [liveness EXCEPT !.after = Cardinality(live),
                                        !.recovered = FullyLive(live)]
    BY <1>3 DEF PollFull
  <2>2. Cardinality(live) \in Count /\ (FullyLive(live) => Cardinality(live) = All)
    BY SnapshotFacts DEF All
  <2>3. FullyLive(live) \in BOOLEAN
    BY DEF FullyLive
  <2>4. pc \in Counted
    BY <1>3 DEF PollFull, Counted, FreshnessMade, CrossAgentMade, AtomicityMade, RtoMade, RpoDuringMade
  <2> QED BY <1>a, <1>b, <1>c, <2>1, <2>2, <2>3, <2>4
<1>4. CASE UNCHANGED liveness /\ ~CountBefore
  BY <1>4, <1>a, <1>b, <1>c, CountedSteps
<1> QED BY <1>1, <1>2, <1>3, <1>4, LivenessSteps
----------------------------------------------------------------------------
(* The stored probes and the report.                                       *)

Unrecorded == BeforeKill \cup WhileDown \cup {"wait_full", "rpo"}

\* Nothing but record_probe stores a row, and the probes are final by then.
LEMMA StoredSteps ==
  ASSUME Next
  PROVE  \/ RecordProbe
         \/ /\ UNCHANGED stored
            /\ pc' \in Unrecorded => pc \in Unrecorded
            /\ pc' = "record" => \/ pc = "record" /\ done' = done /\ UNCHANGED probes
                                 \/ pc = "rpo" /\ done' = 0
            /\ pc' \in {"report", "done"} => pc = "report" /\ UNCHANGED probes
<1> DEFINE Kept == /\ UNCHANGED stored
                   /\ pc' \in Unrecorded => pc \in Unrecorded
                   /\ pc' = "record" => \/ pc = "record" /\ done' = done /\ UNCHANGED probes
                                        \/ pc = "rpo" /\ done' = 0
                   /\ pc' \in {"report", "done"} => pc = "report" /\ UNCHANGED probes
<1> USE DEF Unrecorded, BeforeKill, WhileDown
<1>1. (\E t \in Table : Rebalance(t) \/ Reacquire(t)) \/ Converge => Kept
  BY DEF Rebalance, Reacquire, Converge, Running, results, control
<1>2. Tick => Kept
  BY BoundOf DEF Tick, results
<1>3. Passes => Kept
  BY PassesKeep DEF results, GoTo, NextTable
<1>4. Writes => Kept
  BY WritesKeep DEF GoTo
<1>5. SetLeasePreference \/ VerifyLeaseholder \/ CountBefore \/ KillRegionNow \/ RestoreRegion => Kept
  BY DEF SetLeasePreference, VerifyLeaseholder, CountBefore, KillRegionNow, RestoreRegion, NextTable,
         results, GoTo
<1>6. AttemptFails \/ AttemptSucceeds \/ NoSuccessWithinDeadline \/ OutageWrite => Kept
  BY DEF AttemptFails, AttemptSucceeds, NoSuccessWithinDeadline, OutageWrite, LeaveRto, results, GoTo
<1>7. PollDown \/ PollFull => Kept
  BY DEF PollDown, PollFull, control, GoTo
<1>8. ProbeRpo("rpo_during", "restore") \/ ProbeRpo("rpo", "record") \/ WriteReport => Kept
  BY DEF ProbeRpo, WriteReport, GoTo
<1> HIDE DEF Kept
<1>9. RecordProbe \/ Kept
  BY <1>1, <1>2, <1>3, <1>4, <1>5, <1>6, <1>7, <1>8, RunSteps
<1> QED BY <1>9 DEF Kept

LEMMA NextStored ==
  ASSUME ControlFact, ProbesFact, StoredFact, Next
  PROVE  StoredFact'
<1> DEFINE Record == [type : {ProbeType(p) : p \in Probe}, status : {"pass", "fail"}]
<1>a. stored \in Seq(Record) /\ Record' = Record /\ Len(ProbeOrder) = 6
  BY DEF StoredFact, Probe, ProbeOrder, ProbeType, Range
<1>b. StoredFact' <=>
        /\ stored' \in Seq(Record)
        /\ pc' \in Unrecorded => stored' = <<>>
        /\ pc' = "record" => Len(stored') = done'
        /\ pc' \in {"report", "done"} => Len(stored') = 6
        /\ pc' \in {"record", "report", "done"} =>
             \A i \in DOMAIN stored' : stored'[i].status = probes'[ProbeOrder[i]]
  BY <1>a DEF StoredFact, Unrecorded, BeforeKill, WhileDown, Probe, ProbeType, ProbeOrder, Range
<1>c. /\ pc \in Unrecorded => stored = <<>>
      /\ pc = "record" => Len(stored) = done
      /\ pc \in {"report", "done"} => Len(stored) = 6
      /\ pc \in {"record", "report", "done"} =>
           \A i \in DOMAIN stored : stored[i].status = probes[ProbeOrder[i]]
  BY <1>a DEF StoredFact, Unrecorded
<1>1. CASE RecordProbe
  <2> DEFINE p == ProbeOrder[done + 1]
             r == [type |-> ProbeType(p), status |-> probes[p]]
  <2>1. pc = "record" /\ done \in 0 .. 5 /\ UNCHANGED probes /\ stored' = Append(stored, r)
    BY <1>1 DEF RecordProbe, ControlFact
  <2>2. p \in Probe
    BY <2>1, ProbeSet DEF ProbeOrder
  <2>3. \A q \in Probe : probes[q] \in {"pass", "fail"}
    BY <2>1, ProbeSet DEF ProbesFact, FreshnessMade, CrossAgentMade, AtomicityMade, RtoMade, RpoDuringMade,
                         RpoMade
  <2>4. r \in Record /\ r.status = probes[p]
    BY <2>2, <2>3
  <2> HIDE DEF r, Record
  <2>5. /\ stored' \in Seq(Record) /\ Len(stored') = done + 1
        /\ \A i \in 1 .. done + 1 : stored'[i] = IF i = done + 1 THEN r ELSE stored[i]
    BY <1>a, <1>c, <2>1, <2>4
  <2>6. \A i \in DOMAIN stored' : stored'[i].status = probes'[ProbeOrder[i]]
    BY <1>a, <1>c, <2>1, <2>4, <2>5
  <2>7. \/ pc' = "record" /\ done' = done + 1
        \/ pc' = "report" /\ done = 5
    BY <1>1, <1>a, <2>1 DEF RecordProbe, GoTo
  <2>8. pc' \notin Unrecorded
    BY <2>7 DEF Unrecorded, BeforeKill, WhileDown
  <2> QED BY <1>b, <2>5, <2>6, <2>7, <2>8
<1>2. CASE ~RecordProbe
  <2> HIDE DEF Record
  <2>1. "rpo" \in Unrecorded
    BY DEF Unrecorded
  <2> QED BY <1>2, <1>a, <1>b, <1>c, <2>1, StoredSteps
<1> QED BY <1>1, <1>2

LEMMA NextReport ==
  ASSUME ReportFact, Next
  PROVE  ReportFact'
<1>1. report = Null
  BY ProbeSteps DEF ReportFact
<1>2. CASE WriteReport
  <2>1. report' = [pass |-> OverallPass] /\ UNCHANGED probes /\ pc' = "done"
    BY <1>2 DEF WriteReport, GoTo
  <2>2. OverallPass' <=> OverallPass
    BY <2>1 DEF OverallPass, FailedProbes, Probe, ProbeOrder, Range
  <2>3. OverallPass \in BOOLEAN
    BY DEF OverallPass
  <2>4. report' \in [pass : BOOLEAN] /\ (report'.pass <=> OverallPass')
    BY <2>1, <2>2, <2>3
  <2> QED BY <2>1, <2>4 DEF ReportFact
<1>3. CASE UNCHANGED report
  BY <1>1, <1>3 DEF ReportFact
<1>4. (\E t \in Table : Rebalance(t) \/ Reacquire(t)) \/ Converge \/ Tick => UNCHANGED report
  BY DEF Rebalance, Reacquire, Converge, Tick, results
<1>5. Passes \/ Writes => UNCHANGED report
  BY PassesKeep, WritesKeep DEF results
<1>6. SetLeasePreference \/ VerifyLeaseholder \/ CountBefore \/ KillRegionNow \/ RestoreRegion
        => UNCHANGED report
  BY DEF SetLeasePreference, VerifyLeaseholder, CountBefore, KillRegionNow, RestoreRegion, results
<1>7. AttemptFails \/ AttemptSucceeds \/ NoSuccessWithinDeadline \/ OutageWrite \/ PollDown \/ PollFull
        => UNCHANGED report
  BY DEF AttemptFails, AttemptSucceeds, NoSuccessWithinDeadline, OutageWrite, PollDown, PollFull, results
<1>8. ProbeRpo("rpo_during", "restore") \/ ProbeRpo("rpo", "record") \/ RecordProbe => UNCHANGED report
  BY DEF ProbeRpo, RecordProbe
<1> QED BY <1>2, <1>3, <1>4, <1>5, <1>6, <1>7, <1>8, RunSteps

----------------------------------------------------------------------------
(* The invariant.                                                          *)

LEMMA InitRunInv == Init => RunInv
<1> SUFFICES ASSUME Init PROVE RunInv
  OBVIOUS
<1> USE DEF Init
<1>1. ClusterFact
  BY NodeFacts, ResilienceAssumption DEF ClusterFact
<1>2. UpFact
  BY DEF UpFact, BeforeKill, WhileDown, Restored
<1>3. ControlFact
  BY BoundOf DEF ControlFact, BeforeKill
<1>4. PinFact
  BY DEF PinFact
<1>5. LeaseFact
  BY DEF LeaseFact, WhileDown, Restored
<1>6. RowsFact
  BY DEF RowsFact
<1>7. ProbesFact /\ NoFalseAlarm /\ SurvivalFact /\ PassMeansTransfer
  BY ProbeSet DEF ProbesFact, NoFalseAlarm, SurvivalFact, PassMeansTransfer, FreshnessMade, CrossAgentMade,
                  AtomicityMade, RtoMade, RpoDuringMade, RpoMade
<1>8. LivenessFact
  <2>1. 0 \in Count
    BY NodeCounts DEF Count
  <2>2. pc \notin Counted
    BY DEF Counted, FreshnessMade, CrossAgentMade, AtomicityMade, RtoMade, RpoDuringMade, RpoMade
  <2> QED BY <2>1, <2>2 DEF LivenessFact
<1>9. StoredFact /\ ReportFact
  BY DEF StoredFact, ReportFact
<1> QED BY <1>1, <1>2, <1>3, <1>4, <1>5, <1>6, <1>7, <1>8, <1>9 DEF RunInv

LEMMA RunInvStutters ==
  ASSUME RunInv, UNCHANGED vars
  PROVE  RunInv'
<1> USE DEF vars, cluster, control, pinned, results
<1>1. ClusterFact' /\ UpFact' /\ ControlFact'
  BY DEF RunInv, ClusterFact, UpFact, ControlFact, Bound
<1>2. PinFact' /\ LeaseFact' /\ RowsFact'
  BY DEF RunInv, PinFact, LeaseFact, RowsFact
<1>3. ProbesFact' /\ NoFalseAlarm' /\ SurvivalFact' /\ PassMeansTransfer'
  BY DEF RunInv, ProbesFact, NoFalseAlarm, SurvivalFact, PassMeansTransfer, HasQuorum
<1>4. LivenessFact' /\ StoredFact' /\ ReportFact'
  BY DEF RunInv, LivenessFact, StoredFact, ReportFact, OverallPass, FailedProbes
<1> QED BY <1>1, <1>2, <1>3, <1>4 DEF RunInv

LEMMA NextRunInv == RunInv /\ [Next]_vars => RunInv'
<1>1. ASSUME RunInv, Next PROVE RunInv'
  <2>1. ClusterFact' /\ UpFact' /\ ControlFact'
    BY <1>1, NextCluster, NextUp, NextControl DEF RunInv
  <2>2. PinFact' /\ LeaseFact' /\ RowsFact'
    BY <1>1, NextPin, NextLease, NextRows DEF RunInv
  <2>3. ProbesFact' /\ NoFalseAlarm' /\ SurvivalFact'
    BY <1>1, NextProbes, NextSurvival DEF RunInv
  <2>4. PassMeansTransfer'
    BY <1>1, <2>2, NextTransfer DEF RunInv
  <2>5. LivenessFact' /\ StoredFact' /\ ReportFact'
    BY <1>1, NextLiveness, NextStored, NextReport DEF RunInv
  <2> QED BY <2>1, <2>2, <2>3, <2>4, <2>5 DEF RunInv
<1> QED BY <1>1, RunInvStutters

\* The facts above hold at every moment of a run of harness.run, whatever the
\* cluster does meanwhile.
THEOREM RunInvariant == Spec => []RunInv
  BY InitRunInv, NextRunInv, PTL DEF Spec
----------------------------------------------------------------------------
(* What a report proves.                                                   *)

\* A report that passes (overall_from_probes) can only come from a cluster
\* whose voters keep a majority without the killed region, for every topology,
\* every placement of the voters and every movement of the leases.
THEOREM PassesProveSurvival == Spec => []PassProvesSurvival
<1>1. RunInv => PassProvesSurvival
  <2>1. ASSUME RunInv, report # Null, report.pass PROVE probes["rpo_during"] = "pass"
    BY <2>1, ProbeSet DEF RunInv, ReportFact, OverallPass, FailedProbes
  <2> QED BY <2>1 DEF RunInv, SurvivalFact, PassProvesSurvival
<1> QED BY <1>1, RunInvariant, PTL

\* The RPO probes read exactly the rows that were acknowledged (RpoTracker):
\* once writes work again none is missing, and neither the row of an attempt
\* whose commit was never acknowledged nor anything else the cluster does
\* makes a probe other than the timed one fail.
THEOREM RpoReadsWhatWasAcknowledged == Spec => []RpoIsExact
<1>1. RunInv => RpoIsExact
  BY DEF RunInv, RowsFact, RpoIsExact, EveryAcknowledgedRowTracked
<1> QED BY <1>1, RunInvariant, PTL

\* A passing RTO timed a failover (pin_and_verify, probe_rto): unless a live
\* leaseholder dropped its lease, the killed region held the lease of the
\* probed table when it was killed.
THEOREM PassingRtoTimedATransfer == Spec => []PassMeansTransfer
<1>1. RunInv => PassMeansTransfer
  BY DEF RunInv
<1> QED BY <1>1, RunInvariant, PTL

\* A run ends its report with the region restored, one stored row for each
\* probe, a verdict that is theirs, and node counts that are all nodes, the
\* survivors and all nodes whenever the region was seen down and back
\* (record_probe, overall_from_probes, wait_for_region_down).
THEOREM ReportsAreSound == Spec => []ReportIsSound
<1>1. RunInv => TypeOK
  <2>1. ASSUME RunInv PROVE tracked \subseteq AllRows
    BY <2>1 DEF RunInv, RowsFact
  <2>2. RunInv => pc \in {"seed", "pin", "verify", "pinned", "before", "freshness",
             "cross_agent", "atomicity", "kill", "rto", "outage_writes",
             "wait_down", "rpo_during", "restore", "wait_full", "rpo",
             "record", "report", "done", "raised"}
    BY DEF RunInv, ControlFact, BeforeKill, WhileDown, Restored
  <2> QED BY <2>1, <2>2 DEF RunInv, TypeOK, ClusterFact, ControlFact, PinFact, RowsFact, ProbesFact,
                            LivenessFact, StoredFact, ReportFact
<1>2. RunInv => LivenessStory
  <2>1. "done" \in Counted
    BY DEF Counted, FreshnessMade, CrossAgentMade, AtomicityMade, RtoMade, RpoDuringMade, RpoMade
  <2> QED BY <2>1 DEF RunInv, ReportFact, LivenessFact, LivenessStory
<1>3. RunInv => StoredProofAgrees
  <2> SUFFICES ASSUME RunInv, report # Null
               PROVE  /\ Len(stored) = Len(ProbeOrder)
                      /\ report.pass <=> \A i \in DOMAIN stored : stored[i].status = "pass"
                      /\ up = Node
    BY DEF StoredProofAgrees
  <2>1. pc = "done" /\ (report.pass <=> OverallPass)
    BY DEF RunInv, ReportFact
  <2>2. up = Node
    BY <2>1 DEF RunInv, UpFact, Restored
  <2>3. /\ Len(stored) = Len(ProbeOrder)
        /\ \A i \in DOMAIN stored : stored[i].status = probes[ProbeOrder[i]]
        /\ DOMAIN stored = 1 .. Len(stored)
    BY <2>1 DEF RunInv, StoredFact
  <2>4. DOMAIN stored = 1 .. 6
    BY <2>3 DEF ProbeOrder
  <2>5. OverallPass <=> \A i \in 1 .. 6 : probes[ProbeOrder[i]] = "pass"
    BY ProbeSet DEF OverallPass, FailedProbes, ProbeOrder
  <2> QED BY <2>1, <2>2, <2>3, <2>4, <2>5
<1> QED BY <1>1, <1>2, <1>3, RunInvariant, PTL DEF ReportIsSound
=============================================================================
