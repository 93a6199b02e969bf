------------------------- MODULE ResilienceHarness -------------------------
(***************************************************************************)
(* resilience/postmortem_resilience: the harness that kills a region of    *)
(* the cluster, measures how long writes stay unavailable (RTO), checks    *)
(* that no acknowledged row is lost (RPO), brings the region back and      *)
(* writes the report.                                                      *)
(*                                                                         *)
(* The harness is one thread; what moves beside it is the cluster: leases  *)
(* are rebalanced and re-acquired, the gossiped node liveness is noisy     *)
(* after a kill, time passes, and any call may raise.  CockroachDB itself  *)
(* is external: a range serves while a majority of its voters and the      *)
(* holder of its lease are up, and a committed row is never lost.  The     *)
(* voters are placed as SURVIVE REGION FAILURE places them or not: whether *)
(* the survival goal was really applied is what the harness is to find out.*)
(***************************************************************************)
EXTENDS Integers, Sequences, FiniteSets, SequencesExt

CONSTANTS
  Topology,      \* TOPOLOGY: the nodes, in order
  RegionOf,      \* the region of each node
  KillRegion,    \* cfg.kill_region
  Placements,    \* the sets of nodes the voters of a range may be placed on
  MaxBlips,      \* bound: how often a live leaseholder loses its lease
  PinTimeout,    \* bounds of the waits, in ticks
  TargetRto,
  RtoDeadline,
  DownTimeout,
  FullTimeout,
  ExtraWrites,   \* cfg.extra_writes_during_outage
  Null

Node == Range(Topology)
Region == {RegionOf[n] : n \in Node}
Control == Topology[1]

\* PINNED_TABLES, in the order they are pinned and verified.
PinnedTables == <<"episodic_events", "remediation_actions">>
Table == Range(PinnedTables)

\* The probes, in the order they are stored, and the type each is stored as.
ProbeOrder == <<"freshness", "cross_agent", "atomicity", "rto", "rpo_during", "rpo">>
Probe == Range(ProbeOrder)
ProbeType(p) == IF p = "rpo_during" THEN "rpo" ELSE p

ASSUME ResilienceAssumption ==
  /\ Topology \in Seq(Node)
  /\ KillRegion \in Region \ {RegionOf[Control]}
  /\ Placements \subseteq SUBSET Node
  /\ \A v \in Placements : Control \in v
  /\ {MaxBlips, PinTimeout, TargetRto, RtoDeadline, DownTimeout, FullTimeout,
      ExtraWrites} \subseteq Nat

VARIABLES
  voters,      \* the nodes that hold a voting replica of the probed ranges
  up,          \* the nodes whose process runs
  lease,       \* the node that holds each table's lease
  preference,  \* the region each table's zone configuration prefers
  settled,     \* does gossip report the liveness the nodes really have?
  blips,       \* how many live leaseholders may still lose their lease
  rows,        \* the committed rows of this run
  pc,          \* the step of ResilienceHarness.run
  clock,       \* ticks since the wait in progress began
  done,        \* how many turns of the step's loop are over
  verified,    \* the tables whose lease was seen in the kill region
  leaseholder, \* the node the first RTO attempt is aimed at
  heldAtKill,  \* history: did the kill region hold the probed table's lease?
  failed,      \* did an attempt against the killed region fail?
  tracked,     \* RpoTracker.rows
  probes,      \* the status of each probe
  liveness,    \* node_liveness of the report
  stored,      \* the rows of eval_probes
  report       \* report.overall, once the run has one

cluster == <<voters, up, lease, preference, settled, blips>>
control == <<pc, clock, done>>
pinned == <<verified, leaseholder, heldAtKill>>
results == <<failed, probes, liveness, stored, report>>
vars == <<cluster, control, pinned, results, rows, tracked>>

Row(table, id) == <<table, id, 0>>
RtoRow == Row("episodic_events", "rto")
Unacknowledged == Row("episodic_events", "rto-unacknowledged")
OutageRow(k) == <<"episodic_events", "outage", k>>
AtomicRows == {Row(t, "atomicity") : t \in Table}
TablesOf(ids) == {id[1] : id \in ids}

NodesInRegion(region) == SelectSeq(Topology, LAMBDA n : RegionOf[n] = region)
Killed == {n \in Node : RegionOf[n] = KillRegion}
ThirdRegionNode ==
  LET third == SelectSeq(Topology,
                 LAMBDA n : RegionOf[n] \notin {RegionOf[Control], KillRegion})
  IN  IF third = <<>> THEN Control ELSE third[1]

(***************************************************************************)
(* The cluster.                                                            *)
(***************************************************************************)

HasQuorum(nodes) == 2 * Cardinality(nodes \cap voters) > Cardinality(voters)

\* A statement sent to a node is served when the node is up and the ranges it
\* touches have a quorum and a live leaseholder.  The leases of the tables that
\* are not pinned are not followed.
Serves(node, tables) ==
  /\ node \in up
  /\ HasQuorum(up)
  /\ \A t \in tables : lease[t] \in up

Init ==
  /\ voters \in Placements
  /\ up = Node
  /\ lease = [t \in Table |-> Control]
  /\ preference = [t \in Table |-> RegionOf[Control]]
  /\ settled = TRUE
  /\ blips = MaxBlips
  /\ rows = {}
  /\ pc = "seed"
  /\ clock = 0
  /\ done = 0
  /\ verified = {}
  /\ leaseholder = Null
  /\ heldAtKill = FALSE
  /\ failed = FALSE
  /\ tracked = {}
  /\ probes = [p \in Probe |-> "none"]
  /\ liveness = [before |-> 0, during |-> 0, after |-> 0,
                 regionDown |-> FALSE, recovered |-> FALSE]
  /\ stored = <<>>
  /\ report = Null

\* The cluster is followed as long as the run goes on.
Running == pc \notin {"done", "raised"}

\* The replicate queue moves a lease towards the preferred region.
Rebalance(t) ==
  /\ Running
  /\ HasQuorum(up)
  /\ lease[t] \in up
  /\ RegionOf[lease[t]] # preference[t]
  /\ \E n \in up \cap voters :
       /\ RegionOf[n] = preference[t]
       /\ lease' = [lease EXCEPT ![t] = n]
  /\ UNCHANGED <<voters, up, preference, settled, blips, control, pinned,
                 results, rows, tracked>>

\* Another voter takes over the lease of a dead leaseholder, or of a live one
\* that let its liveness record expire.
Reacquire(t) ==
  /\ Running
  /\ HasQuorum(up)
  /\ lease[t] \notin up \/ blips > 0
  /\ blips' = IF lease[t] \in up THEN blips - 1 ELSE blips
  /\ \E n \in (up \cap voters) \ {lease[t]} : lease' = [lease EXCEPT ![t] = n]
  /\ UNCHANGED <<voters, up, preference, settled, control, pinned, results,
                 rows, tracked>>

\* Gossip converges on the liveness the nodes have.
Converge ==
  /\ Running
  /\ ~settled
  /\ settled' = TRUE
  /\ UNCHANGED <<voters, up, lease, preference, blips, control, pinned,
                 results, rows, tracked>>

\* Every wait of the harness is bounded by a time since it began.
Bound ==
  [verify |-> PinTimeout, rto |-> RtoDeadline,
   wait_down |-> DownTimeout, wait_full |-> FullTimeout]

Tick ==
  /\ pc \in DOMAIN Bound
  /\ clock < Bound[pc]
  /\ clock' = clock + 1
  /\ UNCHANGED <<cluster, pc, done, pinned, results, rows, tracked>>

\* What `cockroach node status` may list as live: the truth once gossip has
\* converged, anything before.
Snapshots == IF settled THEN {up} ELSE SUBSET Node

(***************************************************************************)
(* The harness, from the seed to the kill.                                 *)
(***************************************************************************)

GoTo(step) == pc' = step /\ done' = 0 /\ clock' = 0

Seed ==
  /\ pc = "seed"
  /\ Serves(Control, {})
  /\ GoTo("pin")
  /\ UNCHANGED <<cluster, pinned, results, rows, tracked>>

SetLeasePreference ==
  /\ pc = "pin"
  /\ Control \in up
  /\ preference' = [preference EXCEPT ![PinnedTables[done + 1]] = KillRegion]
  /\ IF done + 1 < Len(PinnedTables)
       THEN done' = done + 1 /\ UNCHANGED <<pc, clock>>
       ELSE GoTo("verify")
  /\ UNCHANGED <<voters, up, lease, settled, blips, pinned, results, rows, tracked>>

\* The wait on one table is over; the next one starts a wait of its own.
NextTable ==
  /\ clock' = 0
  /\ IF done + 1 < Len(PinnedTables)
       THEN done' = done + 1 /\ pc' = pc
       ELSE done' = 0 /\ pc' = "pinned"

\* Mutant: any node of the region will do, wherever the lease is.
VerifyUnseen ==
  /\ pc = "verify"
  /\ clock < PinTimeout
  /\ verified' = verified \cup {PinnedTables[done + 1]}
  /\ leaseholder' = NodesInRegion(KillRegion)[1]
  /\ NextTable
  /\ UNCHANGED <<cluster, heldAtKill, results, rows, tracked>>

\* A poll of SHOW RANGES that finds the table's lease in the kill region; a
\* table is one range here, where the code waits for all of its ranges.
\* What it saw of episodic_events is the node the RTO probe aims at.
VerifyLeaseholder ==
  /\ pc = "verify"
  /\ clock < PinTimeout
  /\ LET t == PinnedTables[done + 1] IN
       /\ RegionOf[lease[t]] = KillRegion
       /\ verified' = verified \cup {t}
       /\ leaseholder' = IF t = "episodic_events" THEN lease[t] ELSE leaseholder
  /\ NextTable
  /\ UNCHANGED <<cluster, heldAtKill, results, rows, tracked>>

VerifyTimesOut ==
  /\ pc = "verify"
  /\ clock >= PinTimeout
  /\ NextTable
  /\ UNCHANGED <<cluster, pinned, results, rows, tracked>>

\* pin_and_verify raises unless every table was verified; the node the
\* sampled locality names must lie in the kill region.
PinVerified ==
  /\ verified = Table
  /\ leaseholder \in Killed

CheckPin ==
  /\ pc = "pinned"
  /\ GoTo(IF PinVerified THEN "before" ELSE "raised")
  /\ UNCHANGED <<cluster, pinned, results, rows, tracked>>

CountBefore ==
  /\ pc = "before"
  /\ \E live \in Snapshots :
       liveness' = [liveness EXCEPT !.before = Cardinality(live)]
  /\ GoTo("freshness")
  /\ UNCHANGED <<cluster, pinned, failed, probes, stored, report, rows, tracked>>

\* A probe that inserts rows through one node, tracks them, and reads them
\* back through another.
WriteAndRead(p, ids, writer, reader, next) ==
  /\ pc = p
  /\ Serves(writer, TablesOf(ids)) /\ Serves(reader, TablesOf(ids))
  /\ rows' = rows \cup ids
  /\ tracked' = tracked \cup ids
  /\ probes' = [probes EXCEPT ![p] = IF ids \subseteq rows' THEN "pass" ELSE "fail"]
  /\ GoTo(next)
  /\ UNCHANGED <<cluster, pinned, failed, liveness, stored, report>>

ProbeFreshness ==
  WriteAndRead("freshness", {Row("episodic_events", "freshness")},
               Control, ThirdRegionNode, "cross_agent")

ProbeCrossAgent ==
  WriteAndRead("cross_agent", {Row("episodic_events", "cross_agent")},
               NodesInRegion(KillRegion)[1], Control, "atomicity")

\* The commit path writes one row to each table.  The abort path runs in a
\* savepoint of the transaction the reads opened; the rejected second insert
\* rolls back to it, and closing the connection rolls back the rest.
ProbeAtomicity ==
  WriteAndRead("atomicity", AtomicRows, Control, Control, "kill")

\* Mutant: only the region's first node is killed.
KillOneNode ==
  /\ pc = "kill"
  /\ up' = up \ {NodesInRegion(KillRegion)[1]}
  /\ settled' = FALSE
  /\ heldAtKill' = (lease["episodic_events"] \in Killed)
  /\ GoTo("rto")
  /\ UNCHANGED <<voters, lease, preference, blips, verified, leaseholder,
                 results, rows, tracked>>

KillRegionNow ==
  /\ pc = "kill"
  /\ up' = up \ Killed
  /\ settled' = FALSE
  /\ heldAtKill' = (lease["episodic_events"] \in Killed)
  /\ GoTo("rto")
  /\ UNCHANGED <<voters, lease, preference, blips, verified, leaseholder,
                 results, rows, tracked>>

(***************************************************************************)
(* The outage.                                                             *)
(***************************************************************************)

\* ordered_nodes of probe_rto, a permutation of Topology; the attempts cycle
\* through it.
OrderedNodes ==
  <<leaseholder>> \o SelectSeq(Topology, LAMBDA n : n # leaseholder)
Candidate == OrderedNodes[1 + (done % Len(Topology))]

\* Mutant: the attempts go on until one succeeds.
BeforeSuccess == TRUE

BeforeDeadline == clock < RtoDeadline

\* Any exception counts as a failed attempt: the node is dead, the range does
\* not serve, or the connection broke, perhaps after the commit.
AttemptFails ==
  /\ pc = "rto"
  /\ BeforeDeadline
  /\ rows' \in {rows} \cup
       {r \in {rows \cup {Unacknowledged}} : Serves(Candidate, {"episodic_events"})}
  /\ failed' = (failed \/ RegionOf[Candidate] = KillRegion)
  /\ done' = (done + 1) % Len(Topology)
  /\ UNCHANGED <<cluster, pc, clock, pinned, probes, liveness, stored,
                 report, tracked>>

RtoStatus(elapsed) ==
  IF failed /\ elapsed < TargetRto THEN "pass" ELSE "fail"

\* probe_rto returns; its locals, and the node it aimed at, are not read again.
LeaveRto == GoTo("outage_writes") /\ failed' = FALSE /\ leaseholder' = Null

\* Mutant: the first write after the failover is not tracked.
AttemptSucceedsUntracked ==
  /\ pc = "rto"
  /\ BeforeDeadline
  /\ Serves(Candidate, {"episodic_events"})
  /\ rows' = rows \cup {RtoRow}
  /\ \E late \in 0 .. TargetRto :
       probes' = [probes EXCEPT !["rto"] = RtoStatus(clock + late)]
  /\ LeaveRto
  /\ UNCHANGED <<cluster, verified, heldAtKill, liveness, stored, report, tracked>>

\* The attempt begun before the deadline may be answered at any later time: no
\* statement timeout is set.  All times from TargetRto on are judged alike.
AttemptSucceeds ==
  /\ pc = "rto"
  /\ BeforeDeadline
  /\ Serves(Candidate, {"episodic_events"})
  /\ rows' = rows \cup {RtoRow}
  /\ tracked' = tracked \cup {RtoRow}
  /\ \E late \in 0 .. TargetRto :
       probes' = [probes EXCEPT !["rto"] = RtoStatus(clock + late)]
  /\ LeaveRto
  /\ UNCHANGED <<cluster, verified, heldAtKill, liveness, stored, report>>

NoSuccessWithinDeadline ==
  /\ pc = "rto"
  /\ ~BeforeDeadline
  /\ probes' = [probes EXCEPT !["rto"] = "fail"]
  /\ LeaveRto
  /\ UNCHANGED <<cluster, verified, heldAtKill, liveness, stored, report, rows, tracked>>

OutageWrite ==
  /\ pc = "outage_writes"
  /\ done < ExtraWrites
  /\ Serves(Control, {"episodic_events"})
  /\ rows' = rows \cup {OutageRow(done)}
  /\ tracked' = tracked \cup {OutageRow(done)}
  /\ done' = done + 1
  /\ UNCHANGED <<cluster, pc, clock, pinned, results>>

OutageWritesDone ==
  /\ pc = "outage_writes"
  /\ done = ExtraWrites
  /\ GoTo("wait_down")
  /\ UNCHANGED <<cluster, pinned, results, rows, tracked>>

\* Mutant: the first poll that lists none of the region's nodes ends the wait.
RegionIsGone(live) == live \cap Killed = {}

\* The stable, self-consistent down state wait_for_region_down holds out for.
RegionIsDown(live) == live = Node \ Killed

\* A poll: `live` is what node status listed, nothing when the command failed
\* (rows = []).  liveness_during is the last poll, whatever ended the wait.
PollDown ==
  /\ pc = "wait_down"
  /\ clock < DownTimeout
  /\ \E live \in Snapshots \cup {{}} :
       /\ liveness' = [liveness EXCEPT !.during = Cardinality(live),
                                       !.regionDown = RegionIsDown(live)]
       /\ IF RegionIsDown(live) THEN GoTo("rpo_during") ELSE UNCHANGED control
  /\ UNCHANGED <<cluster, pinned, failed, probes, stored, report, rows, tracked>>

DownTimesOut ==
  /\ pc = "wait_down"
  /\ clock >= DownTimeout
  /\ GoTo("rpo_during")
  /\ UNCHANGED <<cluster, pinned, results, rows, tracked>>

\* probe_rpo selects every tracked row again, through the control node.
ProbeRpo(p, next) ==
  /\ pc = p
  /\ Serves(Control, TablesOf(tracked))
  /\ probes' = [probes EXCEPT ![p] = IF tracked \subseteq rows THEN "pass" ELSE "fail"]
  /\ GoTo(next)
  /\ UNCHANGED <<cluster, pinned, failed, liveness, stored, report, rows, tracked>>

(***************************************************************************)
(* Restore, and the report.                                                *)
(***************************************************************************)

RestoreRegion ==
  /\ pc = "restore"
  /\ up' = up \cup Killed
  /\ settled' = FALSE
  /\ GoTo("wait_full")
  /\ UNCHANGED <<voters, lease, preference, blips, pinned, results, rows, tracked>>

FullyLive(live) == Cardinality(live) >= Cardinality(Node)

PollFull ==
  /\ pc = "wait_full"
  /\ clock < FullTimeout
  /\ \E live \in Snapshots \cup {{}} :
       /\ liveness' = [liveness EXCEPT !.after = Cardinality(live),
                                       !.recovered = FullyLive(live)]
       /\ IF FullyLive(live) THEN GoTo("rpo") ELSE UNCHANGED control
  /\ UNCHANGED <<cluster, pinned, failed, probes, stored, report, rows, tracked>>

FullTimesOut ==
  /\ pc = "wait_full"
  /\ clock >= FullTimeout
  /\ GoTo("rpo")
  /\ UNCHANGED <<cluster, pinned, results, rows, tracked>>

\* Each result is committed to eval_probes on its own.
RecordProbe ==
  /\ pc = "record"
  /\ Serves(Control, {})
  /\ LET p == ProbeOrder[done + 1] IN
       stored' = Append(stored, [type |-> ProbeType(p), status |-> probes[p]])
  /\ IF done + 1 < Len(ProbeOrder)
       THEN done' = done + 1 /\ UNCHANGED <<pc, clock>>
       ELSE GoTo("report")
  /\ UNCHANGED <<cluster, pinned, failed, probes, liveness, report, rows, tracked>>

FailedProbes == {p \in Probe : probes[p] # "pass"}

OverallPass == FailedProbes = {}

WriteReport ==
  /\ pc = "report"
  /\ report' = [pass |-> OverallPass]
  /\ GoTo("done")
  /\ UNCHANGED <<cluster, pinned, failed, probes, liveness, stored, rows, tracked>>

\* Whatever a step calls may raise.  Nothing catches it and nothing undoes
\* what was done: a killed region stays down, a lease preference stays set.
Raise ==
  /\ Running
  /\ GoTo("raised")
  /\ UNCHANGED <<cluster, pinned, results, rows, tracked>>

Run ==
  \/ Seed \/ SetLeasePreference
  \/ VerifyLeaseholder \/ VerifyTimesOut \/ CheckPin
  \/ CountBefore \/ ProbeFreshness \/ ProbeCrossAgent \/ ProbeAtomicity
  \/ KillRegionNow
  \/ AttemptFails \/ AttemptSucceeds \/ NoSuccessWithinDeadline
  \/ OutageWrite \/ OutageWritesDone
  \/ PollDown \/ DownTimesOut
  \/ ProbeRpo("rpo_during", "restore")
  \/ RestoreRegion
  \/ PollFull \/ FullTimesOut
  \/ ProbeRpo("rpo", "record")
  \/ RecordProbe \/ WriteReport
  \/ Raise

Next ==
  \/ \E t \in Table : Rebalance(t) \/ Reacquire(t)
  \/ Converge
  \/ Tick
  \/ Run

Spec == Init /\ [][Next]_vars

\* The process keeps running, every call it makes returns or raises, and time
\* keeps passing; the cluster may stay unavailable or noisy for ever.
FairSpec == Spec /\ WF_vars(Run) /\ WF_vars(Tick)

(***************************************************************************)
(* Properties.                                                             *)
(***************************************************************************)

AllRows ==
  {Row("episodic_events", id) : id \in {"freshness", "cross_agent"}} \cup AtomicRows
  \cup {RtoRow, Unacknowledged} \cup {OutageRow(k) : k \in 0 .. ExtraWrites - 1}

Count == 0 .. Cardinality(Node)

\* The state of a run: where harness.run is and what it has collected.
TypeOK ==
  /\ voters \in Placements
  /\ up \subseteq Node
  /\ lease \in [Table -> voters]
  /\ preference \in [Table -> Region]
  /\ settled \in BOOLEAN /\ failed \in BOOLEAN
  /\ blips \in 0 .. MaxBlips
  /\ rows \subseteq AllRows
  /\ tracked \subseteq AllRows
  /\ pc \in {"seed", "pin", "verify", "pinned", "before", "freshness",
             "cross_agent", "atomicity", "kill", "rto", "outage_writes",
             "wait_down", "rpo_during", "restore", "wait_full", "rpo",
             "record", "report", "done", "raised"}
  /\ clock \in 0 .. (IF pc \in DOMAIN Bound THEN Bound[pc] ELSE 0)
  /\ done \in Nat
  /\ verified \subseteq Table
  /\ leaseholder \in Node \cup {Null}
  /\ heldAtKill \in BOOLEAN
  /\ probes \in [Probe -> {"none", "pass", "fail"}]
  /\ liveness \in [before : Count, during : Count, after : Count,
                   regionDown : BOOLEAN, recovered : BOOLEAN]
  /\ stored \in Seq([type : {ProbeType(p) : p \in Probe}, status : {"pass", "fail"}])
  /\ report = Null \/ report \in [pass : BOOLEAN]

\* A report that passes is a proof: only a cluster whose voters keep a
\* majority without the killed region can produce one, however the leases
\* move and whatever node status lists (harness.run, overall_from_probes).
PassProvesSurvival ==
  (report # Null /\ report.pass) => HasQuorum(Node \ Killed)

\* No false alarm: on a cluster that loses nothing, no probe but the timed
\* one fails.  The row of an RTO attempt whose commit was never acknowledged
\* must not be held against the cluster (RpoTracker.track, probe_rpo).
NoFalseAlarm ==
  \A p \in Probe \ {"rto"} : probes[p] # "fail"

\* RPO covers the outage: once writes work again, the tracker holds every row
\* that was acknowledged, before the kill and since, so both RPO probes read
\* all of them (RpoTracker.track in harness.run and probe_rto).
EveryAcknowledgedRowTracked ==
  pc \in {"wait_down", "rpo_during", "restore", "wait_full", "rpo", "record",
          "report", "done"}
    => rows \ {Unacknowledged} = tracked

\* RPO is measured on exactly the acknowledged rows: none is missing from the
\* count, and none that was never acknowledged makes it fail.
RpoIsExact == EveryAcknowledgedRowTracked /\ NoFalseAlarm

\* The narrated "9 -> 6 -> 9": when the report says the region was seen down
\* and recovered, its three counts are all nodes, the survivors, all nodes,
\* although node status is noisy around the kill (wait_for_region_down).
LivenessStory ==
  (report # Null /\ liveness.regionDown /\ liveness.recovered) =>
    /\ liveness.before = Cardinality(Node)
    /\ liveness.during = Cardinality(Node \ Killed)
    /\ liveness.after = Cardinality(Node)

\* A passing RTO measures a failover: unless a live leaseholder dropped its
\* lease meanwhile, the lease of the probed table was in the killed region at
\* the kill and had to move before the write succeeded (pin_and_verify,
\* probe_rto).
PassMeansTransfer ==
  (probes["rto"] = "pass" /\ blips = MaxBlips) => heldAtKill

\* The proof in the database is the proof in the report: a report exists only
\* when eval_probes holds one row for each probe, and it passes exactly when
\* none of them failed; and a run that reports has restored the region it
\* killed (record_probe, overall_from_probes, restore_region).
StoredProofAgrees ==
  report # Null =>
    /\ Len(stored) = Len(ProbeOrder)
    /\ report.pass <=> \A i \in DOMAIN stored : stored[i].status = "pass"
    /\ up = Node

\* What a run reports is what happened: its node counts, its stored probes and
\* its verdict agree.
ReportIsSound == TypeOK /\ LivenessStory /\ StoredProofAgrees

\* The run ends, with a report or an exception, even on a cluster that never
\* serves another write: every wait is bounded (probe_rto's deadline, the
\* timeouts of the three polling loops).
RunEnds == <>(pc \in {"done", "raised"})
=============================================================================
