# Verification of the postmortem agent

The repository is an incident-response agent with memory. A *responder* turn
perceives an incident, recalls episodes, facts and runbooks, asks a model for a
decision, passes it through guardrails, and executes it in CockroachDB in one
statement that changes production state and appends the memory of the change.
Outcomes are reported later and are *consolidated* into versioned runbooks. This
directory holds TLA+ models of that system, TLC runs and TLAPS proofs.

## 1. Inventory

| Part | State | Operations | Talks to |
|---|---|---|---|
| Responder turn (`service.py`, `domain.py`) | locals of one thread per request; `IncidentRegistry` (signals, last result per incident) | `handle`: sanitize, receive, recall, decide, guard, approve, embed, execute, complete, fail | recall, reasoner, store, broker |
| Guardrails (`guardrails/`) | none | injection screen, tool allowlist, provenance check, blast-radius classification, named approval | called by the turn |
| Atomic remediation store (`adapters/cockroach.py`) | tables `incidents`, `services`, `deploys`, `remediation_actions`, `episodic_events`, `procedural_memory` | one SERIALIZABLE statement; retry on 40001; replay on 23505 | CockroachDB |
| Outcome recording (`adapters/outcome.py`, `OutcomeService`) | the same tables | one statement: verdict, resolution, outcome episode; replay, conflict, retry | CockroachDB, broker |
| Recall (`adapters/recall.py`, `recall.py`, `adapters/mcp.py`) | reads; `semantic_facts` through `transition_fact` | three queries, eligibility, ranking; bitemporal transition; history | CockroachDB |
| Event broker (`events.py`, `/events` stream) | ring of recent events per incident, set of subscriber queues | `publish`, `history`, `stream` | turns and calls publish, browsers subscribe |
| Consolidation (`consolidation/`) | object-store buffers and watermark, FIFO queue, runbook versions with counts | buffer, flush, group, extract, apply (create, reinforce, weaken, deprecate) | changefeed, S3, SQS, CockroachDB |
| Simulator (`simulator/`) | virtual clock, services, dependencies, config revisions, deployments, incidents, SLOs | advance, inject a fault, apply an action, judge it by the oracle, resolve | evaluation |
| Evaluation (`evaluation/`) | results per arm | replay a stream with and without memory, compare | simulator, the model |
| Resilience harness (`resilience/`) | pinned tables, tracked rows, probe results | pin leases, probe, kill, wait, restore, store, report | docker, CockroachDB |
| Web console, infrastructure, scripts | - | - | - |

What is hard here, and hard to test:

* **Lost acknowledgements and duplicates.** The client of a statement may see an
  error after the statement committed, and repeats the request.
* **Stale decisions.** Recall, the model call and a human's approval take time;
  incident, runbook and service may change before the statement runs.
* **Concurrent turns and reports** on one incident, one service or one action.
* **Crashes** between the commit and the events and read models that follow it.
* **Out-of-order outcomes**: for an older action, after resolution, or with an
  `observed_at` before `opened_at`.
* **Best-effort delivery** of events from several threads into bounded queues.
* **At-least-once delivery** of outcomes into consolidation.
* **Racing transitions of one fact**, backdated or not, and reads as of an
  instant that is not the present, over candidates cut off before they are
  filtered.
* **Measurements that must not flatter**: a failover that never happened, rows
  that were never acknowledged, MTTR spoiled by what an earlier incident left
  behind, superseded fixes.

`PROJECT.json` lists the hazards at their lines with the properties that watch
them.

## 2. Modules

| Module | Role |
|---|---|
| `Responder` | turns, both stores, outcome calls, runbook status, crashes |
| `RemediationLedger` | abstract specification of what both stores promise |
| `MCResponder` | instances for TLC, and what comments say that the code does not do |
| `ResponderProofs` | type correctness, safety, the refinement proof, and what turns and outcome calls leave behind |
| `EventBroker` | publishing threads, ring, streams of one incident |
| `EventBrokerProofs` | order and completeness of the feeds |
| `RunbookRepository`, `MCRunbookRepository` | `CockroachRunbookRepository.apply` and the act path's use of its rows |
| `RunbookRepositoryProofs` | theorems on the repository |
| `Consolidation`, `MCConsolidation` | changefeed, receiver, queue, consolidator and buffer around an instance of `RunbookRepository` |
| `ConsolidationProofs` | theorems on the pipeline, and that it implements `RunbookRepository` |
| `SemanticFacts` | `transition_fact`: three statements under locks, retries, lost acknowledgements |
| `BeliefTimeline` | abstract specification of bitemporal facts: one belief per key and instant |
| `SemanticFactsProofs` | theorems on facts and the second refinement proof |
| `RecallRanker` | gates, scores and diversity as operators, with a reference definition |
| `Recall`, `MCRecall` | `CockroachRecallAdapter.recall` beside transitions, through the ranker |
| `RecallProofs` | recall leaves the theorems on facts intact; what is found, lost and chosen |
| `Conductor` | the simulator as operators from world to world |
| `Evaluation`, `MCEvaluation` | the three evaluation loops over the Conductor |
| `EvaluationProofs` | the world stays sound, MTTR and the report add up |
| `ResilienceHarness`, `MCResilience` | one run of the harness beside a cluster that moves |
| `ResilienceProofs` | theorems on what a report proves |

### Responder

*State.* The five table variables hold the columns the statements read or
write. A row of `actions` is a row of `remediation_actions` together with the
deploy and the `action` episode the same statement inserts; its position stands
for all three ids. `outcomes` are the `outcome` episodes. A turn is a program
counter with the locals of `handle` and of `remediate_and_record`; `trail` is
what it published. `registry` is `IncidentRegistry`, `call` the state of each
outcome request, `announced` the published OUTCOME_RECORDED events.

*Actions of a turn.* `RefuseSignal`, `Receive`, `Recall`, `Decline`,
`PauseForApproval`, `Authorize`, `Block`, `ExternalFailure`, `StartTransaction`
are the stretches of `handle` between points where another thread can matter.
`Commit`, `CommitUnacknowledged`, `Reject`, `Collide`, `RetrySerialization`,
`GiveUp`, `DatabaseError`, `Replay`, `ReplayFails` are the ways one execution of
the statement, or the replay lookup, can end; `Finish` publishes and completes.
`Gate` is the three gating CTEs, `Deployed`, `Mitigating`, `Used` and the
appended row the writing ones.

*Actions of a call.* `Post`, then `OutcomeCommit` and `Announce`, or one of
`OutcomeUnacknowledged`, `OutcomeReplay`, `OutcomeReject`, `OutcomeRetry`,
`OutcomeError`.

*Environment.* `Activate` and `Deprecate` are what the consolidation job does to
a runbook's status; `Crash` ends every thread and empties the registry.

*Abstraction.* CockroachDB is external: a SERIALIZABLE statement is one step.
A remedy is an (action, target_version) pair. Texts, embeddings, scores and
payloads are left out; recall returns every memory the ranker would mark
actionable, and the model may choose any of them, any remedy, or none, so every
choice the scores could lead to is covered. All incidents share one `OpenedAt`.
`usage` counts only what the act path adds. Row-level TTL is not modelled.

### RemediationLedger

Commands applied in order, each with at most one verdict, and the set of closed
incidents. `Responder` implements it with `applied` = the idempotency keys of
`actions`, `verdict` = the outcome once an outcome episode exists, `closed` = the
resolved incidents.

### EventBroker

*State.* The ring (`deque(maxlen)`) and the subscriber set of one incident, one
program counter per publishing thread with the copied set of queues it still has
to fill, and per stream its copy of the ring, its queue and what it has shown.
*Actions.* `Publish` is the locked half of `publish`, `PutNext` one round of the
loop outside the lock (a full queue sheds the event); `Subscribe` is the locked
half of `stream`, `YieldBacklog` and `YieldLive` its two loops, `Disconnect` the
`finally` clause. Incidents are independent, so there is one; an event is its
publisher and number.

### RunbookRepository

*State.* `runbooks` holds the versions of every name in order, `provenance` the
rows of `runbook_provenance`. *Actions.* `Weaken`, `Create` and `Reinforce` are
the branches of `apply` that write, each with its provenance row in the same
transaction; `Noop` is its two early returns. `Use` is the act path's
`runbook_usage` behind the gate on the status. A candidate is any name, incident,
procedure and outcome: nothing is assumed of what the pipeline sends.
`success_rate` follows from the counts and is left out; timestamps and texts are
data.

### Consolidation

*State.* A row of `episodic_events` is its position, which is its event id and
its MVCC timestamp; `occurred` is the time it tells of. `acked` and `resolved`
are the changefeed's, `queue`, `dead`, `sent` the queue's, `pending`, `archive`
and `watermark` the three prefixes of the bucket. `job` is the one invocation
that reserved concurrency allows, with the locals of `process`.

*Actions.* `ReceiveRow` and `ReceiveResolved` are `receive_changefeed` for one
message, with a lost answer, a rejected chunk and a repeated delivery as
outcomes; `Receive`, `DeadLetter`, `Return`, `Fail`, `Die` are what the queue
and the runtime do with a batch; `PutRow`, `CloseWindow`, `Nightly`,
`ApplyGroup`, `ArchiveGroup`, `DeleteProcessed`, `SaveWatermark` are the steps of
`process` between two writes to a remote store. `Fail` is an exception of any of
these calls.

*Abstraction.* The distilled candidate has any name and steps of the constants.
Groups are taken in any order (the code sorts them by random ids). A request
of many messages is many steps. The 7 days of queue retention and
the 14 days of the dead-letter queue are not modelled, nor is a row whose
parse fails (the receiver answers 400 to the whole request and changes nothing).

### SemanticFacts and BeliefTimeline

*State.* `facts` holds per call the row it inserted, `call` the locals of each
`transition_fact`, `clock` the server clock that gives `now()`. *Actions.*
`Request` validates and opens the transaction; `Close`, `Insert`, `Link` and
`Commit` are its statements. `Close` waits for a row that another transaction has
locked and is refused by the CHECK on the window when the new instant does not lie
after the old one (`CloseRejected`); `Insert` waits while an insert of the same key
is pending and collides with a committed open row (`InsertCollides`).
`SerializationFailure` restarts, `DatabaseError` ends the call,
`CommitUnacknowledged` ends it although the rows are there. Writes become visible
at the commit. *Abstraction.* A key is a (subject, predicate) pair of an
organisation; objects, confidences and provenance are data.

`BeliefTimeline` knows one belief per key and instant. A transition replaces the
belief from its instant on and leaves every earlier instant alone. `SemanticFacts`
implements it with the belief at an instant = the row whose window holds it.

### RecallRanker and Recall

`RecallRanker` is arithmetic in percent, with the half life of recency as unit of
time. `IsDiverseChoice` is the reference for the greedy scan of `_diverse`: of
the best candidate of every case the best ones. `Recall` fixes the instant of the
query in `Ask`, reads in one snapshot in `Read` (each query takes the nearest
`candidate_limit` rows before it filters by service), retries in `ReadAgain` and
gives up in `ReadError` or `Raise`. Similarity to the query is a number of
the row; nearest neighbours are exact.

### Conductor and Evaluation

`Conductor` has one operator for every `_inject_*`, for `_mutate_action`,
`_matches`, `_resolve` and the rest; calls that raise SimulationError are excluded by
`Injectable` and `Acceptable`, and `RaisesTypeError` is the one other exception a
parameter can cause. `Evaluation` keeps the world of the running arm, the trial at
hand and the recorded results. `Inject`, the four ways to decide, `Apply`, `ApplyRaises`,
`Reject`, `Record`, `NextArm` and `Report` are the steps of the three loops; the model is
external and proposes any plan of at most `MaxPlan` actions of a pool with any
latency, answers something that does not parse, or raises. Time is in half
seconds, because MTTR is cut to whole ones.

### ResilienceHarness

*State.* The cluster (voters, nodes up, leases, zone preferences, whether gossip is
settled) and the harness (step, clock of the wait in progress, tracked rows, probe
results, stored rows, report). *Actions of the harness* follow `run`: seed, pin and
verify, count, three probes, kill, RTO attempts, writes during the outage, wait for
the region to be down, RPO, restore, wait for all nodes, RPO, store, report;
`Raise` is an exception of any of them. *Actions of the cluster.* `Rebalance` and
`Reacquire` move leases, `Converge` lets liveness settle, `Tick` is time. An RTO
attempt that fails may have committed. *Abstraction.* A committed row is never
lost by the cluster; whether the voters were placed to survive is left open. A
table is one range, so its lease is in the kill region or not: the code waits for all
ranges of a table at one poll, and a partial convergence is a poll that finds nothing.
A statement needs the leases of the probed tables it touches; leases of other tables
are not followed. That all nodes are up before the kill is part of `Init`, since the
harness counts `live_before` and never checks it; the first count of `LivenessStory`
rests on that.

## 3. Runs

| Run | Instance | Shows |
|---|---|---|
| `responder_act` | 2 turns, 1 call, 2 incidents on one service, right and wrong service, 2 runbooks, 1 remedy, 1 retry; under `RetryOrChoice` | results and registry are backed by the tables, usage and services agree with the actions, the incident names the runbook of its last action, citations, ledger |
| `responder_outcome` | 2 turns, 2 calls, 1 incident, 2 remedies, all tags, approvals and approvers, times before and after `opened_at`; under `OneReportUnlessPlain` | one outcome per action, resolution, answers, announcements, named approval, finality |
| `responder_live` | 2 turns, 1 call, fairness | every turn and call ends |
| `broker` | 2 threads, 2 streams, 3 events, ring of 2, queues of 1, fairness | nothing shown twice, nothing missed but what was shed, order per thread, `publish` returns, a reading client sees what was not shed |
| `repository` | 3 incidents, 2 names, 2 procedures, threshold 1, usage up to 3 | counts, replays, statuses, versions, CHECKs |
| `consolidation_safety` | 3 histories of 2 rows, batches of 2, 2 receives, 1 duplicate, 2 faults | no acknowledged row lost, windows complete, incidents counted once, the last observation decides |
| `consolidation_live` | the same without duplicates, fairness | acknowledged outcomes are archived or dead-lettered |
| `recall` | 2 writers, 2 agents, 2 keys, 3 instants, 1 retry, 2 table contents, 3 queries, one of them outside any incident | one timeline per key, chains, ranking against its reference, loss only by crowding, own facts are read back |
| `evaluation` | 17 scenarios of 12 families; agent, mechanism and temporal streams; plans of 2 actions (right, wrong, not executable, raising), latencies 0 and 1.5 s | the world stays coherent, MTTR, the paired report, every scripted arm resolves, no superseded fix |
| `resilience` | 5 nodes in 3 regions, voters placed to survive or not, 1 lost lease, waits of 1 or 2 ticks, 1 write in the outage, fairness | a passing report proves survival and, without lost leases, a transfer; RPO on exactly the acknowledged rows; the report agrees with the store; the run ends |
| `rolled_back_is_not_recorded`, `duplicate_is_replayed` | small | two comments the code contradicts; see the findings |

Some properties are conjunctions of named parts, each with its own comment in the
module: `ResultsAreBacked`, `TablesAgree`, `FeedInOrder`, `DeliveryIsLive`,
`WindowsAreSound`, `WorldIsSound`, `RpoIsExact`, `ReportIsSound`. The type
invariants of `EventBroker`, `Consolidation`, `Evaluation` and `ResilienceHarness`
are parts of them; the other type invariants are theorems only.

*Bounds.* Two turns suffice for every pairwise race: same command twice, two
commands on one incident, one service with two incidents, a citation of the
other turn's episode. Two calls cover report against report and report against
replay. Two runs are cut by a state constraint, each a disjunction of two whole
instances. `RetryOrChoice` (`responder_act`): either at most one runbook is in use
and every turn and call may be retried, or nothing is retried and the turns choose
between two runbooks for two incidents; so the last action of an incident differs
from its first, and turns for two incidents of one service alternate. What the
constraint leaves out is a retry in a run with two runbooks. `OneReportUnlessPlain`
(`responder_outcome`): either the turns carry no tag and no approval and two reports
race over them, or one report at most meets turns with every combination of tags,
approval, approver and the reasoner's request for approval, also a plain incident
that asks and is repeated approved. Approvals end before the statement and reports
begin after it, so the part left out joins two parts that meet in the tables only.
Both properties that depend on it are theorems without bounds
(`IncidentsShowTheirLastAction`, `HighBlastRadiusIsApproved`). `responder_act` has
one remedy: a stale version of a service shows there through its deploy id;
`TablesAgreeWithActions` proves the agreement for any set of remedies. One retry distinguishes "retries left" from "last attempt". The times 0
and 2 around `OpenedAt = 1` cover both sides of the clamp. Symmetry is used
only in runs without liveness. Deadlock is not checked in runs where a finished
set of requests, events or candidates is the normal end; the consolidation runs
check it, since the nightly run is always possible. A ring of two and queues of
one overflow at once. Three incidents are enough to activate a runbook, weaken
it and repeat an incident after a change of version. The three histories of
`Consolidation` are an incident that ends well, one whose outcomes are committed
in the reverse order of observation, and two incidents; with two receives and two
faults a message can reach the dead-letter queue alone or with its neighbour.
In `recall`, two writers on two keys race on one key or pass each other, instants
0 to 2 lie before, at and after the clock, and a candidate limit of 2 or 3 is smaller
than the tables. In `evaluation`, a stream of two incidents shows what the first
leaves behind for the second, over every pair of the fixture's scenarios for the
scripted arms; an incident of two required actions meets plans that are too
short, wrong or in the wrong order, or that name a dependency by a list, which ends
the run with a TypeError. In `resilience`, five nodes in three regions are the
smallest topology whose voters can lose a region or not; the deadline of two ticks
lies beyond the target of one, so that late success, success and none are
told apart; the answer to an attempt may take any time up to the target more, which
stands for all longer times. The largest runs are `responder_act` (2.0 million
states), `responder_outcome` (0.84 million), `resilience` (0.74 million) and `recall`
(0.46 million).

*Fairness.* `FairSpec` assumes weak fairness of each accepted turn and each
accepted call: they run in threads of the server and every step is ordinary code
or a library call that returns or raises. Nothing is assumed of clients, of the
consolidation job or of crashes. For the broker, `FairSpec` assumes
only that a thread inside `publish` runs on; that a client keeps reading, without
which no delivery can be promised, is an assumption of `EveryEventIsShown` for the
stream it speaks of. For
`Consolidation`, a running invocation proceeds (weak fairness); the queue, its
redrive policy and the schedule are strongly fair, because they compete for the
one invocation and each is retried by the platform when it was throttled.
Faults are finite in number (`MaxFaults`), which is what the redrive policy
relies on as well. For `ResilienceHarness`, the harness proceeds and time passes. The
cluster may stay unavailable for ever, but every call to it is assumed to return or
to raise, as late as it likes: `db.py` sets a `connect_timeout` and no statement
timeout, and `rto.py:81` looks at its deadline only between attempts, so a statement
that hangs on an open connection would keep the run from ending.

*Violations.* (1) An exception after a lost acknowledgement is published as a
rollback with nothing recorded, while everything is recorded. (2) A duplicate of
a committed command is refused by the gates once the incident is resolved or the
runbook deprecated, although the comment promises the original result.

Observations made while modelling, which are not runs:

* The act path stores `outcome = 'success'` when it applies an action, so recall
  offers a fix as successful before anybody verified it.
* `CockroachRunbookRepository.apply` takes the success of an incident whose
  failure it has counted for a replay, although `src/consolidation/README.md`
  says that successful recurrences reinforce an identical runbook.
* A nightly run closes its window at the current time, although `ClosedWindow`
  says that everything up to it was delivered; `QueuedWindowIsComplete` is
  therefore about queued windows only. A window that waited in the queue during
  a nightly run moves the watermark object back; nothing reads it yet.
* `stale_facts_returned` is called a hard invariant in `recall.py`; a fact can be
  returned for an `as_of` before a later transition, which is what as-of reads are
  for.
* `transition_fact` writes through an adapter that is configured with the reader
  identity.
* `rto.py` says a pass must mean a real lease transfer. It does unless a live
  leaseholder drops its lease between verification and kill, hence the condition
  in `PassMeansTransfer`.
* An exception between kill and restore leaves the region down, and the lease
  preference is never reset.
* `inject_next` takes the scenario off the schedule before it may raise.
* The prompt in `real_agent.py:106-107` tells the model that every action taken while
  the incident is open loses customer orders. `Conductor.apply_action` adds failed
  orders for an action without effect only, as `src/simulator/README.md:68-69` says,
  and `orders_avoided` of the report follows the wrong actions (`ReportAgrees`).
* A plan whose `dependency_key` or `to_service` is a list or an object makes
  `_mutate_action` raise TypeError, which `real_agent.py:480` does not catch: the
  whole run ends where any other malformed step is counted as invalid
  (`ApplyRaises`).
* An outcome whose acknowledgement is lost is never announced: the client's repeat
  is a replay, and replays are not published. The model has it so; `AnnouncedOnce`
  says at most once.

## 4. Proofs

**Responder.** All theorems hold for any number of turns, calls, incidents, services, runbooks
and remedies, any set of requests and times, and any retry bound, from
`ResponderAssumption`.

* `TypeCorrect`: `TypeOK` is not inductive, since a proposal is well typed only
  if the turn has a signal and what it recalled exists. `TypeInv` adds
  `TurnInv` (program counter against signal, command and recall) and `CallInv`
  (a posted call names an existing action).
* `DatabaseSteps` is the pivot of the safety proofs: every step leaves the three
  tables alone, is a remediation behind its gates and a free key, or is an
  admitted outcome. From it follow `CommandsApplyOnce`, `OutcomesAreUnique`,
  `ResolutionIsVerified` (each inductive relative to `TypeInv`) and, as an action
  property, `ResolutionIsFinal`, which needs `ResolvedMeansVerified` to know that
  the COALESCEs of a later success find values.
* `ResponderImplementsLedger`: a remediation is `Apply`, an admitted outcome is
  `Judge`, all else stutters. `Apply` needs `OneOutcomePerAction` (no outcome
  points past the end of the table).

**RunbookRepository.** The theorems hold for any incidents, names, procedures,
thresholds and usage bounds, from `RepositoryAssumption`; each is one of the
properties of the run `repository`.

* `Shapes` is the pivot: every step changes the latest version of one name and
  records one row for an incident new to that name, or appends a version and
  retires the one before, or is a use. `RepositoryTypeCorrect` and
  `IncidentsCountOnce` follow from it (the first includes that every provenance
  row points to an existing version, which the second and the counts need).
* `RowsAfter` says what a step can make of one version; from it `RowsKeep` carries
  an inductive property of single rows (failures below successes and the status
  threshold while not deprecated, usage above the counts) to `StatusesAreEarned`
  and `UsageAlwaysCovers`, and `DeprecationsAreFinal` to its action property.
* `CountsAreProvenance`: the evidence of a version is a set of positions of the
  provenance; `EvidenceGrows` shows that an appended row adds one element to
  exactly the sets it belongs to, so the cardinalities move with the counts.

**SemanticFacts.** The theorems hold for any writers, agents, keys, instants,
clock and retry bounds, from `FactsAssumption`.

* `FactsInv` strengthens `TypeOK` and `WindowsDisjoint` by `InFlight` (a row that
  an open transaction is about to close is open, locked by it alone and began
  before the new instant; after a passed insert no other open row of the key
  exists or is pending), `OneOpen` and `Linked`. Without `InFlight` two commits
  could close one row. Each statement only changes its own call; `AppliedRows`
  and `AppliedSets` say what a commit does to the table.
* `WindowsNeverOverlap`, `BeliefsFormChains` and `PastIsFixed` follow.
* `FactsImplementTimeline` adds `Instants` (rows begin at instants of `Time`).
  `Exact` says that, windows being disjoint, the CHOOSE of the mapping is the
  one row that is valid; a commit is then `Transition`, all else stutters.

**Incident rows.** `IncidentsShowTheirLastAction` uses the same pivot as the other
safety theorems of the responder: a remediation appends the new maximum of its
incident's actions and writes its runbook, an outcome touches neither.

**Turns and calls of the responder.** `WritingSteps` refines the
pivot: a step that writes a row is the commit of one turn, and `RowsGrow` says that
rows are only appended and keep everything but their outcome. On top of `TypeInv`:

* `TurnFacts` follows the command through the turn (its own incident and service,
  authorized, grounded in what may be cited, and the result the row with its key).
  The commit uses a command that was decided long before; it is right because
  nothing it relied on can disappear. `ResultsAreInTheDatabase` and
  `ActionsAreGrounded` follow.
* `Signed`: the turn named in a row has passed authorization and never decides
  again. `HighBlastRadiusIsApproved` needs it because the row does not hold the
  approval.
* `TablesAgreeWithActions`: a commit moves the usage count and the rows it counts
  by one element (cardinalities of finite sets), an outcome moves neither.
* `CallFacts` (what a call was told, or will be, stands in the outcomes) gives
  `AnswersAreKept`; `Unannounced` (of the calls about to announce an action there is
  one, and nobody has before) gives `OutcomesAreAnnouncedOnce`.

**EventBroker.** For any number of threads and streams and any positive limits, from
`BrokerAssumption`. `BrokerInv` says that the ring is the end of the log, that
numbers in the log are not ahead of their publishers, that a stream is registered
exactly while it is open, and that a feed (shown, backlog, queue, in that order) is
ordered and behind what is still on its way to the stream. The last part is what
makes a subscription between `Publish` and `PutNext` harmless: the copy of the
ring has the event, the copied set of queues does not have the stream.
`FeedsAreInOrder` follows, and `NothingIsMissed` is inductive relative to it.

**Consolidation.** For any histories of rows, batch size, receives, duplicates and
faults, from `ConsolidationAssumption`. `PipelineInv` consists of types and of

* `SentFact`: a row that was sent is queued or handled (buffered, archived or dead);
  without it, a delivery dropped as a duplicate could be the only copy;
* `AheadFact`: the rows a window closes are handled or ahead of it in the queue;
  `PrefixFact`: the records before the current one of the batch are handled. Both
  together give that a window under way finds all its rows handled. The queue
  moves under a running batch only by `QueueMoves`;
* `ReadFact`: what an invocation read is still what is buffered, and it deletes only
  what it archived. It rests on the single consolidator.

`EveryAcknowledgedRowIsKept` follows at once. `PipelineImplementsRepository` shows
`Spec => Repository!Spec`: every applied group is one `Apply`, where `LastOutcome`
supplies the last observation of a finite, non-empty set. The theorems of
`RunbookRepositoryProofs` then hold of the pipeline and are not proved again:
`PipelineRunbooksAreSound` states them, and `WindowsAreAlwaysSound` uses that
incidents count once. `LastObservationDecides` is the action property that ties a
new provenance row to the outcome observed last.

**ResilienceHarness.** For every topology, placement of voters around the control
node, bounds and timeouts, from `ResilienceAssumption` (the killed region is not
the control node's, which `test_topology.py` requires of the fixed topology). `RunInv` follows the run:
which nodes are up at which step, which probes have been made (a report is only
written after all), that the tracker holds what was acknowledged *at every moment*,
that a pinned and verified lease leaves the region only by a blip, that the probe
during the outage was served by a majority of the survivors, and that the stored
rows are the probes recorded so far. `PassesProveSurvival`,
`RpoReadsWhatWasAcknowledged`, `PassingRtoTimedATransfer` and `ReportsAreSound` are
read off it.

**Recall.** For any tables, queries, limits, weights, writers and keys, from
`RecallAssumption` (rows have primary keys and numeric columns).

* `RecallImplementsFacts`: a step of the reader leaves the facts alone, so `FactsInv`
  and every theorem on facts hold beside recall.
* `EpisodesLostOnlyByCrowding`: `ReaderInv` keeps that the episodes found come from
  the nearest rows of the table; a row that is not among them has a full list of
  rows as near.
* `RecallReadsOwnFacts` (an action property) uses `FactsInv` and `WindowsForward` (no
  window ends before it begins): a closed fact has a successor that begins where it
  ends, so a fact nobody has replaced by the instant of the query is valid at it, passes the SQL filter, and is cut only if there are more rows than
  the limit.
* `RankingIsDiverse`: `Better` is a strict total order on the scored items (the id
  breaks ties), so `Sorted` lists each of them once, at the place given by how many are
  better. `Diverse` is then an induction over the places of the list: what has been
  picked so far is the reference choice of the items seen so far.

The two inductions over data, here and in the sums below, are over a *set* of
numbers (`NatSetInduction`, from the well-foundedness of `<`), which needs no
operator as a parameter; the recursive functions are shown to exist first.

**Evaluation.** For any fixture, oracle, corpus, streams, latencies and plans, from
`ConductorAssumption` (the fixture lists every service, sets a key once, and every
incident needs an action) and `EvaluationAssumption` (a stream replays a scenario
once). The inductive invariant `EInv` consists of

* `WorldOK`: configuration revisions form a `Chain`, deployments a `Trail`, and an
  incident that is not resolved has steps left and no MTTR. Each `_inject_*` and each
  `_mutate_action` branch is shown to be `Touched`, a change of services,
  configuration and deployments that keeps both;
* `AtHand`: until the incident is resolved its SLO is breaching and the clock has
  moved since `opened_at` by exactly the latency, the steps taken and the penalties;
  once it is resolved, its MTTR is that sum, cut to the second. Without the first half the
  account could not be closed when the last required action resolves it;
* `Fresh`: incidents still to come have cost no order, so an incident's orders start
  from those of its fault, although the world is shared by the whole arm;
* `Recorded` (the account of every result) and `Control` (which arm has recorded how
  much: a report is only made of two complete arms).

`WorldStaysSound` and `MttrMeasuresResponder` are read off it. `ReportsAgree` sums the
accounts: a difference between the arms is a penalty up to the second, for each
incident both resolved, and induction over the length carries it to the totals.

Proved and not repeated by a run: the type invariants of `Responder`,
`RunbookRepository` and `SemanticFacts`, `CommandsApplyOnce` (also part of the
ledger), `DeprecationsAreFinal`, `PastIsFixed`, `PipelineImplementsRepository`,
`PipelineRunbooksAreSound` and `RecallImplementsFacts`.

Only model-checked:

* liveness, since fairness is out of the prover's reach;
* `MechanismResolves` and `NoStaleFix` of `Evaluation`: they hold because of the data
  of the fixture (which remedy the corpus has for which family, how long its windows
  are against the penalties), not of the code alone, so there is no statement for
  every value of the constants.

## 5. Plan

1. Done: `Responder`, `RemediationLedger`, their runs and first theorems.
2. Done: `EventBroker` and its runs.
3. Done: `RunbookRepository` with its theorems, `Consolidation` with its runs.
4. Done: `SemanticFacts`, `BeliefTimeline` and their theorems; `RecallRanker` and
   `Recall` on top of them.
5. Done: `Conductor`, `Evaluation`, `ResilienceHarness`.
6. Done: theorems on turns and calls, broker delivery and order, the pipeline and
   its refinement of the repository, the resilience report.
7. Done: theorems on recall and its ranker, on the simulated world and on the
   numbers of the evaluation.
8. Composition of the act path with consolidation: outcome episodes of the
   responder as rows of the changefeed, runbook counts against actions.

## 6. Not modelled

* Prompt-injection screening and request validation: string matching; their
  verdict is a choice in `Responder`.
* The MCP recall adapter (the same SQL rendered for another transport), the fake
  adapters and the in-memory doubles of consolidation (test stand-ins).
* Database roles and infrastructure beyond the queue's settings (declarative).
* Of the evaluation: percentiles, nDCG, token proxies and the report's layout,
  which are arithmetic and formatting on the recorded results.
* The web console, scripts, row-level TTL.
