----------------------------- MODULE Responder -----------------------------
(***************************************************************************)
(* The responder's turns and the two database statements they end in.      *)
(*                                                                         *)
(* A turn (ResponderService.handle) perceives an incident, recalls memory, *)
(* asks the reasoner for a decision, passes the guardrails, and hands the  *)
(* command to CockroachAtomicRemediationStore, whose single SERIALIZABLE   *)
(* statement changes the operational tables and appends the memory of the  *)
(* change.  A call (OutcomeService.record) later reports how an action     *)
(* turned out and, on success, resolves the incident.  Turns and calls run *)
(* in the threads of one process and interleave with each other, with the  *)
(* consolidation job that moves runbooks through their life cycle, and     *)
(* with a crash of the process.                                            *)
(*                                                                         *)
(* CockroachDB is external: a statement takes effect in one step or not at *)
(* all.  The client may be told 40001 (serialization failure), 23505       *)
(* (unique violation), or get another error, and such an error may reach   *)
(* it after the statement has committed.                                   *)
(***************************************************************************)
EXTENDS Naturals, Sequences, FiniteSets

CONSTANTS
  Turn,        \* requests to POST /v1/respond, one turn each
  Call,        \* requests to POST /v1/incidents/{id}/outcomes
  Incident,    \* incidents that have a row
  Service,     \* services
  ServiceOf,   \* incidents.service_id
  Runbook,     \* rows of procedural_memory
  Remedy,      \* what a command does: an (action, target_version) pair
  Requests,    \* the signals clients may send (bounds the inputs)
  Time,        \* observed_at values a client may report
  OpenedAt,    \* incidents.opened_at
  MaxRetries,  \* max_serialization_retries of both stores
  Null         \* SQL NULL, Python None

ASSUME ResponderAssumption ==
  /\ ServiceOf \in [Incident -> Service]
  /\ Requests \subseteq
       [incident : Incident, service : Service, critical : BOOLEAN,
        approved : BOOLEAN, named : BOOLEAN]
  /\ Time \subseteq Nat
  /\ OpenedAt \in Nat
  /\ MaxRetries \in Nat
  /\ Runbook \cap Nat = {}
  /\ Null \notin Runbook \cup Nat
  /\ Null \notin Incident \cup Service \cup Remedy \cup Turn

VARIABLES
  incidents,   \* table incidents: status, runbook_id, resolved_at, mttr_seconds
  services,    \* table services: health, current_version, current_deploy_id
  runbooks,    \* table procedural_memory: status, and the uses the act path counted
  actions,     \* table remediation_actions in commit order.  Row n stands for the
               \* deploy and the 'action' episode of the same statement as well:
               \* deploy_id, event_id and action_id are all written n
  outcomes,    \* the 'outcome' rows of episodic_events in commit order
  pc,          \* where a turn is
  signal,      \* what the turn was asked: incident, service, tags, approval
  recalled,    \* the actionable memories in the turn's recall bundle
  command,     \* the command of the turn's decision
  attempt,     \* attempt of remediate_and_record's retry loop
  result,      \* RemediationResult: the action it names, or Null
  error,       \* the exception a turn ended with
  trail,       \* the events a turn has published, in order
  registry,    \* IncidentRegistry: last completed turn's result per incident
  call,        \* the state of every outcome call
  announced    \* actions for which OUTCOME_RECORDED was published, in order

database == <<incidents, services, runbooks, actions, outcomes>>
turnVars == <<pc, signal, recalled, command, attempt, result, error, trail>>
vars == <<database, turnVars, registry, call, announced>>

----------------------------------------------------------------------------
(* Rows, commands and events.                                              *)

IncidentStatus == {"open", "mitigating", "resolved"}
RunbookStatus  == {"draft", "active", "deprecated"}
OutcomeKind    == {"success", "failed", "no_effect"}

\* A memory a command may cite: a runbook, or the episode of an earlier action.
Memory == Runbook \cup (Nat \ {0})

EventType == {"incident.received", "recall.started", "recall.completed",
              "reasoning.started", "decision.proposed", "action.proposed",
              "approval.required", "transaction.started",
              "transaction.committed", "transaction.rolled_back",
              "response.completed", "response.failed"}

RemediationCommand ==
  [incident : Incident, service : Service, remedy : Remedy, cited : Memory,
   runbook : Runbook \cup {Null}, requires_human_approval : BOOLEAN,
   approved : BOOLEAN]

IncidentSignal ==
  [incident : Incident, service : Service, critical : BOOLEAN,
   approved : BOOLEAN, named : BOOLEAN]

ActionRow ==
  [incident : Incident, service : Service, remedy : Remedy, cited : Memory,
   runbook : Runbook \cup {Null}, outcome : OutcomeKind, by : Turn]

OutcomeEpisode ==
  [action : Nat \ {0}, incident : Incident, outcome : OutcomeKind,
   runbook : Runbook \cup {Null}]

OutcomeCall ==
  [pc : {"idle", "executing", "recorded", "answered", "crashed"},
   action : Nat, incident : Incident \cup {Null}, service : Service \cup {Null},
   outcome : OutcomeKind \cup {Null}, at : Nat, attempt : 0..MaxRetries,
   answer : {"none", "recorded", "replayed", "OutcomeConflict",
             "ProvenanceError", "error"}]

TurnPC == {"idle", "recall", "reason", "authorized", "execute", "replay",
           "committed", "done", "failed", "refused", "crashed"}

\* Where a turn makes no further step.
Terminal == {"done", "failed", "refused", "crashed"}

TablesOK ==
  /\ incidents \in [Incident -> [status : IncidentStatus,
                                 runbook : Runbook \cup {Null},
                                 resolved_at : Nat \cup {Null},
                                 mttr : Nat \cup {Null}]]
  /\ services \in [Service -> [health : {"degraded", "recovering"},
                               version : Remedy \cup {Null}, deploy : Nat]]
  /\ runbooks \in [Runbook -> [status : RunbookStatus, usage : Nat]]
  /\ actions \in Seq(ActionRow)
  /\ outcomes \in Seq(OutcomeEpisode)

TurnsOK ==
  /\ pc \in [Turn -> TurnPC]
  /\ signal \in [Turn -> IncidentSignal \cup {Null}]
  /\ recalled \in [Turn -> SUBSET Memory]
  /\ command \in [Turn -> RemediationCommand \cup {Null}]
  /\ attempt \in [Turn -> 0..MaxRetries]
  /\ result \in [Turn -> Nat \cup {Null}]
  /\ error \in [Turn -> {"none", "ProvenanceError", "AtomicRemediationError",
                         "SerializationFailure", "DestructiveActionBlocked",
                         "external"}]

\* Tables, turns, events, registry and calls have the types the code gives them.
TypeOK ==
  /\ TablesOK
  /\ TurnsOK
  /\ trail \in [Turn -> Seq(EventType)]
  /\ registry \in [Incident -> [received : BOOLEAN, completed : BOOLEAN,
                                action : Nat \cup {Null}]]
  /\ call \in [Call -> OutcomeCall]
  /\ announced \in Seq(Nat \ {0})

\* RemediationCommand.effective_idempotency_key: the column
\* remediation_actions.idempotency_key, unique within the organisation.
Key(c) == <<c.incident, c.remedy, c.service, c.cited>>

KeyTaken(c) == \E n \in DOMAIN actions : Key(actions[n]) = Key(c)

NoCall == [pc |-> "idle", action |-> 0, incident |-> Null, service |-> Null,
           outcome |-> Null, at |-> 0, attempt |-> 0, answer |-> "none"]

Init ==
  /\ incidents = [i \in Incident |-> [status |-> "open", runbook |-> Null,
                                      resolved_at |-> Null, mttr |-> Null]]
  /\ services = [s \in Service |-> [health |-> "degraded", version |-> Null,
                                    deploy |-> 0]]
  /\ runbooks \in [Runbook -> [status : {"draft", "active"}, usage : {0}]]
  /\ actions = <<>>
  /\ outcomes = <<>>
  /\ pc = [t \in Turn |-> "idle"]
  /\ signal = [t \in Turn |-> Null]
  /\ recalled = [t \in Turn |-> {}]
  /\ command = [t \in Turn |-> Null]
  /\ attempt = [t \in Turn |-> 0]
  /\ result = [t \in Turn |-> Null]
  /\ error = [t \in Turn |-> "none"]
  /\ trail = [t \in Turn |-> <<>>]
  /\ registry = [i \in Incident |-> [received |-> FALSE, completed |-> FALSE,
                                     action |-> Null]]
  /\ call = [c \in Call |-> NoCall]
  /\ announced = <<>>

----------------------------------------------------------------------------
(* The turn up to the transaction.                                         *)

GoTo(t, from, to) == /\ pc[t] = from
                     /\ pc' = [pc EXCEPT ![t] = to]

Publish(t, events) == trail' = [trail EXCEPT ![t] = @ \o events]

\* IncidentRegistry.completed: the result of the turn that completes last wins.
Complete(t, action) ==
  registry' = [registry EXCEPT ![signal[t].incident].completed = TRUE,
                               ![signal[t].incident].action = action]

\* sanitize_signal refuses the request: nothing is registered or published.
RefuseSignal(t) ==
  /\ GoTo(t, "idle", "refused")
  /\ UNCHANGED <<database, signal, recalled, command, attempt, result, error,
                 trail, registry, call, announced>>

Receive(t) ==
  /\ GoTo(t, "idle", "recall")
  /\ \E sig \in Requests :
       /\ signal' = [signal EXCEPT ![t] = sig]
       /\ registry' = [registry EXCEPT ![sig.incident].received = TRUE]
  /\ Publish(t, <<"incident.received", "recall.started">>)
  /\ UNCHANGED <<database, recalled, command, attempt, result, error, call,
                 announced>>

\* Mutant: the current incident is not excluded.
ActionableSelf(sig) ==
  {r \in Runbook : runbooks[r].status = "active"}
    \cup {n \in DOMAIN actions : /\ actions[n].service = sig.service
                                 /\ actions[n].outcome = "success"}

\* The memories recall may return for a signal that the ranker marks
\* actionable.  An active runbook; or the episode of an action on the same
\* service for another incident, if the row that points to it says 'success'.
\* The 'outcome' episodes are recalled too, but no action row points to them,
\* their outcome is overwritten by NULL, and they are never actionable; nor is
\* a fact.
Actionable(sig) ==
  {r \in Runbook : runbooks[r].status = "active"}
    \cup {n \in DOMAIN actions : /\ actions[n].incident # sig.incident
                                 /\ actions[n].service = sig.service
                                 /\ actions[n].outcome = "success"}

Recall(t) ==
  /\ GoTo(t, "recall", "reason")
  /\ recalled' = [recalled EXCEPT ![t] = Actionable(signal[t])]
  /\ Publish(t, <<"recall.completed", "reasoning.started">>)
  /\ UNCHANGED <<database, signal, command, attempt, result, error, registry,
                 call, announced>>

RunbookOf(memory) ==
  IF memory \in Runbook THEN memory ELSE actions[memory].runbook

\* The commands the reasoner can return: it may choose the remedy and ask for
\* approval, but cites a recalled, actionable memory (any other answer is a
\* ReasoningError); the approval is the request's, never the reasoner's.
Proposals(t) ==
  {[incident |-> signal[t].incident, service |-> signal[t].service,
    remedy |-> remedy, cited |-> memory, runbook |-> RunbookOf(memory),
    requires_human_approval |-> ask, approved |-> signal[t].approved] :
     remedy \in Remedy, memory \in recalled[t], ask \in BOOLEAN}

\* A decision to propose, ask or escalate ends the turn without an action.
Decline(t) ==
  /\ GoTo(t, "reason", "done")
  /\ Publish(t, <<"decision.proposed", "response.completed">>)
  /\ Complete(t, Null)
  /\ UNCHANGED <<database, signal, recalled, command, attempt, result, error,
                 call, announced>>

\* The server's own classification is or-ed with the reasoner's flag.
HighBlastRadius(t, c) == signal[t].critical \/ c.requires_human_approval

PauseForApproval(t) ==
  /\ GoTo(t, "reason", "done")
  /\ \E c \in Proposals(t) :
       /\ c.requires_human_approval /\ ~c.approved
       /\ command' = [command EXCEPT ![t] = c]
  /\ Publish(t, <<"decision.proposed", "action.proposed", "approval.required",
                  "response.completed">>)
  /\ Complete(t, Null)
  /\ UNCHANGED <<database, signal, recalled, attempt, result, error, call,
                 announced>>

\* Mutant: only the service's tags ask for a named approver, the reasoner's own
\* request for approval does not.
AuthorizedByTags(t, c) ==
  signal[t].critical => signal[t].approved /\ signal[t].named

\* authorize_action allows the command.
Authorized(t, c) ==
  HighBlastRadius(t, c) => signal[t].approved /\ signal[t].named

Authorize(t) ==
  /\ GoTo(t, "reason", "authorized")
  /\ \E c \in Proposals(t) :
       /\ ~(c.requires_human_approval /\ ~c.approved)
       /\ Authorized(t, c)
       /\ command' = [command EXCEPT ![t] = c]
  /\ Publish(t, <<"decision.proposed", "action.proposed">>)
  /\ UNCHANGED <<database, signal, recalled, attempt, result, error, registry,
                 call, announced>>

\* The exception handler of handle: the message says that no partial
\* remediation was recorded, the exception goes to the caller.
FailWith(t, event, exception) ==
  /\ pc' = [pc EXCEPT ![t] = "failed"]
  /\ error' = [error EXCEPT ![t] = exception]
  /\ Publish(t, event)
  /\ UNCHANGED <<signal, recalled, attempt, result, registry, call, announced>>

\* authorize_action raises DestructiveActionBlocked.
Block(t) ==
  /\ pc[t] = "reason"
  /\ \E c \in Proposals(t) :
       /\ ~(c.requires_human_approval /\ ~c.approved)
       /\ ~Authorized(t, c)
       /\ command' = [command EXCEPT ![t] = c]
  /\ FailWith(t, <<"decision.proposed", "action.proposed", "response.failed">>,
              "DestructiveActionBlocked")
  /\ UNCHANGED database

\* Embedding, recall, the injection screen or the reasoner raises.
ExternalFailure(t) ==
  /\ pc[t] \in {"recall", "reason", "authorized"}
  /\ FailWith(t, <<"response.failed">>, "external")
  /\ UNCHANGED <<database, command>>

StartTransaction(t) ==
  /\ GoTo(t, "authorized", "execute")
  /\ Publish(t, <<"transaction.started">>)
  /\ UNCHANGED <<database, signal, recalled, command, attempt, result, error,
                 registry, call, announced>>

----------------------------------------------------------------------------
(* CockroachAtomicRemediationStore.remediate_and_record.                   *)

\* Mutant: the statement acts on a resolved incident.
GateAnyStatus(c) ==
  /\ c.cited \in Runbook \cup DOMAIN actions
  /\ ServiceOf[c.incident] = c.service
  /\ c.runbook # Null => runbooks[c.runbook].status = "active"

\* The CTEs provenance, target and runbook_gate each return a row.
Gate(c) ==
  /\ c.cited \in Runbook \cup DOMAIN actions
  /\ ServiceOf[c.incident] = c.service
  /\ incidents[c.incident].status \in {"open", "mitigating"}
  /\ c.runbook # Null => runbooks[c.runbook].status = "active"

\* Mutant: the incident keeps the first runbook that was applied to it.
MitigatingFirstRunbook(c) ==
  [incidents EXCEPT ![c.incident] =
     [@ EXCEPT !.status = "mitigating",
               !.runbook = IF @ = Null THEN c.runbook ELSE @]]

\* Mutant: usage is not counted for an action that cites an episode.
UsedIfCited(c) ==
  [r \in Runbook |-> IF r = c.cited
                       THEN [runbooks[r] EXCEPT !.usage = @ + 1]
                       ELSE runbooks[r]]

\* CTE service_update: the service runs what the new deploy put there.
Deployed(c) ==
  [services EXCEPT ![c.service] = [health |-> "recovering",
                                   version |-> c.remedy,
                                   deploy |-> Len(actions) + 1]]

\* CTE incident_update.
Mitigating(c) ==
  [incidents EXCEPT ![c.incident] =
     [@ EXCEPT !.status = "mitigating", !.runbook = c.runbook]]

\* CTE runbook_usage.
Used(c) ==
  [r \in Runbook |-> IF r = c.runbook
                       THEN [runbooks[r] EXCEPT !.usage = @ + 1]
                       ELSE runbooks[r]]

\* Everything the statement writes; CTEs action, episode and record_action are
\* the appended row.
RemediateAndRecord(t, c) ==
  /\ actions' = Append(actions,
                  [incident |-> c.incident, service |-> c.service,
                   remedy |-> c.remedy, cited |-> c.cited,
                   runbook |-> c.runbook, outcome |-> "success", by |-> t])
  /\ services' = Deployed(c)
  /\ incidents' = Mitigating(c)
  /\ runbooks' = Used(c)
  /\ UNCHANGED outcomes

\* remediate_and_record raises: handle reports a rolled-back transaction.
RollBack(t, exception) ==
  /\ FailWith(t, <<"transaction.rolled_back">>, exception)
  /\ UNCHANGED command

\* Mutant: the final SELECT reads the table, which a statement sees as it was
\* before its own inserts, instead of the RETURNING clause.
CommitOldSnapshot(t) ==
  /\ GoTo(t, "execute", "committed")
  /\ Gate(command[t]) /\ ~KeyTaken(command[t])
  /\ RemediateAndRecord(t, command[t])
  /\ result' = [result EXCEPT ![t] = Len(actions)]
  /\ UNCHANGED <<signal, recalled, command, attempt, error, trail, registry,
                 call, announced>>

\* The idempotency key is free: the unique constraint admits the row.
Commit(t) ==
  /\ GoTo(t, "execute", "committed")
  /\ Gate(command[t]) /\ ~KeyTaken(command[t])
  /\ RemediateAndRecord(t, command[t])
  /\ result' = [result EXCEPT ![t] = Len(actions) + 1]
  /\ UNCHANGED <<signal, recalled, command, attempt, error, trail, registry,
                 call, announced>>

\* The statement commits but its acknowledgement is lost: an error without
\* SQLSTATE 40001 or 23505, wrapped and raised.
CommitUnacknowledged(t) ==
  /\ pc[t] = "execute"
  /\ Gate(command[t]) /\ ~KeyTaken(command[t])
  /\ RemediateAndRecord(t, command[t])
  /\ RollBack(t, "AtomicRemediationError")

\* A gate returns no row, so the statement inserts nothing and returns none.
Reject(t) ==
  /\ pc[t] = "execute"
  /\ ~Gate(command[t])
  /\ RollBack(t, "ProvenanceError")
  /\ UNCHANGED database

\* 23505: the row of an earlier execution holds the key.
Collide(t) ==
  /\ GoTo(t, "execute", "replay")
  /\ Gate(command[t]) /\ KeyTaken(command[t])
  /\ UNCHANGED <<database, signal, recalled, command, attempt, result, error,
                 trail, registry, call, announced>>

\* 40001 with attempts left: back off and execute again.
RetrySerialization(t) ==
  /\ pc[t] = "execute"
  /\ attempt[t] < MaxRetries
  /\ attempt' = [attempt EXCEPT ![t] = @ + 1]
  /\ UNCHANGED <<database, pc, signal, recalled, command, result, error, trail,
                 registry, call, announced>>

\* 40001 on the last attempt.
GiveUp(t) ==
  /\ pc[t] = "execute"
  /\ attempt[t] = MaxRetries
  /\ RollBack(t, "SerializationFailure")
  /\ UNCHANGED database

\* Any other error, before the statement took effect.
DatabaseError(t) ==
  /\ pc[t] = "execute"
  /\ RollBack(t, "AtomicRemediationError")
  /\ UNCHANGED database

\* _replay finds the row that holds the key and returns its ids.
Replay(t) ==
  /\ GoTo(t, "replay", "committed")
  /\ \E n \in DOMAIN actions :
       /\ Key(actions[n]) = Key(command[t])
       /\ result' = [result EXCEPT ![t] = n]
  /\ UNCHANGED <<database, signal, recalled, command, attempt, error, trail,
                 registry, call, announced>>

\* _replay swallows its exception; the collision is raised.
ReplayFails(t) ==
  /\ pc[t] = "replay"
  /\ RollBack(t, "AtomicRemediationError")
  /\ UNCHANGED database

Finish(t) ==
  /\ GoTo(t, "committed", "done")
  /\ Publish(t, <<"transaction.committed", "response.completed">>)
  /\ Complete(t, result[t])
  /\ UNCHANGED <<database, signal, recalled, command, attempt, result, error,
                 call, announced>>

----------------------------------------------------------------------------
(* CockroachOutcomeStore.record_outcome and OutcomeService.record.         *)

\* A client reports on an action whose id it was given; it may name the wrong
\* incident or service.
Post(c) ==
  /\ call[c].pc = "idle"
  /\ \E a \in DOMAIN actions, i \in Incident, s \in Service,
        o \in OutcomeKind, at \in Time :
       call' = [call EXCEPT ![c] =
                  [pc |-> "executing", action |-> a, incident |-> i,
                   service |-> s, outcome |-> o, at |-> at, attempt |-> 0,
                   answer |-> "none"]]
  /\ UNCHANGED <<database, turnVars, registry, announced>>

\* The CTE target returns the action.
Targets(q) ==
  /\ actions[q.action].incident = q.incident
  /\ actions[q.action].service = q.service
  /\ ServiceOf[q.incident] = q.service

\* Mutant: earlier outcomes are not looked up.
ExistingNone(a) == {}

\* The CTE existing: the outcome episodes already written for an action.
Existing(a) == {k \in DOMAIN outcomes : outcomes[k].action = a}

Coalesce(x, y) == IF x = Null THEN y ELSE x

\* Mutant: any verdict resolves the incident.
VerifiedAlways(row, q) ==
  [row EXCEPT !.status = "resolved",
              !.resolved_at = Coalesce(@, q.at),
              !.mttr = Coalesce(@, IF q.at > OpenedAt
                                     THEN q.at - OpenedAt ELSE 0)]

\* incidents after the statement; mttr_seconds is clamped at zero.
Verified(row, q) ==
  IF q.outcome = "success"
    THEN [row EXCEPT !.status = "resolved",
                     !.resolved_at = Coalesce(@, q.at),
                     !.mttr = Coalesce(@, IF q.at > OpenedAt
                                            THEN q.at - OpenedAt ELSE 0)]
    ELSE row

\* Mutant: the table lacks the check.
TimeUnordered(row) == TRUE

\* CHECK incident_time_order on the row the statement would write.
TimeOrdered(row) == row.resolved_at # Null => row.resolved_at >= OpenedAt

\* The statement finds no earlier outcome and its writes pass the check.
Admits(q) ==
  /\ Targets(q)
  /\ Existing(q.action) = {}
  /\ TimeOrdered(Verified(incidents[q.incident], q))

\* Everything the statement writes.  The episode carries the runbook of the
\* incident, as it is when the outcome arrives.
RecordOutcome(q) ==
  /\ actions' = [actions EXCEPT ![q.action] = [@ EXCEPT !.outcome = q.outcome]]
  /\ incidents' = [incidents EXCEPT ![q.incident] = Verified(@, q)]
  /\ outcomes' = Append(outcomes,
                   [action |-> q.action, incident |-> q.incident,
                    outcome |-> q.outcome,
                    runbook |-> incidents[q.incident].runbook])
  /\ UNCHANGED <<services, runbooks>>

Answer(c, a) ==
  call' = [call EXCEPT ![c] = [@ EXCEPT !.pc = "answered", !.answer = a]]

OutcomeCommit(c) ==
  /\ call[c].pc = "executing"
  /\ Admits(call[c])
  /\ RecordOutcome(call[c])
  /\ call' = [call EXCEPT ![c] = [@ EXCEPT !.pc = "recorded"]]
  /\ UNCHANGED <<turnVars, registry, announced>>

\* OutcomeService publishes OUTCOME_RECORDED and answers.
Announce(c) ==
  /\ call[c].pc = "recorded"
  /\ announced' = Append(announced, call[c].action)
  /\ Answer(c, "recorded")
  /\ UNCHANGED <<database, turnVars, registry>>

\* The statement commits, the acknowledgement is lost: OutcomeRecordingError.
OutcomeUnacknowledged(c) ==
  /\ call[c].pc = "executing"
  /\ Admits(call[c])
  /\ RecordOutcome(call[c])
  /\ Answer(c, "error")
  /\ UNCHANGED <<turnVars, registry, announced>>

\* Mutant: any replay is answered as recorded.
ReplayAnswerAny(episode, q) == "replayed"

\* A replay that reports something else than what is recorded conflicts.
ReplayAnswer(episode, q) ==
  IF episode.outcome = q.outcome THEN "replayed" ELSE "OutcomeConflict"

\* Mutant: a replay is published like a new outcome.
OutcomeReplayAnnounced(c) ==
  /\ call[c].pc = "executing"
  /\ Targets(call[c]) /\ Existing(call[c].action) # {}
  /\ call' = [call EXCEPT ![c] = [@ EXCEPT !.pc = "recorded"]]
  /\ UNCHANGED <<database, turnVars, registry, announced>>

\* An outcome exists: it is returned as a replay, or conflicts.
OutcomeReplay(c) ==
  /\ call[c].pc = "executing"
  /\ Targets(call[c])
  /\ \E k \in Existing(call[c].action) :
       /\ \A j \in Existing(call[c].action) : k <= j
       /\ Answer(c, ReplayAnswer(outcomes[k], call[c]))
  /\ UNCHANGED <<database, turnVars, registry, announced>>

OutcomeReject(c) ==
  /\ call[c].pc = "executing"
  /\ ~Targets(call[c])
  /\ Answer(c, "ProvenanceError")
  /\ UNCHANGED <<database, turnVars, registry, announced>>

\* Mutant: the attempt counter starts over.
OutcomeRetryForever(c) ==
  /\ call[c].pc = "executing"
  /\ call' = [call EXCEPT ![c] =
                [@ EXCEPT !.attempt = (@ + 1) % (MaxRetries + 1)]]
  /\ UNCHANGED <<database, turnVars, registry, announced>>

OutcomeRetry(c) ==
  /\ call[c].pc = "executing"
  /\ call[c].attempt < MaxRetries
  /\ call' = [call EXCEPT ![c].attempt = @ + 1]
  /\ UNCHANGED <<database, turnVars, registry, announced>>

\* The embedding or the statement fails: the time check, 40001 on the last
\* attempt, or any other error before the commit.
OutcomeError(c) ==
  /\ call[c].pc = "executing"
  /\ Answer(c, "error")
  /\ UNCHANGED <<database, turnVars, registry, announced>>

----------------------------------------------------------------------------
(* The consolidation job (seen from here: it only moves statuses) and the  *)
(* process.                                                                *)

Activate(r) ==
  /\ runbooks[r].status = "draft"
  /\ runbooks' = [runbooks EXCEPT ![r] = [@ EXCEPT !.status = "active"]]
  /\ UNCHANGED <<incidents, services, actions, outcomes, turnVars, registry,
                 call, announced>>

Deprecate(r) ==
  /\ runbooks[r].status # "deprecated"
  /\ runbooks' = [runbooks EXCEPT ![r] = [@ EXCEPT !.status = "deprecated"]]
  /\ UNCHANGED <<incidents, services, actions, outcomes, turnVars, registry,
                 call, announced>>

\* Threads die where they are, the process-local registry is empty again.
Crash ==
  /\ \/ \E t \in Turn : pc[t] \notin Terminal \cup {"idle"}
     \/ \E c \in Call : call[c].pc \in {"executing", "recorded"}
  /\ pc' = [t \in Turn |-> IF pc[t] \in Terminal \cup {"idle"}
                             THEN pc[t] ELSE "crashed"]
  /\ call' = [c \in Call |-> IF call[c].pc \in {"executing", "recorded"}
                               THEN [call[c] EXCEPT !.pc = "crashed"]
                               ELSE call[c]]
  /\ registry' = [i \in Incident |-> [received |-> FALSE, completed |-> FALSE,
                                      action |-> Null]]
  /\ UNCHANGED <<database, signal, recalled, command, attempt, result, error,
                 trail, announced>>

----------------------------------------------------------------------------
Arrive(t) == RefuseSignal(t) \/ Receive(t)

Deliberate(t) ==
  \/ Recall(t) \/ Decline(t) \/ PauseForApproval(t) \/ Authorize(t)
  \/ Block(t) \/ ExternalFailure(t) \/ StartTransaction(t)

Execute(t) ==
  \/ Commit(t) \/ CommitUnacknowledged(t) \/ Reject(t) \/ Collide(t)
  \/ RetrySerialization(t) \/ GiveUp(t) \/ DatabaseError(t)
  \/ Replay(t) \/ ReplayFails(t) \/ Finish(t)

TurnStep(t) == Deliberate(t) \/ Execute(t)

CallStep(c) ==
  \/ OutcomeCommit(c) \/ Announce(c) \/ OutcomeUnacknowledged(c)
  \/ OutcomeReplay(c) \/ OutcomeReject(c) \/ OutcomeRetry(c) \/ OutcomeError(c)

Next ==
  \/ \E t \in Turn : Arrive(t) \/ TurnStep(t)
  \/ \E c \in Call : Post(c) \/ CallStep(c)
  \/ \E r \in Runbook : Activate(r) \/ Deprecate(r)
  \/ Crash

Spec == Init /\ [][Next]_vars

\* A request that was accepted keeps running: each of its steps is ordinary
\* code or a call that returns or raises.  Nothing obliges a client to send a
\* request, the consolidation job to run, or the process to crash.
FairSpec ==
  /\ Spec
  /\ \A t \in Turn : WF_vars(TurnStep(t))
  /\ \A c \in Call : WF_vars(CallStep(c))

----------------------------------------------------------------------------
(* What the two stores promise, whatever happens to turns, acknowledgements *)
(* and processes: see RemediationLedger.                                    *)

applied == [n \in DOMAIN actions |-> Key(actions[n])]
verdict == [n \in DOMAIN actions |->
              IF Existing(n) = {} THEN "none" ELSE actions[n].outcome]
closed  == {i \in Incident : incidents[i].status = "resolved"}

Ledger == INSTANCE RemediationLedger
            WITH applied <- applied, verdict <- verdict, closed <- closed

\* Turns and calls implement the ledger: each command is applied at most once
\* and never to a closed incident, each action is judged at most once, and an
\* incident closes exactly with the first success among its actions.
ImplementsLedger == Ledger!Spec

----------------------------------------------------------------------------
(* Properties.                                                             *)

\* A command is executed at most once: however its turns are duplicated,
\* retried after 40001 or repeated after a lost acknowledgement, no two rows
\* of remediation_actions hold one idempotency key.
AtMostOncePerCommand ==
  \A m, n \in DOMAIN actions : Key(actions[m]) = Key(actions[n]) => m = n

\* The result a turn returns (committed, or replayed after a collision) names
\* the row of its own command.
ResultIsOwnCommand ==
  \A t \in Turn : result[t] # Null =>
    /\ result[t] \in DOMAIN actions
    /\ Key(actions[result[t]]) = Key(command[t])

\* usage_count moves once per committed action, not once per attempt.
UsageCountsActions ==
  \A r \in Runbook :
    runbooks[r].usage =
      Cardinality({n \in DOMAIN actions : actions[n].runbook = r})

\* services shows the last action committed on the service, whichever turn or
\* incident it came from: current_deploy_id and current_version move together.
ServiceShowsLastAction ==
  \A s \in Service :
    LET mine == {n \in DOMAIN actions : actions[n].service = s} IN
    IF services[s].deploy = 0
      THEN mine = {} /\ services[s].version = Null
      ELSE /\ services[s].deploy \in mine
           /\ \A n \in mine : n <= services[s].deploy
           /\ services[s].version = actions[services[s].deploy].remedy

\* incidents.runbook_id is that of the incident's last action, and an incident
\* is 'open' exactly as long as it has none.
IncidentShowsLastAction ==
  \A i \in Incident :
    LET mine == {n \in DOMAIN actions : actions[n].incident = i} IN
    /\ incidents[i].status = "open" <=> mine = {}
    /\ \A n \in mine : (\A m \in mine : m <= n)
                          => incidents[i].runbook = actions[n].runbook

\* An incident is resolved exactly when an outcome 'success' was recorded for
\* one of its actions, and then resolved_at and mttr_seconds agree.
ResolvedMeansVerified ==
  \A i \in Incident :
    /\ incidents[i].status = "resolved"
         <=> \E k \in DOMAIN outcomes : /\ outcomes[k].incident = i
                                        /\ outcomes[k].outcome = "success"
    /\ IF incidents[i].status = "resolved"
         THEN /\ incidents[i].resolved_at \in Nat
              /\ incidents[i].resolved_at >= OpenedAt
              /\ incidents[i].mttr = incidents[i].resolved_at - OpenedAt
         ELSE incidents[i].resolved_at = Null /\ incidents[i].mttr = Null

\* One outcome per action: concurrent and repeated reports leave one outcome
\* episode, and the action row says what that episode says.
OneOutcomePerAction ==
  /\ \A j, k \in DOMAIN outcomes : outcomes[j].action = outcomes[k].action => j = k
  /\ \A k \in DOMAIN outcomes :
       /\ outcomes[k].action \in DOMAIN actions
       /\ actions[outcomes[k].action].outcome = outcomes[k].outcome
       /\ actions[outcomes[k].action].incident = outcomes[k].incident

\* A positive answer stays true: a client told "recorded" or "replayed" sees
\* its outcome in the action row from then on.
AnswersStayTrue ==
  \A c \in Call : call[c].answer \in {"recorded", "replayed"} =>
    actions[call[c].action].outcome = call[c].outcome

\* OUTCOME_RECORDED is published at most once per action and only for an
\* outcome that is in the database.
AnnouncedOnce ==
  /\ \A j, k \in DOMAIN announced : announced[j] = announced[k] => j = k
  /\ \A j \in DOMAIN announced : Existing(announced[j]) # {}

\* No action whose tags name a critical service, or for which the reasoner
\* asked for approval, is in the database without the approval of a named human.
ApprovedByNamedHuman ==
  \A n \in DOMAIN actions :
    LET t == actions[n].by IN
    HighBlastRadius(t, command[t]) => signal[t].approved /\ signal[t].named

\* Every action is grounded: it cites a runbook, or the episode of an earlier
\* action on the same service for another incident, and uses that runbook.
Grounded ==
  \A n \in DOMAIN actions :
    IF actions[n].cited \in Runbook
      THEN actions[n].runbook = actions[n].cited
      ELSE /\ actions[n].cited \in 1..(n - 1)
           /\ actions[actions[n].cited].service = actions[n].service
           /\ actions[actions[n].cited].incident # actions[n].incident
           /\ actions[actions[n].cited].runbook = actions[n].runbook

\* The registry never shows an action that is not in the database, nor one of
\* another incident.
RegistryIsBacked ==
  \A i \in Incident : registry[i].action # Null =>
    /\ registry[i].action \in DOMAIN actions
    /\ actions[registry[i].action].incident = i

\* What callers are shown is in the database: the result of a turn, however it
\* was obtained, and the read model of an incident after any order of
\* completions and crashes.
ResultsAreBacked == ResultIsOwnCommand /\ RegistryIsBacked

\* The tables the statement changes beside remediation_actions agree with its
\* rows: runbook usage, and the version and deploy of every service.
TablesAgree == UsageCountsActions /\ ServiceShowsLastAction

\* A resolved incident is final: its row never changes again and no later turn
\* acts on it, whatever it recalled while the incident was open.
ResolvedIsFinal ==
  [][\A i \in Incident : incidents[i].status = "resolved" =>
       /\ incidents'[i] = incidents[i]
       /\ \A n \in DOMAIN actions' \ DOMAIN actions : actions'[n].incident # i]_vars

\* Every accepted turn ends: the retry loop is bounded and nothing waits for
\* another turn.
EveryTurnEnds == \A t \in Turn : pc[t] = "recall" ~> pc[t] \in Terminal

\* Every outcome call is answered unless the process dies under it.
EveryCallEnds ==
  \A c \in Call : call[c].pc = "executing" ~> call[c].pc \in {"answered", "crashed"}

\* No accepted request, turn or outcome call, runs for ever.
EveryRequestEnds == EveryTurnEnds /\ EveryCallEnds
============================================================================
