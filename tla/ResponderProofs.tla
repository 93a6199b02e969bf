-------------------------- MODULE ResponderProofs --------------------------
(***************************************************************************)
(* Theorems about Responder for any number of turns, calls, incidents and  *)
(* runbooks, and any bound on retries.                                     *)
(***************************************************************************)
EXTENDS Responder, SequenceTheorems, FiniteSetTheorems, TLAPS

\* What the program counters say about the locals they make meaningful.
TurnInv ==
  \A t \in Turn :
    /\ pc[t] \notin {"idle", "refused", "crashed"} => signal[t] \in IncidentSignal
    /\ pc[t] \in {"authorized", "execute", "replay", "committed"}
         => command[t] \in RemediationCommand
    /\ recalled[t] \subseteq Runbook \cup DOMAIN actions

CallInv ==
  \A c \in Call : call[c].pc # "idle" =>
    /\ call[c].action \in DOMAIN actions
    /\ call[c].incident \in Incident
    /\ call[c].service \in Service
    /\ call[c].outcome \in OutcomeKind

TypeInv == TypeOK /\ TurnInv /\ CallInv

LEMMA InitTypeInv == Init => TypeInv
  BY ResponderAssumption
  DEF Init, TypeInv, TypeOK, TablesOK, TurnsOK, TurnInv, CallInv,
      IncidentStatus, RunbookStatus, TurnPC, NoCall, OutcomeCall

\* Publishing events keeps the trail a sequence of events.
LEMMA PublishType ==
  ASSUME TypeOK, NEW t \in Turn, NEW events \in Seq(EventType), Publish(t, events)
  PROVE  trail' \in [Turn -> Seq(EventType)]
  BY DEF TypeOK, Publish

\* The registry keeps its type, whatever the incident a turn completes.
LEMMA CompleteType ==
  ASSUME TypeOK, NEW t \in Turn, NEW a \in Nat \cup {Null}, Complete(t, a)
  PROVE  registry' \in [Incident -> [received : BOOLEAN, completed : BOOLEAN,
                                     action : Nat \cup {Null}]]
  BY DEF TypeOK, Complete

\* A step that leaves tables and calls alone has only the turns to account for.
LEMMA TurnsOnly ==
  ASSUME TypeInv, UNCHANGED <<database, call, announced>>,
         TurnsOK', TurnInv',
         trail' \in [Turn -> Seq(EventType)],
         registry' \in [Incident -> [received : BOOLEAN, completed : BOOLEAN,
                                     action : Nat \cup {Null}]]
  PROVE  TypeInv'
  BY DEF TypeInv, TypeOK, TablesOK, CallInv, database

LEMMA ArriveTypeInv ==
  ASSUME TypeInv, NEW t \in Turn, Arrive(t)
  PROVE  TypeInv'
<1>1. CASE RefuseSignal(t)
  <2>1. TurnsOK' /\ TurnInv'
    BY <1>1 DEF RefuseSignal, GoTo, TypeInv, TypeOK, TurnsOK, TurnInv, TurnPC, database
  <2> QED BY <1>1, <2>1, TurnsOnly DEF RefuseSignal, TypeInv, TypeOK
<1>2. CASE Receive(t)
  <2>1. PICK sig \in Requests :
          /\ signal' = [signal EXCEPT ![t] = sig]
          /\ registry' = [registry EXCEPT ![sig.incident].received = TRUE]
    BY <1>2 DEF Receive
  <2>2. sig \in IncidentSignal
    BY ResponderAssumption DEF IncidentSignal
  <2>3. TurnsOK' /\ TurnInv'
    BY <1>2, <2>1, <2>2 DEF Receive, GoTo, TypeInv, TypeOK, TurnsOK, TurnInv, TurnPC, database
  <2>4. trail' \in [Turn -> Seq(EventType)]
    BY <1>2, PublishType, <<"incident.received", "recall.started">> \in Seq(EventType)
    DEF Receive, TypeInv, EventType
  <2>5. registry' \in [Incident -> [received : BOOLEAN, completed : BOOLEAN,
                                     action : Nat \cup {Null}]]
    BY <2>1 DEF TypeInv, TypeOK
  <2> QED BY <1>2, <2>3, <2>4, <2>5, TurnsOnly DEF Receive
<1> QED BY <1>1, <1>2 DEF Arrive

\* Whatever the reasoner proposes is a command for the turn's own signal.
LEMMA ProposalType ==
  ASSUME TypeInv, NEW t \in Turn, pc[t] = "reason", NEW c \in Proposals(t)
  PROVE  c \in RemediationCommand
<1>1. signal[t] \in IncidentSignal /\ recalled[t] \subseteq Memory
       /\ recalled[t] \subseteq Runbook \cup DOMAIN actions
  BY DEF TypeInv, TypeOK, TurnsOK, TurnInv
<1>2. PICK remedy \in Remedy, memory \in recalled[t], ask \in BOOLEAN :
        c = [incident |-> signal[t].incident, service |-> signal[t].service,
             remedy |-> remedy, cited |-> memory, runbook |-> RunbookOf(memory),
             requires_human_approval |-> ask, approved |-> signal[t].approved]
  BY DEF Proposals
<1>3. RunbookOf(memory) \in Runbook \cup {Null}
  <2>1. CASE memory \in Runbook
    BY <2>1 DEF RunbookOf
  <2>2. CASE memory \notin Runbook
    <3>1. memory \in DOMAIN actions
      BY <1>1, <1>2, <2>2
    <3>2. actions[memory] \in ActionRow
      BY <3>1 DEF TypeInv, TypeOK, TablesOK
    <3> QED BY <2>2, <3>2 DEF RunbookOf, ActionRow
  <2> QED BY <2>1, <2>2
<1> QED BY <1>1, <1>2, <1>3 DEF RemediationCommand, IncidentSignal

LEMMA DeliberateTypeInv ==
  ASSUME TypeInv, NEW t \in Turn, Deliberate(t)
  PROVE  TypeInv'
<1> USE DEF TypeInv, TypeOK, TurnsOK, GoTo, TurnPC
<1>1. CASE Recall(t)
  <2>1. Actionable(signal[t]) \subseteq Runbook \cup DOMAIN actions
    BY DEF Actionable
  <2>2. DOMAIN actions \subseteq Nat \ {0}
    BY DEF TablesOK
  <2>3. Actionable(signal[t]) \subseteq Memory
    BY <2>1, <2>2 DEF Memory
  <2>4. TurnsOK' /\ TurnInv'
    BY <1>1, <2>1, <2>3 DEF Recall, TurnInv, database
  <2>5. trail' \in [Turn -> Seq(EventType)]
    BY <1>1, PublishType, <<"recall.completed", "reasoning.started">> \in Seq(EventType)
    DEF Recall, EventType
  <2> QED BY <1>1, <2>4, <2>5, TurnsOnly DEF Recall
<1>2. CASE Decline(t)
  <2>1. TurnsOK' /\ TurnInv'
    BY <1>2 DEF Decline, TurnInv, database
  <2>2. trail' \in [Turn -> Seq(EventType)]
    BY <1>2, PublishType, <<"decision.proposed", "response.completed">> \in Seq(EventType)
    DEF Decline, EventType
  <2> QED BY <1>2, <2>1, <2>2, CompleteType, TurnsOnly DEF Decline
<1>3. CASE PauseForApproval(t)
  <2>1. PICK c \in Proposals(t) : command' = [command EXCEPT ![t] = c]
    BY <1>3 DEF PauseForApproval
  <2>2. c \in RemediationCommand
    BY <1>3, ProposalType DEF PauseForApproval
  <2>3. TurnsOK' /\ TurnInv'
    BY <1>3, <2>1, <2>2 DEF PauseForApproval, TurnInv, database
  <2>4. trail' \in [Turn -> Seq(EventType)]
    BY <1>3, PublishType, <<"decision.proposed", "action.proposed", "approval.required",
                            "response.completed">> \in Seq(EventType)
    DEF PauseForApproval, EventType
  <2> QED BY <1>3, <2>3, <2>4, CompleteType, TurnsOnly DEF PauseForApproval
<1>4. CASE Authorize(t)
  <2>1. PICK c \in Proposals(t) : command' = [command EXCEPT ![t] = c]
    BY <1>4 DEF Authorize
  <2>2. c \in RemediationCommand
    BY <1>4, ProposalType DEF Authorize
  <2>3. TurnsOK' /\ TurnInv'
    BY <1>4, <2>1, <2>2 DEF Authorize, TurnInv, database
  <2>4. trail' \in [Turn -> Seq(EventType)]
    BY <1>4, PublishType, <<"decision.proposed", "action.proposed">> \in Seq(EventType)
    DEF Authorize, EventType
  <2> QED BY <1>4, <2>3, <2>4, TurnsOnly DEF Authorize
<1>5. CASE Block(t)
  <2>1. PICK c \in Proposals(t) : command' = [command EXCEPT ![t] = c]
    BY <1>5 DEF Block
  <2>2. c \in RemediationCommand
    BY <1>5, ProposalType DEF Block
  <2>3. TurnsOK' /\ TurnInv'
    BY <1>5, <2>1, <2>2 DEF Block, FailWith, TurnInv, database
  <2>4. trail' \in [Turn -> Seq(EventType)]
    BY <1>5, PublishType,
       <<"decision.proposed", "action.proposed", "response.failed">> \in Seq(EventType)
    DEF Block, FailWith, EventType
  <2> QED BY <1>5, <2>3, <2>4, TurnsOnly DEF Block, FailWith
<1>6. CASE ExternalFailure(t)
  <2>1. TurnsOK' /\ TurnInv'
    BY <1>6 DEF ExternalFailure, FailWith, TurnInv, database
  <2>2. trail' \in [Turn -> Seq(EventType)]
    BY <1>6, PublishType, <<"response.failed">> \in Seq(EventType)
    DEF ExternalFailure, FailWith, EventType
  <2> QED BY <1>6, <2>1, <2>2, TurnsOnly DEF ExternalFailure, FailWith
<1>7. CASE StartTransaction(t)
  <2>1. TurnsOK' /\ TurnInv'
    BY <1>7 DEF StartTransaction, TurnInv, database
  <2>2. trail' \in [Turn -> Seq(EventType)]
    BY <1>7, PublishType, <<"transaction.started">> \in Seq(EventType)
    DEF StartTransaction, EventType
  <2> QED BY <1>7, <2>1, <2>2, TurnsOnly DEF StartTransaction
<1> QED BY <1>1, <1>2, <1>3, <1>4, <1>5, <1>6, <1>7 DEF Deliberate

\* The statement writes well-typed rows and never shortens the table.
LEMMA RemediateType ==
  ASSUME TypeInv, NEW t \in Turn, NEW c \in RemediationCommand,
         RemediateAndRecord(t, c)
  PROVE  TablesOK' /\ DOMAIN actions \subseteq DOMAIN actions'
<1> USE DEF TypeInv, TypeOK, TablesOK, RemediateAndRecord, RemediationCommand
<1>1. actions' \in Seq(ActionRow) /\ DOMAIN actions \subseteq DOMAIN actions'
  <2> DEFINE row == [incident |-> c.incident, service |-> c.service,
                     remedy |-> c.remedy, cited |-> c.cited,
                     runbook |-> c.runbook, outcome |-> "success", by |-> t]
  <2>1. row \in ActionRow
    BY DEF ActionRow, OutcomeKind
  <2>2. actions' = Append(actions, row)
    OBVIOUS
  <2> QED BY <2>1, <2>2
<1>2. services' \in [Service -> [health : {"degraded", "recovering"},
                                version : Remedy \cup {Null}, deploy : Nat]]
  BY DEF Deployed
<1>3. incidents' \in [Incident -> [status : IncidentStatus,
                                  runbook : Runbook \cup {Null},
                                  resolved_at : Nat \cup {Null},
                                  mttr : Nat \cup {Null}]]
  <2>1. c.incident \in Incident /\ c.runbook \in Runbook \cup {Null}
    OBVIOUS
  <2>2. incidents[c.incident] \in [status : IncidentStatus,
                                   runbook : Runbook \cup {Null},
                                   resolved_at : Nat \cup {Null},
                                   mttr : Nat \cup {Null}]
    BY <2>1
  <2>3. [incidents[c.incident] EXCEPT !.status = "mitigating", !.runbook = c.runbook]
          \in [status : IncidentStatus, runbook : Runbook \cup {Null},
               resolved_at : Nat \cup {Null}, mttr : Nat \cup {Null}]
    BY <2>1, <2>2 DEF IncidentStatus
  <2>4. incidents' = [incidents EXCEPT ![c.incident] =
                        [incidents[c.incident] EXCEPT !.status = "mitigating",
                                                      !.runbook = c.runbook]]
    BY DEF Mitigating
  <2> HIDE DEF RemediateAndRecord, RemediationCommand
  <2> QED BY <2>1, <2>3, <2>4
<1>4. runbooks' \in [Runbook -> [status : RunbookStatus, usage : Nat]]
  BY DEF Used
<1> QED BY <1>1, <1>2, <1>3, <1>4

\* A step of a turn that may write the tables but leaves the calls alone.
LEMMA TurnAndTables ==
  ASSUME TypeInv, UNCHANGED <<call, announced>>,
         TablesOK', DOMAIN actions \subseteq DOMAIN actions', TurnsOK', TurnInv',
         trail' \in [Turn -> Seq(EventType)],
         registry' \in [Incident -> [received : BOOLEAN, completed : BOOLEAN,
                                     action : Nat \cup {Null}]]
  PROVE  TypeInv'
  BY DEF TypeInv, TypeOK, CallInv

LEMMA RollBackType ==
  ASSUME TypeInv, NEW t \in Turn, pc[t] \in {"execute", "replay"},
         NEW e \in {"ProvenanceError", "AtomicRemediationError", "SerializationFailure"},
         RollBack(t, e), TablesOK', DOMAIN actions \subseteq DOMAIN actions'
  PROVE  TypeInv'
<1>1. TurnsOK' /\ TurnInv'
  BY DEF RollBack, FailWith, TypeInv, TypeOK, TurnsOK, TurnPC, TurnInv
<1>2. trail' \in [Turn -> Seq(EventType)]
  BY PublishType, <<"transaction.rolled_back">> \in Seq(EventType)
  DEF RollBack, FailWith, TypeInv, EventType
<1> QED BY <1>1, <1>2, TurnAndTables DEF RollBack, FailWith, TypeInv, TypeOK

LEMMA ExecuteTypeInv ==
  ASSUME TypeInv, NEW t \in Turn, Execute(t)
  PROVE  TypeInv'
<1> USE DEF GoTo
<1>1. ASSUME pc[t] = "execute" PROVE command[t] \in RemediationCommand
  BY <1>1 DEF TypeInv, TurnInv
<1>2. CASE Commit(t)
  <2>1. TablesOK' /\ DOMAIN actions \subseteq DOMAIN actions'
    BY <1>1, <1>2, RemediateType DEF Commit
  <2>2. Len(actions) \in Nat
    BY DEF TypeInv, TypeOK, TablesOK
  <2>3. TurnsOK' /\ TurnInv'
    BY <1>2, <2>1, <2>2 DEF Commit, TypeInv, TypeOK, TurnsOK, TurnPC, TurnInv
  <2> QED BY <1>2, <2>1, <2>3, TurnAndTables DEF Commit, TypeInv, TypeOK
<1>3. CASE CommitUnacknowledged(t)
  <2>1. TablesOK' /\ DOMAIN actions \subseteq DOMAIN actions'
    BY <1>1, <1>3, RemediateType DEF CommitUnacknowledged
  <2> QED BY <1>3, <2>1, RollBackType DEF CommitUnacknowledged
<1>4. ASSUME UNCHANGED database
      PROVE  TablesOK' /\ DOMAIN actions \subseteq DOMAIN actions'
  BY <1>4 DEF TypeInv, TypeOK, TablesOK, database
<1>5. CASE Reject(t)
  BY <1>4, <1>5, RollBackType DEF Reject
<1>6. CASE GiveUp(t)
  BY <1>4, <1>6, RollBackType DEF GiveUp
<1>7. CASE DatabaseError(t)
  BY <1>4, <1>7, RollBackType DEF DatabaseError
<1>8. CASE ReplayFails(t)
  BY <1>4, <1>8, RollBackType DEF ReplayFails
<1>9. CASE Collide(t)
  <2>1. TurnsOK' /\ TurnInv'
    BY <1>9 DEF Collide, TypeInv, TypeOK, TurnsOK, TurnPC, TurnInv, database
  <2> QED BY <1>9, <2>1, TurnsOnly DEF Collide, TypeInv, TypeOK
<1>10. CASE RetrySerialization(t)
  <2>1. attempt' \in [Turn -> 0..MaxRetries]
    BY <1>10, ResponderAssumption DEF RetrySerialization, TypeInv, TypeOK, TurnsOK
  <2>2. TurnsOK' /\ TurnInv'
    BY <1>10, <2>1 DEF RetrySerialization, TypeInv, TypeOK, TurnsOK, TurnInv, database
  <2> QED BY <1>10, <2>2, TurnsOnly DEF RetrySerialization, TypeInv, TypeOK
<1>11. CASE Replay(t)
  <2>1. PICK n \in DOMAIN actions : result' = [result EXCEPT ![t] = n]
    BY <1>11 DEF Replay
  <2>2. n \in Nat
    BY DEF TypeInv, TypeOK, TablesOK
  <2>3. TurnsOK' /\ TurnInv'
    BY <1>11, <2>1, <2>2 DEF Replay, TypeInv, TypeOK, TurnsOK, TurnPC, TurnInv, database
  <2> QED BY <1>11, <2>3, TurnsOnly DEF Replay, TypeInv, TypeOK
<1>12. CASE Finish(t)
  <2>1. TurnsOK' /\ TurnInv'
    BY <1>12 DEF Finish, TypeInv, TypeOK, TurnsOK, TurnPC, TurnInv, database
  <2>2. trail' \in [Turn -> Seq(EventType)]
    BY <1>12, PublishType,
       <<"transaction.committed", "response.completed">> \in Seq(EventType)
    DEF Finish, EventType, TypeInv
  <2>3. result[t] \in Nat \cup {Null}
    BY DEF TypeInv, TypeOK, TurnsOK
  <2> QED BY <1>12, <2>1, <2>2, <2>3, CompleteType, TurnsOnly DEF Finish, TypeInv
<1> QED BY <1>2, <1>3, <1>5, <1>6, <1>7, <1>8, <1>9, <1>10, <1>11, <1>12 DEF Execute

\* The incident row a verdict leaves behind is well typed.
LEMMA VerifiedType ==
  ASSUME NEW row \in [status : IncidentStatus, runbook : Runbook \cup {Null},
                      resolved_at : Nat \cup {Null}, mttr : Nat \cup {Null}],
         NEW q \in OutcomeCall
  PROVE  Verified(row, q) \in [status : IncidentStatus, runbook : Runbook \cup {Null},
                               resolved_at : Nat \cup {Null}, mttr : Nat \cup {Null}]
<1>1. q.at \in Nat
  BY DEF OutcomeCall
<1>2. (IF q.at > OpenedAt THEN q.at - OpenedAt ELSE 0) \in Nat
  BY <1>1, ResponderAssumption
<1>3. Coalesce(row.resolved_at, q.at) \in Nat \cup {Null}
  BY <1>1 DEF Coalesce
<1>4. Coalesce(row.mttr, IF q.at > OpenedAt THEN q.at - OpenedAt ELSE 0)
        \in Nat \cup {Null}
  BY <1>2 DEF Coalesce
<1> QED BY <1>3, <1>4 DEF Verified, IncidentStatus

\* A recorded outcome writes well-typed rows and adds or removes no action.
LEMMA RecordOutcomeType ==
  ASSUME TypeInv, NEW c \in Call, call[c].pc = "executing", RecordOutcome(call[c])
  PROVE  TablesOK' /\ DOMAIN actions' = DOMAIN actions
<1> DEFINE q == call[c]
<1>1. /\ q \in OutcomeCall /\ q.action \in DOMAIN actions /\ q.incident \in Incident
      /\ q.outcome \in OutcomeKind
  BY DEF TypeInv, TypeOK, CallInv
<1>2. /\ actions' \in Seq(ActionRow)
      /\ DOMAIN actions' = DOMAIN actions
  <2>1. actions \in Seq(ActionRow) /\ actions[q.action] \in ActionRow
    BY <1>1 DEF TypeInv, TypeOK, TablesOK
  <2>2. [actions[q.action] EXCEPT !.outcome = q.outcome] \in ActionRow
    BY <1>1, <2>1 DEF ActionRow
  <2>3. actions' = [actions EXCEPT ![q.action] =
                      [actions[q.action] EXCEPT !.outcome = q.outcome]]
    BY DEF RecordOutcome
  <2> HIDE DEF q
  <2> QED BY <1>1, <2>1, <2>2, <2>3
<1>3. incidents' \in [Incident -> [status : IncidentStatus,
                                  runbook : Runbook \cup {Null},
                                  resolved_at : Nat \cup {Null},
                                  mttr : Nat \cup {Null}]]
  <2>1. Verified(incidents[q.incident], q)
          \in [status : IncidentStatus, runbook : Runbook \cup {Null},
               resolved_at : Nat \cup {Null}, mttr : Nat \cup {Null}]
    BY <1>1, VerifiedType DEF TypeInv, TypeOK, TablesOK
  <2>2. incidents' = [incidents EXCEPT ![q.incident] = Verified(incidents[q.incident], q)]
    BY DEF RecordOutcome
  <2> HIDE DEF q
  <2> QED BY <1>1, <2>1, <2>2 DEF TypeInv, TypeOK, TablesOK
<1>4. outcomes' \in Seq(OutcomeEpisode)
  <2>1. incidents[q.incident].runbook \in Runbook \cup {Null}
    BY <1>1 DEF TypeInv, TypeOK, TablesOK
  <2>2. q.action \in Nat \ {0}
    BY <1>1 DEF TypeInv, TypeOK, TablesOK
  <2>3. [action |-> q.action, incident |-> q.incident, outcome |-> q.outcome,
         runbook |-> incidents[q.incident].runbook] \in OutcomeEpisode
    BY <1>1, <2>1, <2>2 DEF OutcomeEpisode
  <2> QED BY <2>3 DEF RecordOutcome, TypeInv, TypeOK, TablesOK
<1> QED BY <1>2, <1>3, <1>4 DEF RecordOutcome, TypeInv, TypeOK, TablesOK

\* A step that changes call c and perhaps the tables, but no turn.
LEMMA CallsOnly ==
  ASSUME TypeInv, UNCHANGED <<turnVars, registry>>,
         TablesOK', DOMAIN actions' = DOMAIN actions,
         announced' \in Seq(Nat \ {0}),
         NEW c \in Call, NEW q \in OutcomeCall,
         call' = [call EXCEPT ![c] = q],
         /\ q.action \in DOMAIN actions /\ q.incident \in Incident
         /\ q.service \in Service /\ q.outcome \in OutcomeKind
  PROVE  TypeInv'
<1>1. TurnsOK' /\ TurnInv' /\ trail' = trail /\ registry' = registry
  BY DEF TypeInv, TypeOK, TurnsOK, TurnInv, turnVars
<1>2. call' \in [Call -> OutcomeCall] /\ CallInv'
  BY DEF TypeInv, TypeOK, CallInv
<1> QED BY <1>1, <1>2 DEF TypeInv, TypeOK

\* What an outcome call does keeps the types.
LEMMA CallTypeInv ==
  ASSUME TypeInv, NEW c \in Call, Post(c) \/ CallStep(c)
  PROVE  TypeInv'
<1>1. call[c] \in OutcomeCall /\ announced \in Seq(Nat \ {0})
  BY DEF TypeInv, TypeOK
<1>2. ASSUME UNCHANGED database
      PROVE  TablesOK' /\ DOMAIN actions' = DOMAIN actions
  BY <1>2 DEF TypeInv, TypeOK, TablesOK, database
<1>3. ASSUME call[c].pc # "idle"
      PROVE  /\ call[c].action \in DOMAIN actions /\ call[c].incident \in Incident
             /\ call[c].service \in Service /\ call[c].outcome \in OutcomeKind
  BY <1>3 DEF TypeInv, CallInv
<1>4. CASE Post(c)
  <2>1. PICK a \in DOMAIN actions, i \in Incident, s \in Service,
             o \in OutcomeKind, at \in Time :
          call' = [call EXCEPT ![c] =
                     [pc |-> "executing", action |-> a, incident |-> i,
                      service |-> s, outcome |-> o, at |-> at, attempt |-> 0,
                      answer |-> "none"]]
    BY <1>4 DEF Post
  <2>2. a \in Nat /\ at \in Nat /\ 0 \in 0..MaxRetries
    BY ResponderAssumption DEF TypeInv, TypeOK, TablesOK
  <2> DEFINE q == [pc |-> "executing", action |-> a, incident |-> i,
                   service |-> s, outcome |-> o, at |-> at, attempt |-> 0,
                   answer |-> "none"]
  <2>3. q \in OutcomeCall /\ q.action = a /\ q.incident = i /\ q.service = s /\ q.outcome = o
    BY <2>2 DEF OutcomeCall
  <2>4. call' = [call EXCEPT ![c] = q]
    BY <2>1
  <2> HIDE DEF q
  <2> QED BY <1>1, <1>2, <1>4, <2>3, <2>4, CallsOnly DEF Post
<1>5. ASSUME NEW a \in {"recorded", "replayed", "OutcomeConflict", "ProvenanceError", "error"},
             call[c].pc # "idle", Answer(c, a), UNCHANGED <<turnVars, registry>>,
             TablesOK', DOMAIN actions' = DOMAIN actions, announced' \in Seq(Nat \ {0})
      PROVE  TypeInv'
  <2> DEFINE q == [call[c] EXCEPT !.pc = "answered", !.answer = a]
  <2>1. q \in OutcomeCall
    BY <1>1 DEF OutcomeCall
  <2>2. /\ q.action = call[c].action /\ q.incident = call[c].incident
        /\ q.service = call[c].service /\ q.outcome = call[c].outcome
    BY <1>1 DEF OutcomeCall
  <2>3. call' = [call EXCEPT ![c] = q]
    BY <1>5 DEF Answer
  <2> HIDE DEF q
  <2> QED BY <1>3, <1>5, <2>1, <2>2, <2>3, CallsOnly
<1>6. CASE OutcomeCommit(c)
  <2> DEFINE q == [call[c] EXCEPT !.pc = "recorded"]
  <2>1. q \in OutcomeCall
    BY <1>1 DEF OutcomeCall
  <2>2. /\ q.action = call[c].action /\ q.incident = call[c].incident
        /\ q.service = call[c].service /\ q.outcome = call[c].outcome
    BY <1>1 DEF OutcomeCall
  <2>3. call' = [call EXCEPT ![c] = q] /\ call[c].pc # "idle"
    BY <1>6 DEF OutcomeCommit
  <2>4. TablesOK' /\ DOMAIN actions' = DOMAIN actions
    BY <1>6, RecordOutcomeType DEF OutcomeCommit
  <2> HIDE DEF q
  <2> QED BY <1>1, <1>3, <1>6, <2>1, <2>2, <2>3, <2>4, CallsOnly DEF OutcomeCommit
<1>7. CASE Announce(c)
  <2>1. call[c].action \in Nat \ {0}
    BY <1>3, <1>7 DEF Announce, TypeInv, TypeOK, TablesOK
  <2>2. announced' \in Seq(Nat \ {0})
    BY <1>1, <1>7, <2>1 DEF Announce
  <2> QED BY <1>2, <1>5, <1>7, <2>2 DEF Announce
<1>8. CASE OutcomeUnacknowledged(c)
  <2>1. TablesOK' /\ DOMAIN actions' = DOMAIN actions
    BY <1>8, RecordOutcomeType DEF OutcomeUnacknowledged
  <2> QED BY <1>1, <1>5, <1>8, <2>1 DEF OutcomeUnacknowledged
<1>9. CASE OutcomeReplay(c)
  <2>1. PICK k \in Existing(call[c].action) : Answer(c, ReplayAnswer(outcomes[k], call[c]))
    BY <1>9 DEF OutcomeReplay
  <2>2. ReplayAnswer(outcomes[k], call[c])
          \in {"recorded", "replayed", "OutcomeConflict", "ProvenanceError", "error"}
    BY DEF ReplayAnswer
  <2> QED BY <1>1, <1>2, <1>5, <1>9, <2>1, <2>2 DEF OutcomeReplay
<1>10. CASE OutcomeReject(c)
  BY <1>1, <1>2, <1>5, <1>10 DEF OutcomeReject
<1>11. CASE OutcomeError(c)
  BY <1>1, <1>2, <1>5, <1>11 DEF OutcomeError
<1>12. CASE OutcomeRetry(c)
  <2> DEFINE q == [call[c] EXCEPT !.attempt = call[c].attempt + 1]
  <2>1. call[c].attempt + 1 \in 0..MaxRetries
    BY <1>1, <1>12, ResponderAssumption DEF OutcomeRetry, OutcomeCall
  <2>2. q \in OutcomeCall
    BY <1>1, <2>1 DEF OutcomeCall
  <2>3. /\ q.action = call[c].action /\ q.incident = call[c].incident
        /\ q.service = call[c].service /\ q.outcome = call[c].outcome
    BY <1>1 DEF OutcomeCall
  <2>4. call' = [call EXCEPT ![c] = q] /\ call[c].pc # "idle"
    BY <1>12 DEF OutcomeRetry
  <2> HIDE DEF q
  <2> QED BY <1>1, <1>2, <1>3, <1>12, <2>2, <2>3, <2>4, CallsOnly DEF OutcomeRetry
<1> QED BY <1>4, <1>6, <1>7, <1>8, <1>9, <1>10, <1>11, <1>12 DEF CallStep

\* The consolidation job and a crash keep the types.
LEMMA EnvironmentTypeInv ==
  ASSUME TypeInv, (\E r \in Runbook : Activate(r) \/ Deprecate(r)) \/ Crash
  PROVE  TypeInv'
<1>1. ASSUME NEW r \in Runbook, Activate(r) \/ Deprecate(r) PROVE TypeInv'
  <2>1. PICK s \in {"active", "deprecated"} :
          runbooks' = [runbooks EXCEPT ![r] = [@ EXCEPT !.status = s]]
    BY <1>1 DEF Activate, Deprecate
  <2>2. runbooks' \in [Runbook -> [status : RunbookStatus, usage : Nat]]
    BY <2>1 DEF TypeInv, TypeOK, TablesOK, RunbookStatus
  <2>3. UNCHANGED <<incidents, services, actions, outcomes, turnVars, registry,
                    call, announced>>
    BY <1>1 DEF Activate, Deprecate
  <2> QED BY <2>2, <2>3
      DEF TypeInv, TypeOK, TablesOK, TurnsOK, TurnInv, CallInv, turnVars
<1>2. CASE Crash
  <2>1. TablesOK' /\ trail' = trail /\ announced' = announced
    BY <1>2 DEF Crash, TypeInv, TypeOK, TablesOK, database
  <2>2. TurnsOK' /\ TurnInv'
    BY <1>2 DEF Crash, TypeInv, TypeOK, TurnsOK, TurnInv, TurnPC, Terminal, database
  <2>3. call' \in [Call -> OutcomeCall] /\ CallInv'
    <3>1. actions' = actions /\ call \in [Call -> OutcomeCall]
      BY <1>2 DEF Crash, TypeInv, TypeOK, database
    <3>2. ASSUME NEW c \in Call
          PROVE  /\ call'[c] \in OutcomeCall
                 /\ call'[c].pc # "idle" => call[c].pc # "idle"
                 /\ call'[c].action = call[c].action
                 /\ call'[c].incident = call[c].incident
                 /\ call'[c].service = call[c].service
                 /\ call'[c].outcome = call[c].outcome
      <4>1. call[c] \in OutcomeCall
        BY <3>1
      <4>2. call'[c] = IF call[c].pc \in {"executing", "recorded"}
                         THEN [call[c] EXCEPT !.pc = "crashed"] ELSE call[c]
        BY <1>2 DEF Crash
      <4>3. CASE call[c].pc \in {"executing", "recorded"}
        BY <4>1, <4>2, <4>3 DEF OutcomeCall
      <4>4. CASE call[c].pc \notin {"executing", "recorded"}
        BY <4>1, <4>2, <4>4
      <4> QED BY <4>3, <4>4
    <3>3. call' \in [Call -> OutcomeCall]
      BY <1>2, <3>2 DEF Crash
    <3> QED BY <3>1, <3>2, <3>3 DEF TypeInv, CallInv
  <2>4. registry' \in [Incident -> [received : BOOLEAN, completed : BOOLEAN,
                                    action : Nat \cup {Null}]]
    BY <1>2 DEF Crash
  <2> QED BY <2>1, <2>2, <2>3, <2>4 DEF TypeInv, TypeOK
<1> QED BY <1>1, <1>2

\* TypeInv is inductive.
LEMMA NextTypeInv == TypeInv /\ [Next]_vars => TypeInv'
<1> SUFFICES ASSUME TypeInv, [Next]_vars PROVE TypeInv'
  OBVIOUS
<1>1. CASE UNCHANGED vars
  BY <1>1 DEF vars, database, turnVars, TypeInv, TypeOK, TablesOK, TurnsOK, TurnInv, CallInv
<1>2. CASE Next
  BY <1>2, ArriveTypeInv, DeliberateTypeInv, ExecuteTypeInv, CallTypeInv,
     EnvironmentTypeInv DEF Next, TurnStep
<1> QED BY <1>1, <1>2

\* Every row, command, event and answer the responder reaches has its type,
\* and a turn never works with a signal or command it does not have.
THEOREM TypeCorrect == Spec => []TypeOK
<1>1. Spec => []TypeInv
  BY InitTypeInv, NextTypeInv, PTL DEF Spec
<1>2. TypeInv => TypeOK
  BY DEF TypeInv
<1> QED BY <1>1, <1>2, PTL

----------------------------------------------------------------------------
(***************************************************************************)
(* The safety theorems of Responder.  All of them rest on one observation: *)
(* only two statements write incidents, actions and outcomes, and each of  *)
(* them does so behind its own guards (DatabaseSteps).                     *)
(***************************************************************************)

\* Turn t's remediation statement takes effect.
Remediates(t) ==
  /\ command[t] \in RemediationCommand
  /\ Gate(command[t]) /\ ~KeyTaken(command[t])
  /\ RemediateAndRecord(t, command[t])

\* Call c's outcome statement takes effect.
Records(c) ==
  /\ call[c] \in OutcomeCall
  /\ call[c].action \in DOMAIN actions
  /\ call[c].incident \in Incident
  /\ call[c].outcome \in OutcomeKind
  /\ Admits(call[c])
  /\ RecordOutcome(call[c])

\* A step of the system is one of the two statements or leaves the three
\* tables alone.
LEMMA DatabaseSteps ==
  ASSUME TypeInv, [Next]_vars
  PROVE  \/ UNCHANGED <<incidents, actions, outcomes>>
         \/ \E t \in Turn : Remediates(t)
         \/ \E c \in Call : Records(c)
<1>1. CASE UNCHANGED vars
  BY <1>1 DEF vars, database
<1>2. ASSUME NEW t \in Turn, Arrive(t) PROVE UNCHANGED <<incidents, actions, outcomes>>
  BY <1>2 DEF Arrive, RefuseSignal, Receive, database
<1>3. ASSUME NEW t \in Turn, Deliberate(t) PROVE UNCHANGED <<incidents, actions, outcomes>>
  BY <1>3 DEF Deliberate, Recall, Decline, PauseForApproval, Authorize, Block,
              ExternalFailure, StartTransaction, database
<1>4. ASSUME NEW t \in Turn, Execute(t)
      PROVE  UNCHANGED <<incidents, actions, outcomes>> \/ Remediates(t)
  <2>1. CASE Commit(t)
    BY <2>1 DEF Commit, GoTo, Remediates, TypeInv, TurnInv
  <2>2. CASE CommitUnacknowledged(t)
    BY <2>2 DEF CommitUnacknowledged, Remediates, TypeInv, TurnInv
  <2>3. CASE \/ Reject(t) \/ Collide(t) \/ RetrySerialization(t) \/ GiveUp(t)
             \/ DatabaseError(t) \/ Replay(t) \/ ReplayFails(t) \/ Finish(t)
    BY <2>3 DEF Reject, Collide, RetrySerialization, GiveUp, DatabaseError,
                Replay, ReplayFails, Finish, database
  <2> QED BY <1>4, <2>1, <2>2, <2>3 DEF Execute
<1>5. ASSUME NEW c \in Call, Post(c) \/ CallStep(c)
      PROVE  UNCHANGED <<incidents, actions, outcomes>> \/ Records(c)
  <2>1. CASE OutcomeCommit(c)
    BY <2>1 DEF OutcomeCommit, Records, TypeInv, TypeOK, CallInv
  <2>2. CASE OutcomeUnacknowledged(c)
    BY <2>2 DEF OutcomeUnacknowledged, Records, TypeInv, TypeOK, CallInv
  <2>3. CASE \/ Post(c) \/ Announce(c) \/ OutcomeReplay(c) \/ OutcomeReject(c)
             \/ OutcomeRetry(c) \/ OutcomeError(c)
    BY <2>3 DEF Post, Announce, OutcomeReplay, OutcomeReject, OutcomeRetry,
                OutcomeError, database
  <2> QED BY <1>5, <2>1, <2>2, <2>3 DEF CallStep
<1>6. ASSUME NEW r \in Runbook, Activate(r) \/ Deprecate(r)
      PROVE  UNCHANGED <<incidents, actions, outcomes>>
  BY <1>6 DEF Activate, Deprecate
<1>7. CASE Crash
  BY <1>7 DEF Crash, database
<1> QED BY <1>1, <1>2, <1>3, <1>4, <1>5, <1>6, <1>7 DEF Next, TurnStep

\* The rows after a remediation: the old ones and, last, the command's.
LEMMA RemediatedRows ==
  ASSUME TypeInv, NEW t \in Turn, Remediates(t)
  PROVE  /\ Len(actions) \in Nat
         /\ DOMAIN actions = 1..Len(actions)
         /\ DOMAIN actions' = 1..(Len(actions) + 1)
         /\ \A n \in DOMAIN actions : actions'[n] = actions[n]
         /\ Key(actions'[Len(actions) + 1]) = Key(command[t])
         /\ actions'[Len(actions) + 1].incident = command[t].incident
         /\ actions'[Len(actions) + 1].runbook = command[t].runbook
         /\ outcomes' = outcomes
<1> DEFINE c == command[t]
           row == [incident |-> c.incident, service |-> c.service,
                   remedy |-> c.remedy, cited |-> c.cited,
                   runbook |-> c.runbook, outcome |-> "success", by |-> t]
<1>1. actions' = Append(actions, row) /\ outcomes' = outcomes
  BY DEF Remediates, RemediateAndRecord
<1>2. actions \in Seq(ActionRow)
  BY DEF TypeInv, TypeOK, TablesOK
<1>3. Key(row) = Key(c) /\ row.incident = c.incident /\ row.runbook = c.runbook
  BY DEF Key
<1> HIDE DEF row, c
<1>4. actions'[Len(actions) + 1] = row
  BY <1>1, <1>2
<1>5. /\ Len(actions) \in Nat
      /\ DOMAIN actions = 1..Len(actions)
      /\ DOMAIN actions' = 1..(Len(actions) + 1)
      /\ \A n \in DOMAIN actions : actions'[n] = actions[n]
  BY <1>1, <1>2
<1> QED BY <1>1, <1>3, <1>4, <1>5 DEF c

\* The rows after an outcome: one verdict is overwritten, one episode appended.
LEMMA RecordedRows ==
  ASSUME TypeInv, NEW c \in Call, Records(c)
  PROVE  /\ DOMAIN actions' = DOMAIN actions
         /\ \A n \in DOMAIN actions : n # call[c].action => actions'[n] = actions[n]
         /\ \A n \in DOMAIN actions : Key(actions'[n]) = Key(actions[n])
         /\ \A n \in DOMAIN actions : /\ actions'[n].incident = actions[n].incident
                                      /\ actions'[n].runbook = actions[n].runbook
         /\ actions'[call[c].action].outcome = call[c].outcome
         /\ Len(outcomes) \in Nat
         /\ DOMAIN outcomes = 1..Len(outcomes)
         /\ DOMAIN outcomes' = 1..(Len(outcomes) + 1)
         /\ \A k \in DOMAIN outcomes : outcomes'[k] = outcomes[k]
         /\ outcomes'[Len(outcomes) + 1].action = call[c].action
         /\ outcomes'[Len(outcomes) + 1].incident = call[c].incident
         /\ outcomes'[Len(outcomes) + 1].outcome = call[c].outcome
<1> DEFINE q == call[c]
           row == [actions[q.action] EXCEPT !.outcome = q.outcome]
           episode == [action |-> q.action, incident |-> q.incident,
                       outcome |-> q.outcome,
                       runbook |-> incidents[q.incident].runbook]
<1>1. actions' = [actions EXCEPT ![q.action] = row]
  BY DEF Records, RecordOutcome
<1>2. outcomes' = Append(outcomes, episode)
  BY DEF Records, RecordOutcome
<1>3. actions \in Seq(ActionRow) /\ outcomes \in Seq(OutcomeEpisode)
  BY DEF TypeInv, TypeOK, TablesOK
<1>4. q.action \in DOMAIN actions /\ actions[q.action] \in ActionRow
  BY <1>3 DEF Records
<1>5. /\ Key(row) = Key(actions[q.action]) /\ row.outcome = q.outcome
      /\ row.incident = actions[q.action].incident
      /\ row.runbook = actions[q.action].runbook
  BY <1>4 DEF Key, ActionRow
<1>6. /\ episode.action = q.action /\ episode.incident = q.incident
      /\ episode.outcome = q.outcome
  OBVIOUS
<1> HIDE DEF row, episode, q
<1>7. /\ DOMAIN actions' = DOMAIN actions
      /\ \A n \in DOMAIN actions : n # q.action => actions'[n] = actions[n]
      /\ actions'[q.action] = row
  BY <1>1, <1>3, <1>4
<1>8. /\ Len(outcomes) \in Nat
      /\ DOMAIN outcomes = 1..Len(outcomes)
      /\ DOMAIN outcomes' = 1..(Len(outcomes) + 1)
      /\ \A k \in DOMAIN outcomes : outcomes'[k] = outcomes[k]
      /\ outcomes'[Len(outcomes) + 1] = episode
  BY <1>2, <1>3
<1>9. \A n \in DOMAIN actions : /\ Key(actions'[n]) = Key(actions[n])
                               /\ actions'[n].incident = actions[n].incident
                               /\ actions'[n].runbook = actions[n].runbook
  BY <1>5, <1>7
<1> QED BY <1>5, <1>6, <1>7, <1>8, <1>9 DEF q

\* Idempotency: the unique key admits a command's row once and outcomes never
\* touch the key.
LEMMA NextAtMostOnce ==
  ASSUME TypeInv, AtMostOncePerCommand, [Next]_vars
  PROVE  AtMostOncePerCommand'
<1>1. CASE UNCHANGED <<incidents, actions, outcomes>>
  BY <1>1 DEF AtMostOncePerCommand, Key
<1>2. ASSUME NEW t \in Turn, Remediates(t) PROVE AtMostOncePerCommand'
  <2>1. \A n \in DOMAIN actions : Key(actions[n]) # Key(command[t])
    BY <1>2 DEF Remediates, KeyTaken
  <2>2. SUFFICES ASSUME NEW m \in DOMAIN actions', NEW n \in DOMAIN actions',
                        Key(actions'[m]) = Key(actions'[n])
                 PROVE  m = n
    BY DEF AtMostOncePerCommand, Key
  <2>3. CASE m \in DOMAIN actions /\ n \in DOMAIN actions
    BY <1>2, <2>2, <2>3, RemediatedRows DEF AtMostOncePerCommand
  <2>4. CASE m = Len(actions) + 1 /\ n \in DOMAIN actions
    BY <1>2, <2>1, <2>2, <2>4, RemediatedRows
  <2>5. CASE m \in DOMAIN actions /\ n = Len(actions) + 1
    BY <1>2, <2>1, <2>2, <2>5, RemediatedRows
  <2>6. m \in DOMAIN actions \cup {Len(actions) + 1} /\ n \in DOMAIN actions \cup {Len(actions) + 1}
    BY <1>2, RemediatedRows
  <2> QED BY <2>3, <2>4, <2>5, <2>6
<1>3. ASSUME NEW c \in Call, Records(c) PROVE AtMostOncePerCommand'
  <2>1. SUFFICES ASSUME NEW m \in DOMAIN actions', NEW n \in DOMAIN actions',
                        Key(actions'[m]) = Key(actions'[n])
                 PROVE  m = n
    BY DEF AtMostOncePerCommand, Key
  <2> QED BY <1>3, <2>1, RecordedRows DEF AtMostOncePerCommand
<1> QED BY <1>1, <1>2, <1>3, DatabaseSteps

\* No two rows of remediation_actions hold one idempotency key, for any number
\* of duplicated turns, retries, lost acknowledgements and crashes.
THEOREM CommandsApplyOnce == Spec => []AtMostOncePerCommand
<1>1. Init => AtMostOncePerCommand
  BY DEF Init, AtMostOncePerCommand
<1>2. TypeInv /\ AtMostOncePerCommand /\ [Next]_vars => AtMostOncePerCommand'
  BY NextAtMostOnce
<1> QED BY <1>1, <1>2, InitTypeInv, NextTypeInv, PTL DEF Spec

\* A second report on an action finds the first one's episode.
LEMMA NextOneOutcome ==
  ASSUME TypeInv, OneOutcomePerAction, [Next]_vars
  PROVE  OneOutcomePerAction'
<1>1. CASE UNCHANGED <<incidents, actions, outcomes>>
  BY <1>1 DEF OneOutcomePerAction
<1>2. ASSUME NEW t \in Turn, Remediates(t) PROVE OneOutcomePerAction'
  BY <1>2, RemediatedRows DEF OneOutcomePerAction
<1>3. ASSUME NEW c \in Call, Records(c) PROVE OneOutcomePerAction'
  <2>1. /\ \A k \in DOMAIN outcomes : outcomes[k].action # call[c].action
        /\ call[c].action \in DOMAIN actions
        /\ actions[call[c].action].incident = call[c].incident
    BY <1>3 DEF Records, Admits, Existing, Targets
  <2>2. ASSUME NEW j \in DOMAIN outcomes', NEW k \in DOMAIN outcomes',
               outcomes'[j].action = outcomes'[k].action
        PROVE  j = k
    <3>1. CASE j \in DOMAIN outcomes /\ k \in DOMAIN outcomes
      BY <1>3, <2>2, <3>1, RecordedRows DEF OneOutcomePerAction
    <3>2. CASE j = Len(outcomes) + 1 /\ k \in DOMAIN outcomes
      BY <1>3, <2>1, <2>2, <3>2, RecordedRows
    <3>3. CASE j \in DOMAIN outcomes /\ k = Len(outcomes) + 1
      BY <1>3, <2>1, <2>2, <3>3, RecordedRows
    <3>4. j \in DOMAIN outcomes \cup {Len(outcomes) + 1} /\ k \in DOMAIN outcomes \cup {Len(outcomes) + 1}
      BY <1>3, RecordedRows
    <3> QED BY <3>1, <3>2, <3>3, <3>4
  <2>3. ASSUME NEW k \in DOMAIN outcomes'
        PROVE  /\ outcomes'[k].action \in DOMAIN actions'
               /\ actions'[outcomes'[k].action].outcome = outcomes'[k].outcome
               /\ actions'[outcomes'[k].action].incident = outcomes'[k].incident
    <3>1. CASE k \in DOMAIN outcomes
      BY <1>3, <2>1, <3>1, RecordedRows DEF OneOutcomePerAction
    <3>2. CASE k = Len(outcomes) + 1
      BY <1>3, <2>1, <3>2, RecordedRows
    <3>3. k \in DOMAIN outcomes \cup {Len(outcomes) + 1}
      BY <1>3, RecordedRows
    <3> QED BY <3>1, <3>2, <3>3
  <2> QED BY <2>2, <2>3 DEF OneOutcomePerAction
<1> QED BY <1>1, <1>2, <1>3, DatabaseSteps

\* The database holds at most one outcome episode per action, and the action
\* row agrees with it, for any number of concurrent and repeated reports.
THEOREM OutcomesAreUnique == Spec => []OneOutcomePerAction
<1>1. Init => OneOutcomePerAction
  BY DEF Init, OneOutcomePerAction
<1>2. TypeInv /\ OneOutcomePerAction /\ [Next]_vars => OneOutcomePerAction'
  BY NextOneOutcome
<1> QED BY <1>1, <1>2, InitTypeInv, NextTypeInv, PTL DEF Spec

\* What the two statements do to the row of an incident.
LEMMA IncidentRows ==
  ASSUME TypeInv, NEW i \in Incident, [Next]_vars
  PROVE  /\ \A t \in Turn : Remediates(t) =>
              IF i = command[t].incident
                THEN /\ incidents[i].status # "resolved"
                     /\ incidents'[i].status = "mitigating"
                     /\ incidents'[i].runbook = command[t].runbook
                     /\ incidents'[i].resolved_at = incidents[i].resolved_at
                     /\ incidents'[i].mttr = incidents[i].mttr
                ELSE incidents'[i] = incidents[i]
         /\ \A c \in Call : Records(c) =>
              incidents'[i] = IF i = call[c].incident
                                THEN Verified(incidents[i], call[c])
                                ELSE incidents[i]
<1>1. /\ incidents \in [Incident -> [status : IncidentStatus,
                                    runbook : Runbook \cup {Null},
                                    resolved_at : Nat \cup {Null},
                                    mttr : Nat \cup {Null}]]
  BY DEF TypeInv, TypeOK, TablesOK
<1>2. ASSUME NEW t \in Turn, Remediates(t)
      PROVE  IF i = command[t].incident
                THEN /\ incidents[i].status # "resolved"
                     /\ incidents'[i].status = "mitigating"
                     /\ incidents'[i].runbook = command[t].runbook
                     /\ incidents'[i].resolved_at = incidents[i].resolved_at
                     /\ incidents'[i].mttr = incidents[i].mttr
                ELSE incidents'[i] = incidents[i]
  <2>1. incidents' = [incidents EXCEPT ![command[t].incident] =
                        [incidents[command[t].incident]
                           EXCEPT !.status = "mitigating",
                                  !.runbook = command[t].runbook]]
    BY <1>2 DEF Remediates, RemediateAndRecord, Mitigating
  <2>2. incidents[command[t].incident].status \in {"open", "mitigating"}
    BY <1>2 DEF Remediates, Gate
  <2>3. incidents[i] \in [status : IncidentStatus, runbook : Runbook \cup {Null},
                          resolved_at : Nat \cup {Null}, mttr : Nat \cup {Null}]
    BY <1>1
  <2>4. CASE i = command[t].incident
    <3>1. incidents'[i] = [incidents[i] EXCEPT !.status = "mitigating",
                                               !.runbook = command[t].runbook]
      BY <1>1, <2>1, <2>4
    <3> QED BY <2>2, <2>3, <2>4, <3>1
  <2>5. CASE i # command[t].incident
    BY <1>1, <2>1, <2>5
  <2> QED BY <2>4, <2>5
<1>3. ASSUME NEW c \in Call, Records(c)
      PROVE  incidents'[i] = IF i = call[c].incident
                               THEN Verified(incidents[i], call[c])
                               ELSE incidents[i]
  BY <1>1, <1>3 DEF Records, RecordOutcome
<1> QED BY <1>2, <1>3

\* A verdict leaves a resolved row as it is; a success resolves any other one
\* at the reported time; other verdicts change nothing.
LEMMA VerifiedRow ==
  ASSUME NEW row \in [status : IncidentStatus, runbook : Runbook \cup {Null},
                      resolved_at : Nat \cup {Null}, mttr : Nat \cup {Null}],
         NEW q \in OutcomeCall, q.outcome \in OutcomeKind
  PROVE  LET v == Verified(row, q) IN
         /\ q.outcome # "success" => v = row
         /\ q.outcome = "success" /\ row.resolved_at = Null /\ row.mttr = Null =>
              /\ v.status = "resolved"
              /\ v.resolved_at = q.at
              /\ q.at >= OpenedAt => v.mttr = q.at - OpenedAt
         /\ row.status = "resolved" /\ row.resolved_at # Null /\ row.mttr # Null => v = row
<1>1. q.at \in Nat /\ OpenedAt \in Nat
  BY ResponderAssumption DEF OutcomeCall
<1>2. CASE q.outcome # "success"
  BY <1>2 DEF Verified
<1>3. CASE q.outcome = "success"
  <2> DEFINE elapsed == IF q.at > OpenedAt THEN q.at - OpenedAt ELSE 0
  <2>1. q.at >= OpenedAt => elapsed = q.at - OpenedAt
    BY <1>1
  <2>2. Verified(row, q) = [row EXCEPT !.status = "resolved",
                                       !.resolved_at = Coalesce(row.resolved_at, q.at),
                                       !.mttr = Coalesce(row.mttr, elapsed)]
    BY <1>3 DEF Verified
  <2> DEFINE at == Coalesce(row.resolved_at, q.at)
             mttr == Coalesce(row.mttr, elapsed)
             v == [row EXCEPT !.status = "resolved", !.resolved_at = at, !.mttr = mttr]
  <2>3. /\ row.resolved_at = Null => at = q.at
        /\ row.resolved_at # Null => at = row.resolved_at
        /\ row.mttr = Null => mttr = elapsed
        /\ row.mttr # Null => mttr = row.mttr
    BY DEF Coalesce
  <2> HIDE DEF elapsed, at, mttr
  <2>4. v.status = "resolved" /\ v.resolved_at = at /\ v.mttr = mttr
    OBVIOUS
  <2>5. row.status = "resolved" /\ at = row.resolved_at /\ mttr = row.mttr => v = row
    OBVIOUS
  <2>6. Verified(row, q) = v
    BY <2>2 DEF at, mttr
  <2> HIDE DEF v
  <2> QED BY <1>3, <2>1, <2>3, <2>4, <2>5, <2>6
<1> QED BY <1>2, <1>3

\* Resolution is decided by the recorded outcomes alone.
LEMMA NextResolved ==
  ASSUME TypeInv, ResolvedMeansVerified, [Next]_vars
  PROVE  ResolvedMeansVerified'
<1>1. CASE UNCHANGED <<incidents, actions, outcomes>>
  BY <1>1 DEF ResolvedMeansVerified
<1>2. ASSUME NEW t \in Turn, Remediates(t) PROVE ResolvedMeansVerified'
  <2>1. outcomes' = outcomes
    BY <1>2, RemediatedRows
  <2>2. SUFFICES ASSUME NEW i \in Incident
                 PROVE  /\ incidents'[i].status = "resolved" <=> incidents[i].status = "resolved"
                        /\ incidents'[i].resolved_at = incidents[i].resolved_at
                        /\ incidents'[i].mttr = incidents[i].mttr
    BY <2>1 DEF ResolvedMeansVerified
  <2> QED BY <1>2, IncidentRows
<1>3. ASSUME NEW c \in Call, Records(c) PROVE ResolvedMeansVerified'
  <2> DEFINE q == call[c]
             Successes(i) == {k \in DOMAIN outcomes : /\ outcomes[k].incident = i
                                                      /\ outcomes[k].outcome = "success"}
             Closed(row) == /\ row.resolved_at \in Nat
                            /\ row.resolved_at >= OpenedAt
                            /\ row.mttr = row.resolved_at - OpenedAt
  <2>1. SUFFICES ASSUME NEW i \in Incident
                 PROVE  /\ incidents'[i].status = "resolved"
                             <=> \E k \in DOMAIN outcomes' :
                                    /\ outcomes'[k].incident = i
                                    /\ outcomes'[k].outcome = "success"
                        /\ IF incidents'[i].status = "resolved"
                             THEN Closed(incidents'[i])
                             ELSE incidents'[i].resolved_at = Null /\ incidents'[i].mttr = Null
    BY DEF ResolvedMeansVerified
  <2>2. /\ incidents[i].status = "resolved" <=> Successes(i) # {}
        /\ IF incidents[i].status = "resolved"
             THEN Closed(incidents[i])
             ELSE incidents[i].resolved_at = Null /\ incidents[i].mttr = Null
    BY DEF ResolvedMeansVerified
  <2>3. (\E k \in DOMAIN outcomes' : /\ outcomes'[k].incident = i
                                     /\ outcomes'[k].outcome = "success")
          <=> (Successes(i) # {} \/ (q.incident = i /\ q.outcome = "success"))
    <3>1. DOMAIN outcomes' = DOMAIN outcomes \cup {Len(outcomes) + 1}
      <4>1. /\ Len(outcomes) \in Nat
            /\ DOMAIN outcomes = 1..Len(outcomes)
            /\ DOMAIN outcomes' = 1..(Len(outcomes) + 1)
        BY <1>3, RecordedRows
      <4>2. 1..(Len(outcomes) + 1) = (1..Len(outcomes)) \cup {Len(outcomes) + 1}
        BY <4>1
      <4> QED BY <4>1, <4>2
    <3>2. /\ \A k \in DOMAIN outcomes : outcomes'[k] = outcomes[k]
          /\ outcomes'[Len(outcomes) + 1].incident = q.incident
          /\ outcomes'[Len(outcomes) + 1].outcome = q.outcome
      BY <1>3, RecordedRows
    <3> QED BY <3>1, <3>2
  <2>4. /\ q \in OutcomeCall /\ q.outcome \in OutcomeKind /\ q.at \in Nat
        /\ OpenedAt \in Nat /\ Null \notin Nat
        /\ TimeOrdered(Verified(incidents[q.incident], q))
    BY <1>3, ResponderAssumption DEF Records, Admits, OutcomeCall
  <2>5. incidents'[i] = IF i = q.incident THEN Verified(incidents[i], q) ELSE incidents[i]
    BY <1>3, IncidentRows
  <2>6. incidents[i] \in [status : IncidentStatus, runbook : Runbook \cup {Null},
                          resolved_at : Nat \cup {Null}, mttr : Nat \cup {Null}]
    BY DEF TypeInv, TypeOK, TablesOK
  <2>7. CASE i # q.incident \/ q.outcome # "success"
    <3>1. incidents'[i] = incidents[i]
      BY <2>4, <2>5, <2>6, <2>7, VerifiedRow
    <3> HIDE DEF q, Successes, Closed
    <3> QED BY <2>2, <2>3, <2>7, <3>1
  <2>8. CASE i = q.incident /\ q.outcome = "success" /\ incidents[i].status = "resolved"
    <3>1. incidents[i].resolved_at # Null /\ incidents[i].mttr # Null
      <4>1. incidents[i].resolved_at \in Nat /\ incidents[i].resolved_at - OpenedAt \in Nat
        BY <2>2, <2>4, <2>8
      <4> QED BY <2>2, <2>4, <2>8, <4>1
    <3>2. incidents'[i] = incidents[i]
      BY <2>4, <2>5, <2>6, <2>8, <3>1, VerifiedRow
    <3> HIDE DEF q, Successes, Closed
    <3> QED BY <2>2, <2>3, <2>8, <3>2
  <2>9. CASE i = q.incident /\ q.outcome = "success" /\ incidents[i].status # "resolved"
    <3>1. incidents[i].resolved_at = Null /\ incidents[i].mttr = Null
      BY <2>2, <2>9
    <3>2. incidents'[i] = Verified(incidents[i], q)
      BY <2>5, <2>9
    <3>3. /\ incidents'[i].status = "resolved" /\ incidents'[i].resolved_at = q.at
          /\ q.at >= OpenedAt => incidents'[i].mttr = q.at - OpenedAt
      BY <2>4, <2>6, <2>9, <3>1, <3>2, VerifiedRow
    <3>4. q.at # Null /\ q.at >= OpenedAt
      BY <2>4, <2>9, <3>2, <3>3 DEF TimeOrdered
    <3> QED BY <2>3, <2>4, <2>9, <3>3, <3>4
  <2> QED BY <2>7, <2>8, <2>9
<1> QED BY <1>1, <1>2, <1>3, DatabaseSteps

\* An incident is resolved exactly when a success was recorded for it, and its
\* resolution time and MTTR agree, whatever clients report and when.
THEOREM ResolutionIsVerified == Spec => []ResolvedMeansVerified
<1>1. Init => ResolvedMeansVerified
  BY DEF Init, ResolvedMeansVerified
<1>2. TypeInv /\ ResolvedMeansVerified /\ [Next]_vars => ResolvedMeansVerified'
  BY NextResolved
<1> QED BY <1>1, <1>2, InitTypeInv, NextTypeInv, PTL DEF Spec

\* Every action moves its incident on and names its runbook there; a verdict
\* changes neither, and is only given for an action of the incident.
LEMMA NextLastAction ==
  ASSUME TypeInv, IncidentShowsLastAction, [Next]_vars
  PROVE  IncidentShowsLastAction'
<1> DEFINE Mine(i) == {n \in DOMAIN actions : actions[n].incident = i}
<1>1. CASE UNCHANGED <<incidents, actions, outcomes>>
  BY <1>1 DEF IncidentShowsLastAction
<1>2. ASSUME NEW t \in Turn, Remediates(t) PROVE IncidentShowsLastAction'
  <2> DEFINE last == Len(actions) + 1
             c == command[t]
  <2>1. /\ Len(actions) \in Nat
        /\ DOMAIN actions = 1..Len(actions)
        /\ DOMAIN actions' = 1..last
        /\ \A n \in DOMAIN actions : actions'[n] = actions[n]
        /\ actions'[last].incident = c.incident
        /\ actions'[last].runbook = c.runbook
    BY <1>2, RemediatedRows
  <2> HIDE DEF c
  <2>2. SUFFICES ASSUME NEW i \in Incident
        PROVE  LET mine == {n \in DOMAIN actions' : actions'[n].incident = i} IN
               /\ incidents'[i].status = "open" <=> mine = {}
               /\ \A n \in mine : (\A m \in mine : m <= n)
                                     => incidents'[i].runbook = actions'[n].runbook
    BY DEF IncidentShowsLastAction
  <2>3. /\ incidents[i].status = "open" <=> Mine(i) = {}
        /\ \A n \in Mine(i) : (\A m \in Mine(i) : m <= n)
                                 => incidents[i].runbook = actions[n].runbook
    BY DEF IncidentShowsLastAction
  <2>4. CASE i = c.incident
    <3>1. incidents'[i].status = "mitigating" /\ incidents'[i].runbook = c.runbook
      BY <1>2, <2>4, IncidentRows DEF c
    <3>2. \A n \in DOMAIN actions' : n <= last /\ (n >= last => n = last)
      BY <2>1
    <3> QED BY <2>1, <2>4, <3>1, <3>2
  <2>5. CASE i # c.incident
    <3>1. incidents'[i] = incidents[i]
      BY <1>2, <2>5, IncidentRows DEF c
    <3>2. {n \in DOMAIN actions' : actions'[n].incident = i} = Mine(i)
      BY <2>1, <2>5
    <3> QED BY <2>1, <2>3, <3>1, <3>2
  <2> QED BY <2>4, <2>5
<1>3. ASSUME NEW q \in Call, Records(q) PROVE IncidentShowsLastAction'
  <2> DEFINE c == call[q]
  <2>1. /\ DOMAIN actions' = DOMAIN actions
        /\ \A n \in DOMAIN actions : /\ actions'[n].incident = actions[n].incident
                                     /\ actions'[n].runbook = actions[n].runbook
    BY <1>3, RecordedRows
  <2>2. /\ c.action \in DOMAIN actions /\ actions[c.action].incident = c.incident
    BY <1>3 DEF Records, Admits, Targets
  <2>3. ASSUME NEW i \in Incident
        PROVE  /\ incidents'[i].status = "open" <=> incidents[i].status = "open"
               /\ incidents'[i].runbook = incidents[i].runbook
    <3>1. incidents'[i] = IF i = c.incident THEN Verified(incidents[i], c) ELSE incidents[i]
      BY <1>3, IncidentRows
    <3>2. incidents[i] \in [status : IncidentStatus, runbook : Runbook \cup {Null},
                            resolved_at : Nat \cup {Null}, mttr : Nat \cup {Null}]
      BY DEF TypeInv, TypeOK, TablesOK
    <3>3. i = c.incident => incidents[i].status # "open"
      BY <2>2 DEF IncidentShowsLastAction
    <3>4. LET v == Verified(incidents[i], c) IN
          /\ v.status \in {"resolved", incidents[i].status}
          /\ v.runbook = incidents[i].runbook
      BY <3>2 DEF Verified
    <3> HIDE DEF c
    <3> QED BY <3>1, <3>3, <3>4
  <2> QED BY <2>1, <2>3 DEF IncidentShowsLastAction
<1> QED BY <1>1, <1>2, <1>3, DatabaseSteps

\* The incident row shows the last action, for any number of incidents,
\* runbooks, turns and outcome reports.
THEOREM IncidentsShowTheirLastAction == Spec => []IncidentShowsLastAction
<1>1. Init => IncidentShowsLastAction
  BY DEF Init, IncidentShowsLastAction
<1>2. TypeInv /\ IncidentShowsLastAction /\ [Next]_vars => IncidentShowsLastAction'
  BY NextLastAction
<1> QED BY <1>1, <1>2, InitTypeInv, NextTypeInv, PTL DEF Spec

\* One step of the action property ResolvedIsFinal.
LEMMA ResolvedStep ==
  ASSUME TypeInv, ResolvedMeansVerified, [Next]_vars,
         NEW i \in Incident, incidents[i].status = "resolved"
  PROVE  /\ incidents'[i] = incidents[i]
         /\ \A n \in DOMAIN actions' \ DOMAIN actions : actions'[n].incident # i
<1>1. CASE UNCHANGED <<incidents, actions, outcomes>>
  BY <1>1
<1>2. ASSUME NEW t \in Turn, Remediates(t)
      PROVE  /\ incidents'[i] = incidents[i]
             /\ \A n \in DOMAIN actions' \ DOMAIN actions : actions'[n].incident # i
  <2>1. command[t].incident # i /\ incidents'[i] = incidents[i]
    BY <1>2, IncidentRows
  <2>2. \A n \in DOMAIN actions' \ DOMAIN actions : n = Len(actions) + 1
    BY <1>2, RemediatedRows
  <2> QED BY <1>2, <2>1, <2>2, RemediatedRows
<1>3. ASSUME NEW c \in Call, Records(c)
      PROVE  /\ incidents'[i] = incidents[i]
             /\ \A n \in DOMAIN actions' \ DOMAIN actions : actions'[n].incident # i
  <2>1. DOMAIN actions' = DOMAIN actions
    BY <1>3, RecordedRows
  <2>2. incidents[i] \in [status : IncidentStatus, runbook : Runbook \cup {Null},
                          resolved_at : Nat \cup {Null}, mttr : Nat \cup {Null}]
    BY DEF TypeInv, TypeOK, TablesOK
  <2>3. incidents[i].resolved_at \in Nat /\ incidents[i].mttr \in Nat
    BY ResponderAssumption DEF ResolvedMeansVerified
  <2>4. incidents[i].resolved_at # Null /\ incidents[i].mttr # Null
    BY <2>3, ResponderAssumption
  <2>5. call[c] \in OutcomeCall /\ call[c].outcome \in OutcomeKind
    BY <1>3 DEF Records
  <2>6. Verified(incidents[i], call[c]) = incidents[i]
    BY <2>2, <2>4, <2>5, VerifiedRow
  <2>7. incidents'[i] = incidents[i]
    BY <1>3, <2>6, IncidentRows
  <2> QED BY <2>1, <2>7
<1> QED BY <1>1, <1>2, <1>3, DatabaseSteps

\* Once an incident is resolved its row is frozen and no turn acts on it, also
\* not one that recalled and decided while the incident was open.
THEOREM ResolutionIsFinal == Spec => ResolvedIsFinal
<1>1. TypeInv /\ ResolvedMeansVerified /\ [Next]_vars
        => [\A i \in Incident : incidents[i].status = "resolved" =>
              /\ incidents'[i] = incidents[i]
              /\ \A n \in DOMAIN actions' \ DOMAIN actions : actions'[n].incident # i]_vars
  BY ResolvedStep
<1>2. Spec => []TypeInv
  BY InitTypeInv, NextTypeInv, PTL DEF Spec
<1> QED BY <1>1, <1>2, ResolutionIsVerified, PTL DEF Spec, ResolvedIsFinal

----------------------------------------------------------------------------
(* Refinement.  A remediation is the ledger's Apply, a recorded outcome its *)
(* Judge, and every other step, crashes included, is a stutter.             *)

\* The mapping is made of sequences of one length.
LEMMA MappingType ==
  ASSUME TypeInv
  PROVE  /\ DOMAIN applied = 1..Len(actions) /\ DOMAIN verdict = 1..Len(actions)
         /\ Len(actions) \in Nat /\ DOMAIN actions = 1..Len(actions)
         /\ applied \in Seq({applied[n] : n \in DOMAIN actions})
         /\ verdict \in Seq({"none"} \cup OutcomeKind)
         /\ Len(applied) = Len(actions) /\ Len(verdict) = Len(actions)
<1>1. Len(actions) \in Nat /\ DOMAIN actions = 1..Len(actions)
  BY DEF TypeInv, TypeOK, TablesOK
<1>2. \A n \in DOMAIN actions : actions[n].outcome \in OutcomeKind
  <2>1. \A n \in DOMAIN actions : actions[n] \in ActionRow
    BY DEF TypeInv, TypeOK, TablesOK
  <2> QED BY <2>1 DEF ActionRow
<1>3. DOMAIN applied = 1..Len(actions) /\ DOMAIN verdict = 1..Len(actions)
  BY <1>1 DEF applied, verdict
<1>4. applied \in [1..Len(actions) -> {applied[n] : n \in DOMAIN actions}]
  BY <1>1 DEF applied
<1>5. verdict \in [1..Len(actions) -> {"none"} \cup OutcomeKind]
  BY <1>1, <1>2 DEF verdict
<1>6. applied \in Seq({applied[n] : n \in DOMAIN actions})
  BY <1>1, <1>4, SeqDef
<1>7. verdict \in Seq({"none"} \cup OutcomeKind)
  BY <1>1, <1>5, SeqDef
<1>8. Len(applied) = Len(actions) /\ Len(verdict) = Len(actions)
  <2>1. \A m, n \in Nat : 1..m = 1..n => m = n
    OBVIOUS
  <2>2. Len(applied) \in Nat /\ DOMAIN applied = 1..Len(applied)
    BY <1>6, LenProperties
  <2>3. Len(verdict) \in Nat /\ DOMAIN verdict = 1..Len(verdict)
    BY <1>7, LenProperties
  <2> QED BY <1>1, <1>3, <2>1, <2>2, <2>3
<1> QED BY <1>1, <1>3, <1>6, <1>7, <1>8

\* A sequence prolonged by one value, written as a function, is an Append.
LEMMA ProlongedIsAppend ==
  ASSUME NEW S, NEW s \in Seq(S), NEW e
  PROVE  [n \in 1..(Len(s) + 1) |-> IF n \in 1..Len(s) THEN s[n] ELSE e] = Append(s, e)
<1> DEFINE T == S \cup {e}
           f == [n \in 1..(Len(s) + 1) |-> IF n \in 1..Len(s) THEN s[n] ELSE e]
           g == Append(s, e)
<1>1. s \in Seq(T) /\ e \in T
  BY SeqMonotonic
<1>2. /\ g \in Seq(T) /\ Len(g) = Len(s) + 1
      /\ \A n \in 1..Len(s) : g[n] = s[n]
      /\ g[Len(s) + 1] = e
  BY <1>1, AppendProperties
<1>3. g \in [1..(Len(s) + 1) -> T] /\ Len(s) \in Nat
  BY <1>2, LenProperties
<1> HIDE DEF g
<1>4. ASSUME NEW n \in 1..(Len(s) + 1) PROVE f[n] = g[n]
  <2>1. CASE n \in 1..Len(s)
    BY <1>2, <2>1
  <2>2. CASE n \notin 1..Len(s)
    <3>1. n = Len(s) + 1
      BY <1>3, <2>2
    <3> QED BY <1>2, <2>2, <3>1
  <2> QED BY <2>1, <2>2
<1>5. f \in [1..(Len(s) + 1) -> {f[n] : n \in 1..(Len(s) + 1)}]
  OBVIOUS
<1> HIDE DEF f
<1>6. f = g
  BY <1>3, <1>4, <1>5
<1> QED BY <1>6 DEF f, g

\* The three mapped variables after a remediation: a command not seen before is
\* appended without a verdict, for an incident that is not closed.
LEMMA RemediateApplies ==
  ASSUME TypeInv, TypeInv', OneOutcomePerAction, [Next]_vars,
         NEW t \in Turn, Remediates(t)
  PROVE  Ledger!Apply
<1> DEFINE N == Len(actions)
           c == Key(command[t])
<1>1. /\ N \in Nat /\ DOMAIN actions = 1..N /\ DOMAIN actions' = 1..(N + 1)
      /\ \A n \in 1..N : actions'[n] = actions[n]
      /\ Key(actions'[N + 1]) = c /\ outcomes' = outcomes
  BY RemediatedRows
<1> HIDE DEF N
<1>2. applied' = Append(applied, c)
  <2>1. /\ applied \in Seq({applied[n] : n \in DOMAIN actions})
        /\ Len(applied) = N /\ DOMAIN applied = 1..N
    BY MappingType DEF N
  <2>2. applied' = [n \in 1..(N + 1) |-> IF n \in 1..N THEN applied[n] ELSE c]
    <3>1. applied' = [n \in 1..(N + 1) |-> Key(actions'[n])]
      BY <1>1 DEF applied, Key
    <3>2. ASSUME NEW n \in 1..(N + 1)
          PROVE  Key(actions'[n]) = IF n \in 1..N THEN applied[n] ELSE c
      <4>1. CASE n \in 1..N
        BY <1>1, <4>1 DEF applied
      <4>2. CASE n = N + 1
        BY <1>1, <4>2
      <4>3. n \in 1..N \/ n = N + 1
        BY <1>1
      <4> QED BY <4>1, <4>2, <4>3
    <3> QED BY <3>1, <3>2
  <2> HIDE DEF c
  <2> QED BY <2>1, <2>2, ProlongedIsAppend
<1>3. \A k \in DOMAIN outcomes : outcomes[k].action \in 1..N
  BY <1>1 DEF OneOutcomePerAction
<1>4. verdict' = Append(verdict, "none")
  <2>1. /\ verdict \in Seq({"none"} \cup OutcomeKind)
        /\ Len(verdict) = N /\ DOMAIN verdict = 1..N
    BY MappingType DEF N
  <2>2. \A n : Existing(n)' = Existing(n)
    BY <1>1 DEF Existing
  <2>3. Existing(N + 1) = {}
    BY <1>1, <1>3 DEF Existing
  <2>4. verdict' = [n \in 1..(N + 1) |-> IF n \in 1..N THEN verdict[n] ELSE "none"]
    <3>1. verdict' = [n \in 1..(N + 1) |-> IF Existing(n) = {} THEN "none" ELSE actions'[n].outcome]
      BY <1>1, <2>2 DEF verdict, Existing
    <3>2. ASSUME NEW n \in 1..(N + 1)
          PROVE  (IF Existing(n) = {} THEN "none" ELSE actions'[n].outcome)
                   = IF n \in 1..N THEN verdict[n] ELSE "none"
      <4>1. CASE n \in 1..N
        BY <1>1, <4>1 DEF verdict
      <4>2. CASE n = N + 1
        BY <1>1, <2>3, <4>2
      <4>3. n \in 1..N \/ n = N + 1
        BY <1>1
      <4> QED BY <4>1, <4>2, <4>3
    <3> QED BY <3>1, <3>2
  <2> QED BY <2>1, <2>4, ProlongedIsAppend
<1>5. closed' = closed
  BY IncidentRows DEF closed
<1>6. c[1] \notin closed
  BY DEF Remediates, Gate, Key, closed
<1>7. \A n \in DOMAIN applied : applied[n] # c
  BY <1>1 DEF Remediates, KeyTaken, applied
<1>8. Len(applied') = Len(applied) + 1 /\ applied'[Len(applied) + 1] = c
  BY <1>2, MappingType
<1> HIDE DEF c
<1>9. /\ Len(applied') = Len(applied) + 1
      /\ applied' = Append(applied, applied'[Len(applied) + 1])
      /\ \A n \in DOMAIN applied : applied[n] # applied'[Len(applied) + 1]
      /\ applied'[Len(applied) + 1][1] \notin closed
      /\ verdict' = Append(verdict, "none")
      /\ closed' = closed
  BY <1>2, <1>4, <1>5, <1>6, <1>7, <1>8
<1> QED BY <1>9 DEF Ledger!Apply

\* A recorded outcome is the first verdict on its action, and closes the
\* incident exactly if it is a success.
LEMMA RecordJudges ==
  ASSUME TypeInv, TypeInv', ResolvedMeansVerified, [Next]_vars,
         NEW c \in Call, Records(c)
  PROVE  Ledger!Judge
<1> DEFINE q == call[c]
<1>1. /\ q.action \in DOMAIN actions /\ q.outcome \in OutcomeKind /\ q \in OutcomeCall
      /\ q.incident \in Incident
      /\ Existing(q.action) = {} /\ actions[q.action].incident = q.incident
  BY DEF Records, Admits, Targets
<1>2. applied' = applied
  <2>1. DOMAIN actions' = DOMAIN actions /\ \A n \in DOMAIN actions : Key(actions'[n]) = Key(actions[n])
    BY RecordedRows
  <2>2. applied' = [n \in DOMAIN actions' |-> Key(actions'[n])]
    BY DEF applied, Key
  <2> QED BY <2>1, <2>2 DEF applied
<1>3. verdict' = [verdict EXCEPT ![q.action] = q.outcome]
  <2>1. /\ DOMAIN actions' = DOMAIN actions
        /\ \A n \in DOMAIN actions : n # q.action => actions'[n] = actions[n]
        /\ actions'[q.action].outcome = q.outcome
    BY RecordedRows
  <2>2. ASSUME NEW n \in DOMAIN actions
        PROVE  (Existing(n)' = {}) <=> (Existing(n) = {} /\ n # q.action)
    <3>1. /\ Len(outcomes) \in Nat
          /\ DOMAIN outcomes = 1..Len(outcomes)
          /\ DOMAIN outcomes' = 1..(Len(outcomes) + 1)
          /\ \A k \in DOMAIN outcomes : outcomes'[k] = outcomes[k]
          /\ outcomes'[Len(outcomes) + 1].action = q.action
      BY RecordedRows
    <3>2. 1..(Len(outcomes) + 1) = (1..Len(outcomes)) \cup {Len(outcomes) + 1}
      BY <3>1
    <3> QED BY <3>1, <3>2 DEF Existing
  <2>3. verdict' = [n \in DOMAIN actions' |->
                      IF Existing(n)' = {} THEN "none" ELSE actions'[n].outcome]
    BY DEF verdict, Existing
  <2>4. ASSUME NEW n \in DOMAIN actions
        PROVE  (IF Existing(n)' = {} THEN "none" ELSE actions'[n].outcome)
                 = IF n = q.action THEN q.outcome ELSE verdict[n]
    BY <2>1, <2>2 DEF verdict
  <2>5. DOMAIN verdict = DOMAIN actions
    BY DEF verdict
  <2> HIDE DEF q
  <2>6. verdict' = [n \in DOMAIN actions |-> IF n = q.action THEN q.outcome ELSE verdict[n]]
    BY <2>1, <2>3, <2>4
  <2> QED BY <2>5, <2>6
<1>4. closed' = IF q.outcome = "success" THEN closed \cup {q.incident} ELSE closed
  <2>1. ASSUME NEW i \in Incident
        PROVE  (incidents'[i].status = "resolved")
                 <=> \/ incidents[i].status = "resolved"
                     \/ i = q.incident /\ q.outcome = "success"
    <3>1. incidents'[i] = IF i = q.incident THEN Verified(incidents[i], q) ELSE incidents[i]
      BY IncidentRows
    <3>2. incidents[i] \in [status : IncidentStatus, runbook : Runbook \cup {Null},
                            resolved_at : Nat \cup {Null}, mttr : Nat \cup {Null}]
      BY DEF TypeInv, TypeOK, TablesOK
    <3>3. CASE i = q.incident /\ q.outcome = "success"
      <4>1. Verified(incidents[i], q).status = "resolved"
        BY <3>2, <3>3 DEF Verified
      <4> QED BY <3>1, <3>3, <4>1
    <3>4. CASE ~(i = q.incident /\ q.outcome = "success")
      BY <3>1, <3>4 DEF Verified
    <3> QED BY <3>3, <3>4
  <2> QED BY <1>1, <2>1 DEF closed
<1>5. applied[q.action][1] = q.incident /\ verdict[q.action] = "none" /\ q.action \in DOMAIN applied
  BY <1>1 DEF applied, verdict, Key
<1> HIDE DEF q
<1>6. \E n \in DOMAIN applied, v \in {"success", "failed", "no_effect"} :
        /\ verdict[n] = "none"
        /\ verdict' = [verdict EXCEPT ![n] = v]
        /\ closed' = IF v = "success" THEN closed \cup {applied[n][1]} ELSE closed
        /\ applied' = applied
  BY <1>1, <1>2, <1>3, <1>4, <1>5 DEF OutcomeKind
<1> QED BY <1>6 DEF Ledger!Judge

\* The responder and the outcome path together implement the ledger: every
\* behaviour, with crashes, lost acknowledgements and duplicates, applies each
\* command at most once, never to a closed incident, and judges it at most once.
THEOREM ResponderImplementsLedger == Spec => ImplementsLedger
<1>1. Init => Ledger!Init
  BY DEF Init, Ledger!Init, applied, verdict, closed
<1>2. TypeInv /\ TypeInv' /\ OneOutcomePerAction /\ ResolvedMeansVerified /\ [Next]_vars
        => [Ledger!Next]_<<applied, verdict, closed>>
  <2> SUFFICES ASSUME TypeInv, TypeInv', OneOutcomePerAction, ResolvedMeansVerified,
                      [Next]_vars
               PROVE  [Ledger!Next]_<<applied, verdict, closed>>
    OBVIOUS
  <2>1. CASE UNCHANGED <<incidents, actions, outcomes>>
    <3>1. applied' = applied
      BY <2>1 DEF applied, Key
    <3>2. verdict' = verdict
      BY <2>1 DEF verdict, Existing
    <3>3. closed' = closed
      BY <2>1 DEF closed
    <3> QED BY <3>1, <3>2, <3>3
  <2>2. CASE \E t \in Turn : Remediates(t)
    BY <2>2, RemediateApplies DEF Ledger!Next
  <2>3. CASE \E c \in Call : Records(c)
    BY <2>3, RecordJudges DEF Ledger!Next
  <2> QED BY <2>1, <2>2, <2>3, DatabaseSteps
<1>3. Spec => []TypeInv
  BY InitTypeInv, NextTypeInv, PTL DEF Spec
<1> QED BY <1>1, <1>2, <1>3, OutcomesAreUnique, ResolutionIsVerified, PTL
        DEF Spec, ImplementsLedger, Ledger!Spec

----------------------------------------------------------------------------
(***************************************************************************)
(* What the rows of remediation_actions owe to the turns and calls that    *)
(* wrote them, and what turns, calls and read models may tell of the rows. *)
(***************************************************************************)

\* Where a turn holds a command it may execute.
Armed == {"authorized", "execute", "replay", "committed"}

\* Where a turn that wrote a row can be: it never decides again.
Past == {"committed", "failed", "done", "crashed"}

\* Memory m may be cited for the incident and the service.
Grounds(rows, m, incident, service) ==
  \/ m \in Runbook
  \/ /\ m \in DOMAIN rows
     /\ rows[m].service = service
     /\ rows[m].incident # incident

\* The command is the turn's own, authorized and grounded.
Ready(t) ==
  /\ command[t].incident = signal[t].incident
  /\ command[t].service = signal[t].service
  /\ Authorized(t, command[t])
  /\ Grounds(actions, command[t].cited, command[t].incident, command[t].service)
  /\ command[t].runbook = RunbookOf(command[t].cited)

\* What the locals of one turn are worth, whatever the other turns commit.
TurnFact(t) ==
  /\ pc[t] = "reason" =>
       \A m \in recalled[t] : Grounds(actions, m, signal[t].incident, signal[t].service)
  /\ pc[t] \in Armed => Ready(t)
  /\ result[t] # Null =>
       /\ pc[t] \in {"committed", "done", "crashed"}
       /\ result[t] \in DOMAIN actions
       /\ Key(actions[result[t]]) = Key(command[t])

TurnFacts == \A t \in Turn : TurnFact(t)

\* The turn that wrote a row was authorized and keeps its command.
Vouches(t) == pc[t] \in Past /\ Authorized(t, command[t])

Signed == \A n \in DOMAIN actions : \E t \in Turn : actions[n].by = t /\ Vouches(t)

\* What a call was told or will be told is in the database.
Backed(c) ==
  \E k \in DOMAIN outcomes : /\ outcomes[k].action = call[c].action
                             /\ outcomes[k].outcome = call[c].outcome

Assured(c) == call[c].pc = "recorded" \/ call[c].answer \in {"recorded", "replayed"}

CallFacts ==
  \A c \in Call : Assured(c) => call[c].pc # "idle" /\ Backed(c)

\* At most one call is about to announce an action, and nobody has before.
Unannounced ==
  \A c \in Call : call[c].pc = "recorded" =>
    /\ \A j \in DOMAIN announced : announced[j] # call[c].action
    /\ \A d \in Call : call[d].pc = "recorded" /\ call[d].action = call[c].action => d = c

----------------------------------------------------------------------------
(* Rows: columns that are never overwritten.                               *)

\* Rows are only appended, and a row keeps everything but its outcome.
RowsGrow ==
  /\ DOMAIN actions \subseteq DOMAIN actions'
  /\ \A n \in DOMAIN actions :
       /\ Key(actions'[n]) = Key(actions[n])
       /\ actions'[n].incident = actions[n].incident
       /\ actions'[n].service = actions[n].service
       /\ actions'[n].remedy = actions[n].remedy
       /\ actions'[n].cited = actions[n].cited
       /\ actions'[n].runbook = actions[n].runbook
       /\ actions'[n].by = actions[n].by

\* Neither statement takes effect.
Quiet ==
  /\ UNCHANGED <<actions, outcomes, services>>
  /\ \A r \in Runbook : runbooks'[r].usage = runbooks[r].usage

\* Turn t's statement takes effect; the turn is over, or has its result.
Commits(t) ==
  /\ pc[t] = "execute" /\ pc' = [pc EXCEPT ![t] = pc'[t]] /\ pc'[t] \in {"committed", "failed"}
  /\ Remediates(t)
  /\ result' = [result EXCEPT ![t] = result'[t]]
  /\ IF pc'[t] = "committed" THEN result'[t] = Len(actions) + 1 ELSE result'[t] = result[t]
  /\ UNCHANGED <<signal, recalled, command, registry, call, announced>>

\* Call c's statement takes effect.
Reports(c) ==
  /\ call[c].pc = "executing"
  /\ Records(c)
  /\ \/ call' = [call EXCEPT ![c] = [@ EXCEPT !.pc = "recorded"]]
     \/ Answer(c, "error")
  /\ UNCHANGED <<turnVars, services, runbooks, registry, announced>>

\* The row a remediation appends.
LEMMA AppendedRow ==
  ASSUME TypeInv, NEW t \in Turn, Remediates(t)
  PROVE  /\ RowsGrow
         /\ Len(actions) \in Nat
         /\ DOMAIN actions = 1..Len(actions)
         /\ DOMAIN actions' = 1..(Len(actions) + 1)
         /\ \A n \in DOMAIN actions : actions'[n] = actions[n]
         /\ actions'[Len(actions) + 1].incident = command[t].incident
         /\ actions'[Len(actions) + 1].service = command[t].service
         /\ actions'[Len(actions) + 1].remedy = command[t].remedy
         /\ actions'[Len(actions) + 1].cited = command[t].cited
         /\ actions'[Len(actions) + 1].runbook = command[t].runbook
         /\ actions'[Len(actions) + 1].by = t
<1>1. actions \in Seq(ActionRow)
  BY DEF TypeInv, TypeOK, TablesOK
<1> DEFINE row == [incident |-> command[t].incident, service |-> command[t].service,
                   remedy |-> command[t].remedy, cited |-> command[t].cited,
                   runbook |-> command[t].runbook, outcome |-> "success", by |-> t]
<1>2. actions' = Append(actions, row)
  BY DEF Remediates, RemediateAndRecord
<1> HIDE DEF row
<1>3. /\ Len(actions) \in Nat
      /\ DOMAIN actions = 1..Len(actions)
      /\ DOMAIN actions' = 1..(Len(actions) + 1)
      /\ \A n \in DOMAIN actions : actions'[n] = actions[n]
      /\ actions'[Len(actions) + 1] = row
  BY <1>1, <1>2
<1>4. RowsGrow
  BY <1>3 DEF RowsGrow, Key
<1>5. /\ row.incident = command[t].incident /\ row.service = command[t].service
      /\ row.remedy = command[t].remedy /\ row.cited = command[t].cited
      /\ row.runbook = command[t].runbook /\ row.by = t
  BY DEF row
<1> QED BY <1>3, <1>4, <1>5

\* An outcome overwrites one column of one row.
LEMMA JudgedRows ==
  ASSUME TypeInv, NEW c \in Call, Records(c)
  PROVE  RowsGrow /\ DOMAIN actions' = DOMAIN actions
<1>1. actions \in Seq(ActionRow)
  BY DEF TypeInv, TypeOK, TablesOK
<1>2. call[c].action \in DOMAIN actions /\ actions[call[c].action] \in ActionRow
  BY <1>1 DEF Records
<1>3. actions' = [actions EXCEPT ![call[c].action] =
                    [actions[call[c].action] EXCEPT !.outcome = call[c].outcome]]
  BY DEF Records, RecordOutcome
<1> QED BY <1>1, <1>2, <1>3 DEF RowsGrow, Key, ActionRow

LEMMA RowsStay ==
  ASSUME UNCHANGED actions
  PROVE  RowsGrow
  BY DEF RowsGrow, Key

\* The steps that write, with everything they leave alone.
LEMMA WritingSteps ==
  ASSUME TypeInv, [Next]_vars
  PROVE  \/ Quiet
         \/ \E t \in Turn : Commits(t)
         \/ \E c \in Call : Reports(c)
<1>1. CASE UNCHANGED vars
  BY <1>1 DEF vars, database, Quiet
<1>2. ASSUME NEW t \in Turn, Arrive(t) \/ Deliberate(t) PROVE Quiet
  BY <1>2 DEF Arrive, RefuseSignal, Receive, Deliberate, Recall, Decline, PauseForApproval,
              Authorize, Block, ExternalFailure, StartTransaction, FailWith, database, Quiet
<1>4. ASSUME NEW t \in Turn, Execute(t)
      PROVE  Quiet \/ Commits(t)
  <2>0. /\ pc \in [Turn -> TurnPC] /\ result \in [Turn -> Nat \cup {Null}]
        /\ pc[t] = "execute" => command[t] \in RemediationCommand
    BY DEF TypeInv, TypeOK, TurnsOK, TurnInv
  <2>1. CASE Commit(t)
    BY <2>0, <2>1 DEF Commit, GoTo, Remediates, Commits
  <2>2. CASE CommitUnacknowledged(t)
    BY <2>0, <2>2 DEF CommitUnacknowledged, Remediates, Commits, RollBack, FailWith
  <2>3. CASE \/ Reject(t) \/ Collide(t) \/ RetrySerialization(t) \/ GiveUp(t)
             \/ DatabaseError(t) \/ Replay(t) \/ ReplayFails(t) \/ Finish(t)
    BY <2>3 DEF Reject, Collide, RetrySerialization, GiveUp, DatabaseError,
                Replay, ReplayFails, Finish, database, Quiet
  <2> QED BY <1>4, <2>1, <2>2, <2>3 DEF Execute
<1>5. ASSUME NEW c \in Call, Post(c) \/ CallStep(c)
      PROVE  Quiet \/ Reports(c)
  <2>1. CASE OutcomeCommit(c)
    BY <2>1 DEF OutcomeCommit, Records, Reports, TypeInv, TypeOK, CallInv, RecordOutcome
  <2>2. CASE OutcomeUnacknowledged(c)
    BY <2>2 DEF OutcomeUnacknowledged, Records, Reports, TypeInv, TypeOK, CallInv, RecordOutcome
  <2>3. CASE \/ Post(c) \/ Announce(c) \/ OutcomeReplay(c) \/ OutcomeReject(c)
             \/ OutcomeRetry(c) \/ OutcomeError(c)
    BY <2>3 DEF Post, Announce, OutcomeReplay, OutcomeReject, OutcomeRetry,
                OutcomeError, database, Quiet
  <2> QED BY <1>5, <2>1, <2>2, <2>3 DEF CallStep
<1>6. ASSUME NEW r \in Runbook, Activate(r) \/ Deprecate(r)
      PROVE  Quiet
  <2>1. runbooks \in [Runbook -> [status : RunbookStatus, usage : Nat]]
    BY DEF TypeInv, TypeOK, TablesOK
  <2>2. \A q \in Runbook : runbooks'[q].usage = runbooks[q].usage
    BY <1>6, <2>1 DEF Activate, Deprecate
  <2> QED BY <1>6, <2>2 DEF Activate, Deprecate, Quiet
<1>7. CASE Crash
  BY <1>7 DEF Crash, database, Quiet
<1> QED BY <1>1, <1>2, <1>4, <1>5, <1>6, <1>7 DEF Next, TurnStep

LEMMA RowsAlwaysGrow ==
  ASSUME TypeInv, [Next]_vars
  PROVE  RowsGrow
<1>1. \A t \in Turn : Commits(t) => RowsGrow
  BY AppendedRow DEF Commits
<1>2. \A c \in Call : Reports(c) => RowsGrow
  BY JudgedRows DEF Reports
<1>3. Quiet => RowsGrow
  BY RowsStay DEF Quiet
<1> QED BY <1>1, <1>2, <1>3, WritingSteps

----------------------------------------------------------------------------
(* Turns.                                                                  *)

\* What grounds a citation stays there.
LEMMA GroundsStay ==
  ASSUME RowsGrow, NEW m, NEW i, NEW s, Grounds(actions, m, i, s)
  PROVE  Grounds(actions', m, i, s)
  BY DEF RowsGrow, Grounds

\* A turn keeps its facts while others commit, and when it ends.
LEMMA OtherTurns ==
  ASSUME RowsGrow, NEW t \in Turn, TurnFact(t),
         \/ pc'[t] = pc[t]
         \/ pc'[t] \in {"crashed", "done"}
         \/ pc'[t] = "failed" /\ result[t] = Null,
         signal'[t] = signal[t], recalled'[t] = recalled[t],
         command'[t] = command[t] \/ (result[t] = Null /\ pc'[t] \notin Armed),
         result'[t] = result[t]
  PROVE  TurnFact(t)'
<1>1. pc'[t] = "reason" =>
        \A m \in recalled'[t] : Grounds(actions', m, signal'[t].incident, signal'[t].service)
  BY GroundsStay DEF TurnFact
<1>2. pc'[t] \in Armed => Ready(t)'
  <2>1. SUFFICES ASSUME pc'[t] \in Armed PROVE Ready(t)'
    OBVIOUS
  <2>2. Ready(t) /\ command'[t] = command[t]
    BY <2>1 DEF TurnFact, Armed
  <2>3. RunbookOf(command[t].cited)' = RunbookOf(command[t].cited)
    BY <2>2 DEF Ready, Grounds, RunbookOf, RowsGrow
  <2>4. Grounds(actions', command[t].cited, command[t].incident, command[t].service)
    BY <2>2, GroundsStay DEF Ready
  <2> QED BY <2>2, <2>3, <2>4 DEF Ready, Authorized, HighBlastRadius
<1>3. result'[t] # Null =>
       /\ pc'[t] \in {"committed", "done", "crashed"}
       /\ result'[t] \in DOMAIN actions'
       /\ Key(actions'[result'[t]]) = Key(command'[t])
  BY DEF TurnFact, RowsGrow, Key
<1> QED BY <1>1, <1>2, <1>3 DEF TurnFact, Key

\* A step of one turn leaves the locals of the others alone.
LEMMA OneTurnMoves ==
  ASSUME TypeInv, NEW t \in Turn, Arrive(t) \/ TurnStep(t), NEW u \in Turn, u # t
  PROVE  /\ pc'[u] = pc[u] /\ signal'[u] = signal[u] /\ recalled'[u] = recalled[u]
         /\ command'[u] = command[u] /\ result'[u] = result[u]
<1> USE DEF TypeInv, TypeOK, TurnsOK
<1>1. CASE Arrive(t)
  BY <1>1 DEF Arrive, RefuseSignal, Receive, GoTo
<1>2. CASE Recall(t) \/ Decline(t) \/ PauseForApproval(t) \/ Authorize(t)
  BY <1>2 DEF Recall, Decline, PauseForApproval, Authorize, GoTo
<1>3. CASE Block(t) \/ ExternalFailure(t) \/ StartTransaction(t)
  BY <1>3 DEF Block, ExternalFailure, StartTransaction, GoTo, FailWith
<1>4. CASE Commit(t) \/ CommitUnacknowledged(t) \/ Reject(t) \/ Collide(t) \/ RetrySerialization(t)
  BY <1>4 DEF Commit, CommitUnacknowledged, Reject, Collide, RetrySerialization, GoTo, RollBack, FailWith
<1>5. CASE GiveUp(t) \/ DatabaseError(t) \/ Replay(t) \/ ReplayFails(t) \/ Finish(t)
  BY <1>5 DEF GiveUp, DatabaseError, Replay, ReplayFails, Finish, GoTo, RollBack, FailWith
<1> QED BY <1>1, <1>2, <1>3, <1>4, <1>5 DEF TurnStep, Deliberate, Execute

\* The facts of a turn that makes a step before its transaction.
LEMMA DeliberateTurnFact ==
  ASSUME TypeInv, RowsGrow, NEW t \in Turn, TurnFact(t), Arrive(t) \/ Deliberate(t)
  PROVE  TurnFact(t)'
<1>0. /\ pc \in [Turn -> TurnPC] /\ signal \in [Turn -> IncidentSignal \cup {Null}]
      /\ recalled \in [Turn -> SUBSET Memory]
      /\ command \in [Turn -> RemediationCommand \cup {Null}]
      /\ result \in [Turn -> Nat \cup {Null}]
  BY DEF TypeInv, TypeOK, TurnsOK
<1>a. pc[t] \notin {"committed", "done", "crashed"} => result[t] = Null
  BY DEF TurnFact
<1>1. CASE Arrive(t)
  <2>1. pc[t] = "idle" /\ pc'[t] \in {"refused", "recall"} /\ result'[t] = result[t]
    BY <1>0, <1>1 DEF Arrive, RefuseSignal, Receive, GoTo
  <2> QED BY <1>a, <2>1 DEF TurnFact, Armed
<1>2. CASE Recall(t)
  <2>1. /\ pc[t] = "recall" /\ pc'[t] = "reason" /\ result'[t] = result[t]
        /\ signal'[t] = signal[t] /\ actions' = actions
        /\ recalled'[t] = Actionable(signal[t])
    BY <1>0, <1>2 DEF Recall, GoTo, database
  <2>2. \A m \in Actionable(signal[t]) :
          Grounds(actions, m, signal[t].incident, signal[t].service)
    BY DEF Actionable, Grounds
  <2> QED BY <1>a, <2>1, <2>2 DEF TurnFact, Armed
<1>3. CASE Decline(t) \/ PauseForApproval(t) \/ Block(t) \/ ExternalFailure(t)
  <2>1. /\ pc[t] \in {"recall", "reason", "authorized"} /\ pc'[t] \in {"done", "failed"}
        /\ signal'[t] = signal[t] /\ recalled'[t] = recalled[t] /\ result'[t] = result[t]
    BY <1>0, <1>3 DEF Decline, PauseForApproval, Block, ExternalFailure, GoTo, FailWith
  <2> QED BY <1>a, <2>1, OtherTurns DEF Armed
<1>4. CASE Authorize(t)
  <2>1. PICK c \in Proposals(t) : Authorized(t, c) /\ command' = [command EXCEPT ![t] = c]
    BY <1>4 DEF Authorize
  <2>2. /\ pc[t] = "reason" /\ pc'[t] = "authorized" /\ result'[t] = result[t]
        /\ signal'[t] = signal[t] /\ actions' = actions /\ command'[t] = c
    BY <1>0, <1>4, <2>1 DEF Authorize, GoTo, database
  <2>3. /\ c.incident = signal[t].incident /\ c.service = signal[t].service
        /\ c.cited \in recalled[t] /\ c.runbook = RunbookOf(c.cited)
    BY DEF Proposals
  <2>4. Grounds(actions, c.cited, c.incident, c.service)
    BY <2>2, <2>3 DEF TurnFact
  <2>5. Ready(t)'
    BY <2>1, <2>2, <2>3, <2>4 DEF Ready, Authorized, HighBlastRadius, RunbookOf
  <2> QED BY <1>a, <2>2, <2>5 DEF TurnFact
<1>5. CASE StartTransaction(t)
  <2>1. /\ pc[t] = "authorized" /\ pc'[t] = "execute" /\ result'[t] = result[t]
        /\ signal'[t] = signal[t] /\ actions' = actions /\ command'[t] = command[t]
    BY <1>0, <1>5 DEF StartTransaction, GoTo, database
  <2>2. Ready(t)
    BY <2>1 DEF TurnFact, Armed
  <2>3. Ready(t)'
    BY <2>1, <2>2 DEF Ready, Authorized, HighBlastRadius, RunbookOf
  <2> QED BY <1>a, <2>1, <2>3 DEF TurnFact
<1> QED BY <1>1, <1>2, <1>3, <1>4, <1>5 DEF Deliberate

\* The facts of a turn in its transaction: what it gets back is the row of its
\* own command, written by itself or found under its key.
LEMMA ExecuteTurnFact ==
  ASSUME TypeInv, RowsGrow, NEW t \in Turn, TurnFact(t), Execute(t)
  PROVE  TurnFact(t)'
<1>0. /\ pc \in [Turn -> TurnPC] /\ signal \in [Turn -> IncidentSignal \cup {Null}]
      /\ recalled \in [Turn -> SUBSET Memory]
      /\ command \in [Turn -> RemediationCommand \cup {Null}]
      /\ result \in [Turn -> Nat \cup {Null}]
      /\ pc[t] = "execute" => command[t] \in RemediationCommand
  BY DEF TypeInv, TypeOK, TurnsOK, TurnInv
<1>a. pc[t] \notin {"committed", "done", "crashed"} => result[t] = Null
  BY DEF TurnFact
<1> DEFINE Keeps == /\ signal'[t] = signal[t] /\ recalled'[t] = recalled[t]
                    /\ command'[t] = command[t]
<1>b. ASSUME pc[t] \in Armed, Keeps PROVE Ready(t)'
  <2>1. Ready(t)
    BY <1>b DEF TurnFact
  <2>2. RunbookOf(command[t].cited)' = RunbookOf(command[t].cited)
    BY <1>b, <2>1 DEF Ready, Grounds, RunbookOf, RowsGrow
  <2>3. Grounds(actions', command[t].cited, command[t].incident, command[t].service)
    BY <2>1, GroundsStay DEF Ready
  <2> QED BY <1>b, <2>1, <2>2, <2>3 DEF Ready, Authorized, HighBlastRadius
<1>1. CASE Commit(t)
  <2>1. /\ pc[t] = "execute" /\ pc'[t] = "committed" /\ Keeps
        /\ result'[t] = Len(actions) + 1 /\ Remediates(t)
    BY <1>0, <1>1 DEF Commit, GoTo, Remediates
  <2>2. Len(actions) + 1 \in DOMAIN actions' /\ Key(actions'[Len(actions) + 1]) = Key(command[t])
    BY <2>1, RemediatedRows
  <2>3. Ready(t)'
    BY <1>b, <2>1 DEF Armed
  <2> QED BY <2>1, <2>2, <2>3 DEF TurnFact, Key
<1>2. CASE \/ CommitUnacknowledged(t) \/ Reject(t) \/ GiveUp(t) \/ DatabaseError(t)
           \/ ReplayFails(t) \/ Finish(t)
  <2>1. /\ Keeps /\ result'[t] = result[t]
        /\ \/ pc[t] \in {"execute", "replay"} /\ pc'[t] = "failed"
           \/ pc'[t] = "done"
    BY <1>0, <1>2 DEF CommitUnacknowledged, Reject, GiveUp, DatabaseError, ReplayFails, Finish,
                      RollBack, FailWith, GoTo
  <2> QED BY <1>a, <2>1, OtherTurns
<1>3. CASE Collide(t) \/ RetrySerialization(t)
  <2>1. /\ Keeps /\ result'[t] = result[t]
        /\ pc[t] = "execute" /\ pc'[t] \in {"execute", "replay"}
    BY <1>0, <1>3 DEF Collide, RetrySerialization, GoTo
  <2>2. Ready(t)'
    BY <1>b, <2>1 DEF Armed
  <2> QED BY <1>a, <2>1, <2>2 DEF TurnFact
<1>4. CASE Replay(t)
  <2>1. PICK n \in DOMAIN actions : /\ Key(actions[n]) = Key(command[t])
                                    /\ result' = [result EXCEPT ![t] = n]
    BY <1>4 DEF Replay
  <2>2. /\ pc[t] = "replay" /\ pc'[t] = "committed" /\ Keeps
        /\ result'[t] = n /\ actions' = actions
    BY <1>0, <1>4, <2>1 DEF Replay, GoTo, database
  <2>3. Ready(t)'
    BY <1>b, <2>2 DEF Armed
  <2> QED BY <2>1, <2>2, <2>3 DEF TurnFact, Key
<1> QED BY <1>1, <1>2, <1>3, <1>4 DEF Execute

LEMMA NextTurnFacts ==
  ASSUME TypeInv, TurnFacts, [Next]_vars
  PROVE  TurnFacts'
<1>1. RowsGrow
  BY RowsAlwaysGrow
<1>2. SUFFICES ASSUME NEW u \in Turn PROVE TurnFact(u)'
  BY DEF TurnFacts
<1>3. TurnFact(u)
  BY DEF TurnFacts
<1>4. ASSUME NEW t \in Turn, Arrive(t) \/ TurnStep(t) PROVE TurnFact(u)'
  <2>1. CASE u = t
    BY <1>1, <1>3, <1>4, <2>1, DeliberateTurnFact, ExecuteTurnFact DEF TurnStep
  <2>2. CASE u # t
    BY <1>1, <1>3, <1>4, <2>2, OneTurnMoves, OtherTurns
  <2> QED BY <2>1, <2>2
<1>5. CASE UNCHANGED turnVars
  BY <1>1, <1>3, <1>5, OtherTurns DEF turnVars
<1>6. CASE Crash
  <2>1. /\ pc'[u] = pc[u] \/ pc'[u] = "crashed"
        /\ signal'[u] = signal[u] /\ recalled'[u] = recalled[u]
        /\ command'[u] = command[u] /\ result'[u] = result[u]
    BY <1>6 DEF Crash
  <2> QED BY <1>1, <1>3, <2>1, OtherTurns
<1>7. ASSUME NEW c \in Call, Post(c) \/ CallStep(c) PROVE UNCHANGED turnVars
  BY <1>7 DEF Post, CallStep, OutcomeCommit, Announce, OutcomeUnacknowledged, OutcomeReplay,
              OutcomeReject, OutcomeRetry, OutcomeError
<1>8. ASSUME NEW r \in Runbook, Activate(r) \/ Deprecate(r) PROVE UNCHANGED turnVars
  BY <1>8 DEF Activate, Deprecate
<1>9. UNCHANGED vars => UNCHANGED turnVars
  BY DEF vars
<1> QED BY <1>4, <1>5, <1>6, <1>7, <1>8, <1>9 DEF Next

LEMMA InitTurnFacts == Init => TurnFacts
  BY DEF Init, TurnFacts, TurnFact, Armed

----------------------------------------------------------------------------
(* What turns and the registry tell.                                       *)

\* A completed turn shows the row of its own incident.
LEMMA FinishBacked ==
  ASSUME TypeInv, TurnFacts, RegistryIsBacked, NEW t \in Turn, Finish(t)
  PROVE  RegistryIsBacked'
<1>1. pc[t] = "committed" /\ actions' = actions
      /\ registry' = [registry EXCEPT ![signal[t].incident].completed = TRUE,
                                      ![signal[t].incident].action = result[t]]
  BY DEF Finish, GoTo, Complete, database
<1>2. Ready(t) /\ TurnFact(t)
  BY <1>1 DEF TurnFacts, TurnFact, Armed
<1>3. result[t] # Null => /\ result[t] \in DOMAIN actions
                          /\ actions[result[t]].incident = signal[t].incident
  BY <1>2 DEF TurnFact, Ready, Key
<1>4. registry \in [Incident -> [received : BOOLEAN, completed : BOOLEAN, action : Nat \cup {Null}]]
  BY DEF TypeInv, TypeOK
<1>5. \A i \in Incident : registry'[i].action = IF i = signal[t].incident THEN result[t]
                                                                       ELSE registry[i].action
  BY <1>1, <1>4
<1>6. SUFFICES ASSUME NEW i \in Incident, registry'[i].action # Null
               PROVE  registry'[i].action \in DOMAIN actions /\ actions[registry'[i].action].incident = i
  BY <1>1 DEF RegistryIsBacked
<1>7. CASE i = signal[t].incident
  BY <1>3, <1>5, <1>6, <1>7
<1>8. CASE i # signal[t].incident
  BY <1>5, <1>6, <1>8 DEF RegistryIsBacked
<1> QED BY <1>7, <1>8

LEMMA NextRegistry ==
  ASSUME TypeInv, TurnFacts, RegistryIsBacked, [Next]_vars
  PROVE  RegistryIsBacked'
<1>1. RowsGrow
  BY RowsAlwaysGrow
<1>2. registry \in [Incident -> [received : BOOLEAN, completed : BOOLEAN, action : Nat \cup {Null}]]
  BY DEF TypeInv, TypeOK
<1>3. ASSUME \A i \in Incident : registry'[i].action \in {registry[i].action, Null}
      PROVE  RegistryIsBacked'
  BY <1>1, <1>3 DEF RegistryIsBacked, RowsGrow
<1>4. CASE UNCHANGED registry
  BY <1>3, <1>4
<1>5. ASSUME NEW t \in Turn, Arrive(t) \/ Decline(t) \/ PauseForApproval(t) PROVE RegistryIsBacked'
  <2>1. \A i \in Incident : registry'[i].action \in {registry[i].action, Null}
    <3>1. CASE RefuseSignal(t)
      BY <3>1 DEF RefuseSignal
    <3>2. CASE Receive(t)
      <4>1. PICK sig \in Requests : registry' = [registry EXCEPT ![sig.incident].received = TRUE]
        BY <3>2 DEF Receive
      <4> QED BY <1>2, <4>1
    <3>3. CASE Decline(t) \/ PauseForApproval(t)
      <4>1. registry' = [registry EXCEPT ![signal[t].incident].completed = TRUE,
                                         ![signal[t].incident].action = Null]
        BY <3>3 DEF Decline, PauseForApproval, Complete
      <4> QED BY <1>2, <4>1
    <3> QED BY <1>5, <3>1, <3>2, <3>3 DEF Arrive
  <2> QED BY <1>3, <2>1
<1>6. ASSUME NEW t \in Turn, TurnStep(t)
      PROVE  Decline(t) \/ PauseForApproval(t) \/ Finish(t) \/ UNCHANGED registry
  BY <1>6 DEF TurnStep, Deliberate, Execute, Recall, Authorize, Block, ExternalFailure,
              StartTransaction, Commit, CommitUnacknowledged, Reject, Collide,
              RetrySerialization, GiveUp, DatabaseError, Replay, ReplayFails, RollBack, FailWith
<1>7. CASE Crash
  BY <1>3, <1>7 DEF Crash
<1>8. ASSUME NEW c \in Call, Post(c) \/ CallStep(c) PROVE UNCHANGED registry
  BY <1>8 DEF Post, CallStep, OutcomeCommit, Announce, OutcomeUnacknowledged, OutcomeReplay,
              OutcomeReject, OutcomeRetry, OutcomeError
<1>9. ASSUME NEW r \in Runbook, Activate(r) \/ Deprecate(r) PROVE UNCHANGED registry
  BY <1>9 DEF Activate, Deprecate
<1>10. UNCHANGED vars => UNCHANGED registry
  BY DEF vars
<1> QED BY <1>4, <1>5, <1>6, <1>7, <1>8, <1>9, <1>10, FinishBacked DEF Next

\* The result a turn returns is the row of its own command and the registry
\* shows rows of its own incidents only, however turns were duplicated,
\* replayed, completed out of order or cut off by a crash.
THEOREM ResultsAreInTheDatabase == Spec => []ResultsAreBacked
<1>1. Init => RegistryIsBacked
  BY DEF Init, RegistryIsBacked
<1>2. TypeInv /\ TurnFacts /\ RegistryIsBacked /\ [Next]_vars => RegistryIsBacked'
  BY NextRegistry
<1>3. TypeInv /\ TurnFacts /\ [Next]_vars => TurnFacts'
  BY NextTurnFacts
<1>4. TurnFacts /\ RegistryIsBacked => ResultsAreBacked
  BY DEF TurnFacts, TurnFact, ResultsAreBacked, ResultIsOwnCommand
<1> QED BY <1>1, <1>2, <1>3, <1>4, InitTurnFacts, InitTypeInv, NextTypeInv, PTL DEF Spec

----------------------------------------------------------------------------
(* What a row owes to its turn.                                            *)

\* A row is written for a turn whose command is still what was authorized.
LEMMA CommitsReady ==
  ASSUME TurnFacts, NEW t \in Turn, Commits(t)
  PROVE  Ready(t)
  BY DEF Commits, TurnFacts, TurnFact, Armed

LEMMA NextGrounded ==
  ASSUME TypeInv, TurnFacts, Grounded, [Next]_vars
  PROVE  Grounded'
<1>0. actions \in Seq(ActionRow) /\ DOMAIN actions = 1..Len(actions) /\ Len(actions) \in Nat
  BY DEF TypeInv, TypeOK, TablesOK
<1> DEFINE Holds(rows, n) ==
             IF rows[n].cited \in Runbook
               THEN rows[n].runbook = rows[n].cited
               ELSE /\ rows[n].cited \in 1..(n - 1)
                    /\ rows[rows[n].cited].service = rows[n].service
                    /\ rows[rows[n].cited].incident # rows[n].incident
                    /\ rows[rows[n].cited].runbook = rows[n].runbook
<1>1. ASSUME RowsGrow, NEW n \in DOMAIN actions PROVE Holds(actions', n)
  <2>1. Holds(actions, n)
    BY DEF Grounded
  <2>2. CASE actions[n].cited \in Runbook
    BY <1>1, <2>1, <2>2 DEF RowsGrow
  <2>3. CASE actions[n].cited \notin Runbook
    <3>1. actions[n].cited \in DOMAIN actions
      BY <1>0, <2>1, <2>3
    <3> QED BY <1>1, <2>1, <2>3, <3>1 DEF RowsGrow
  <2> QED BY <2>2, <2>3
<1>2. ASSUME NEW t \in Turn, Commits(t) PROVE Holds(actions', Len(actions) + 1)
  <2>1. Ready(t) /\ Remediates(t)
    BY <1>2, CommitsReady DEF Commits
  <2>2. /\ actions'[Len(actions) + 1].incident = command[t].incident
        /\ actions'[Len(actions) + 1].service = command[t].service
        /\ actions'[Len(actions) + 1].cited = command[t].cited
        /\ actions'[Len(actions) + 1].runbook = command[t].runbook
        /\ \A n \in DOMAIN actions : actions'[n] = actions[n]
    BY <2>1, AppendedRow
  <2>3. CASE command[t].cited \in Runbook
    BY <2>1, <2>2, <2>3 DEF Ready, RunbookOf
  <2>4. CASE command[t].cited \notin Runbook
    <3>1. /\ command[t].cited \in DOMAIN actions
          /\ actions[command[t].cited].service = command[t].service
          /\ actions[command[t].cited].incident # command[t].incident
          /\ actions[command[t].cited].runbook = command[t].runbook
      BY <2>1, <2>4 DEF Ready, Grounds, RunbookOf
    <3>2. command[t].cited \in 1..((Len(actions) + 1) - 1)
      BY <1>0, <3>1
    <3> QED BY <2>2, <2>4, <3>1, <3>2
  <2> QED BY <2>3, <2>4
<1> HIDE DEF Holds
<1>3. CASE Quiet
  <2>1. \A n \in DOMAIN actions' : Holds(actions', n)
    BY <1>1, <1>3, RowsStay DEF Quiet
  <2> QED BY <2>1 DEF Grounded, Holds
<1>4. ASSUME NEW t \in Turn, Commits(t) PROVE Grounded'
  <2>1. RowsGrow /\ DOMAIN actions' = 1..(Len(actions) + 1)
    BY <1>4, AppendedRow DEF Commits
  <2>2. \A n \in DOMAIN actions' : n \in DOMAIN actions \/ n = Len(actions) + 1
    BY <1>0, <2>1
  <2>3. \A n \in DOMAIN actions' : Holds(actions', n)
    BY <1>1, <1>2, <1>4, <2>1, <2>2
  <2> QED BY <2>3 DEF Grounded, Holds
<1>5. ASSUME NEW c \in Call, Reports(c) PROVE Grounded'
  <2>1. RowsGrow /\ DOMAIN actions' = DOMAIN actions
    BY <1>5, JudgedRows DEF Reports
  <2>2. \A n \in DOMAIN actions' : Holds(actions', n)
    BY <1>1, <2>1
  <2> QED BY <2>2 DEF Grounded, Holds
<1> QED BY <1>3, <1>4, <1>5, WritingSteps

\* Every row of remediation_actions cites a runbook or an earlier row of its
\* service from another incident, and carries that runbook, although turns
\* recall and commit at different times.
THEOREM ActionsAreGrounded == Spec => []Grounded
<1>1. Init => Grounded
  BY DEF Init, Grounded
<1>2. TypeInv /\ TurnFacts /\ Grounded /\ [Next]_vars => Grounded'
  BY NextGrounded
<1>3. TypeInv /\ TurnFacts /\ [Next]_vars => TurnFacts'
  BY NextTurnFacts
<1> QED BY <1>1, <1>2, <1>3, InitTurnFacts, InitTypeInv, NextTypeInv, PTL DEF Spec

\* A turn that wrote a row keeps what it was asked and what it decided.
LEMMA PastIsKept ==
  ASSUME TypeInv, [Next]_vars, NEW u \in Turn, pc[u] \in Past
  PROVE  pc'[u] \in Past /\ command'[u] = command[u] /\ signal'[u] = signal[u]
<1>0. /\ pc \in [Turn -> TurnPC] /\ signal \in [Turn -> IncidentSignal \cup {Null}]
      /\ command \in [Turn -> RemediationCommand \cup {Null}]
  BY DEF TypeInv, TypeOK, TurnsOK
<1>1. ASSUME NEW t \in Turn, Arrive(t) \/ Deliberate(t) PROVE pc[t] \notin Past
  BY <1>1 DEF Arrive, Deliberate, RefuseSignal, Receive, Recall, Decline, PauseForApproval,
              Authorize, Block, ExternalFailure, StartTransaction, GoTo, Past
<1>2. ASSUME NEW t \in Turn, Execute(t) PROVE Finish(t) \/ pc[t] \notin Past
  BY <1>2 DEF Execute, Commit, CommitUnacknowledged, Reject, Collide, RetrySerialization,
              GiveUp, DatabaseError, Replay, ReplayFails, GoTo, Past
<1>3. ASSUME NEW t \in Turn, Arrive(t) \/ TurnStep(t)
      PROVE  pc'[u] \in Past /\ command'[u] = command[u] /\ signal'[u] = signal[u]
  <2>1. CASE u # t
    BY <1>3, <2>1, OneTurnMoves
  <2>2. CASE u = t
    <3>1. Finish(t)
      BY <1>1, <1>2, <1>3, <2>2 DEF TurnStep
    <3> QED BY <1>0, <2>2, <3>1 DEF Finish, GoTo, Past
  <2> QED BY <2>1, <2>2
<1>4. CASE UNCHANGED <<pc, command, signal>>
  BY <1>4
<1>5. CASE Crash
  BY <1>0, <1>5 DEF Crash, Past
<1>6. ASSUME NEW c \in Call, Post(c) \/ CallStep(c) PROVE UNCHANGED <<pc, command, signal>>
  BY <1>6 DEF Post, CallStep, OutcomeCommit, Announce, OutcomeUnacknowledged, OutcomeReplay,
              OutcomeReject, OutcomeRetry, OutcomeError, turnVars
<1>7. ASSUME NEW r \in Runbook, Activate(r) \/ Deprecate(r) PROVE UNCHANGED <<pc, command, signal>>
  BY <1>7 DEF Activate, Deprecate, turnVars
<1>8. UNCHANGED vars => UNCHANGED <<pc, command, signal>>
  BY DEF vars, turnVars
<1> QED BY <1>3, <1>4, <1>5, <1>6, <1>7, <1>8 DEF Next

LEMMA NextSigned ==
  ASSUME TypeInv, TurnFacts, Signed, [Next]_vars
  PROVE  Signed'
<1>0. actions \in Seq(ActionRow) /\ DOMAIN actions = 1..Len(actions) /\ Len(actions) \in Nat
  BY DEF TypeInv, TypeOK, TablesOK
<1>1. RowsGrow
  BY RowsAlwaysGrow
<1>2. ASSUME NEW n \in DOMAIN actions
      PROVE  \E t \in Turn : actions'[n].by = t /\ Vouches(t)'
  <2>1. PICK t \in Turn : actions[n].by = t /\ Vouches(t)
    BY DEF Signed
  <2>2. actions'[n].by = t
    BY <1>1, <2>1 DEF RowsGrow
  <2>3. pc'[t] \in Past /\ command'[t] = command[t] /\ signal'[t] = signal[t]
    BY <2>1, PastIsKept DEF Vouches
  <2>4. Vouches(t)'
    BY <2>1, <2>3 DEF Vouches, Authorized, HighBlastRadius
  <2> QED BY <2>2, <2>4
<1>3. ASSUME NEW t \in Turn, Commits(t)
      PROVE  /\ actions'[Len(actions) + 1].by = t /\ DOMAIN actions' = 1..(Len(actions) + 1)
             /\ Vouches(t)'
  <2>1. actions'[Len(actions) + 1].by = t /\ DOMAIN actions' = 1..(Len(actions) + 1)
    BY <1>3, AppendedRow DEF Commits
  <2>2. Authorized(t, command[t])
    BY <1>3, CommitsReady DEF Ready
  <2>3. Vouches(t)'
    BY <1>3, <2>2 DEF Commits, Past, Vouches, Authorized, HighBlastRadius
  <2> QED BY <2>1, <2>3
<1>4. CASE Quiet
  BY <1>2, <1>4 DEF Signed, Quiet
<1>5. ASSUME NEW t \in Turn, Commits(t) PROVE Signed'
  <2>1. SUFFICES ASSUME NEW n \in DOMAIN actions'
                 PROVE  \E u \in Turn : actions'[n].by = u /\ Vouches(u)'
    BY DEF Signed
  <2>2. n \in DOMAIN actions \/ n = Len(actions) + 1
    BY <1>0, <1>3, <1>5
  <2> QED BY <1>2, <1>3, <1>5, <2>2
<1>6. ASSUME NEW c \in Call, Reports(c) PROVE Signed'
  <2>1. DOMAIN actions' = DOMAIN actions
    BY <1>6, JudgedRows DEF Reports
  <2> QED BY <1>2, <2>1 DEF Signed
<1> QED BY <1>4, <1>5, <1>6, WritingSteps

\* No row that a critical tag or the reasoner puts under approval exists
\* without a named human's approval in the request that wrote it.
THEOREM HighBlastRadiusIsApproved == Spec => []ApprovedByNamedHuman
<1>1. Init => Signed
  BY DEF Init, Signed
<1>2. TypeInv /\ TurnFacts /\ Signed /\ [Next]_vars => Signed'
  BY NextSigned
<1>3. TypeInv /\ TurnFacts /\ [Next]_vars => TurnFacts'
  BY NextTurnFacts
<1>4. Signed => ApprovedByNamedHuman
  BY DEF Signed, Vouches, ApprovedByNamedHuman, Authorized
<1> QED BY <1>1, <1>2, <1>3, <1>4, InitTurnFacts, InitTypeInv, NextTypeInv, PTL DEF Spec

----------------------------------------------------------------------------
(* The tables beside remediation_actions.                                  *)

LEMMA NextUsage ==
  ASSUME TypeInv, UsageCountsActions, [Next]_vars
  PROVE  UsageCountsActions'
<1>0. /\ DOMAIN actions = 1..Len(actions) /\ Len(actions) \in Nat
      /\ runbooks \in [Runbook -> [status : RunbookStatus, usage : Nat]]
  BY DEF TypeInv, TypeOK, TablesOK
<1> DEFINE Uses(rows, r) == {n \in DOMAIN rows : rows[n].runbook = r}
<1>1. \A r \in Runbook : runbooks[r].usage = Cardinality(Uses(actions, r))
  BY DEF UsageCountsActions
<1>2. SUFFICES ASSUME NEW r \in Runbook
               PROVE  runbooks'[r].usage = Cardinality(Uses(actions', r))
  BY DEF UsageCountsActions
<1>3. IsFiniteSet(Uses(actions, r))
  <2>1. IsFiniteSet(DOMAIN actions)
    BY <1>0, FS_Interval
  <2> QED BY <2>1, FS_Subset
<1>4. CASE Quiet
  BY <1>1, <1>4 DEF Quiet
<1>5. ASSUME NEW c \in Call, Reports(c) PROVE runbooks'[r].usage = Cardinality(Uses(actions', r))
  <2>1. RowsGrow /\ DOMAIN actions' = DOMAIN actions /\ runbooks' = runbooks
    BY <1>5, JudgedRows DEF Reports
  <2>2. Uses(actions', r) = Uses(actions, r)
    BY <2>1 DEF RowsGrow
  <2> QED BY <1>1, <2>1, <2>2
<1>6. ASSUME NEW t \in Turn, Commits(t) PROVE runbooks'[r].usage = Cardinality(Uses(actions', r))
  <2> DEFINE last == Len(actions) + 1
  <2>1. /\ DOMAIN actions' = 1..last
        /\ \A n \in DOMAIN actions : actions'[n] = actions[n]
        /\ actions'[last].runbook = command[t].runbook
    BY <1>6, AppendedRow DEF Commits
  <2>2. DOMAIN actions' = DOMAIN actions \cup {last} /\ last \notin DOMAIN actions
    BY <1>0, <2>1
  <2>3. runbooks' = [q \in Runbook |-> IF q = command[t].runbook
                                         THEN [runbooks[q] EXCEPT !.usage = @ + 1]
                                         ELSE runbooks[q]]
    BY <1>6 DEF Commits, Remediates, RemediateAndRecord, Used
  <2> HIDE DEF last
  <2>4. CASE r = command[t].runbook
    <3>1. Uses(actions', r) = Uses(actions, r) \cup {last} /\ last \notin Uses(actions, r)
      BY <2>1, <2>2, <2>4
    <3>2. Cardinality(Uses(actions', r)) = Cardinality(Uses(actions, r)) + 1
      BY <1>3, <3>1, FS_AddElement
    <3>3. runbooks'[r].usage = runbooks[r].usage + 1
      BY <1>0, <2>3, <2>4
    <3> QED BY <1>1, <3>2, <3>3
  <2>5. CASE r # command[t].runbook
    <3>1. Uses(actions', r) = Uses(actions, r)
      BY <2>1, <2>2, <2>5
    <3>2. runbooks'[r] = runbooks[r]
      BY <2>3, <2>5
    <3> QED BY <1>1, <3>1, <3>2
  <2> QED BY <2>4, <2>5
<1> QED BY <1>4, <1>5, <1>6, WritingSteps

LEMMA NextServices ==
  ASSUME TypeInv, ServiceShowsLastAction, [Next]_vars
  PROVE  ServiceShowsLastAction'
<1>0. /\ DOMAIN actions = 1..Len(actions) /\ Len(actions) \in Nat
      /\ services \in [Service -> [health : {"degraded", "recovering"},
                                   version : Remedy \cup {Null}, deploy : Nat]]
  BY DEF TypeInv, TypeOK, TablesOK
<1> DEFINE Mine(rows, s) == {n \in DOMAIN rows : rows[n].service = s}
           Shows(rows, row, s) ==
             IF row.deploy = 0
               THEN Mine(rows, s) = {} /\ row.version = Null
               ELSE /\ row.deploy \in Mine(rows, s)
                    /\ \A n \in Mine(rows, s) : n <= row.deploy
                    /\ row.version = rows[row.deploy].remedy
<1>1. \A s \in Service : Shows(actions, services[s], s)
  BY DEF ServiceShowsLastAction
<1>2. SUFFICES ASSUME NEW s \in Service PROVE Shows(actions', services'[s], s)
  BY DEF ServiceShowsLastAction
<1>3. CASE Quiet
  BY <1>1, <1>3 DEF Quiet
<1>4. ASSUME NEW c \in Call, Reports(c) PROVE Shows(actions', services'[s], s)
  <2>1. RowsGrow /\ DOMAIN actions' = DOMAIN actions /\ services' = services
    BY <1>4, JudgedRows DEF Reports
  <2>2. Mine(actions', s) = Mine(actions, s)
    BY <2>1 DEF RowsGrow
  <2> QED BY <1>1, <2>1, <2>2 DEF RowsGrow
<1>5. ASSUME NEW t \in Turn, Commits(t) PROVE Shows(actions', services'[s], s)
  <2> DEFINE last == Len(actions) + 1
  <2>1. /\ DOMAIN actions' = 1..last
        /\ \A n \in DOMAIN actions : actions'[n] = actions[n]
        /\ actions'[last].service = command[t].service
        /\ actions'[last].remedy = command[t].remedy
    BY <1>5, AppendedRow DEF Commits
  <2>2. services' = [services EXCEPT ![command[t].service] =
                       [health |-> "recovering", version |-> command[t].remedy, deploy |-> last]]
    BY <1>5 DEF Commits, Remediates, RemediateAndRecord, Deployed
  <2>3. /\ DOMAIN actions' = DOMAIN actions \cup {last} /\ last # 0
        /\ \A n \in DOMAIN actions' : n <= last
    BY <1>0, <2>1
  <2> HIDE DEF last
  <2>4. CASE s = command[t].service
    <3>1. services'[s].version = command[t].remedy /\ services'[s].deploy = last
      BY <1>0, <2>2, <2>4
    <3>2. last \in Mine(actions', s) /\ \A n \in Mine(actions', s) : n <= last
      BY <2>1, <2>3, <2>4
    <3> QED BY <2>1, <2>3, <3>1, <3>2
  <2>5. CASE s # command[t].service
    <3>1. services'[s] = services[s]
      BY <1>0, <2>2, <2>5
    <3>2. Mine(actions', s) = Mine(actions, s)
      BY <2>1, <2>3, <2>5
    <3>3. \A n \in Mine(actions, s) : actions'[n] = actions[n]
      BY <2>1
    <3> QED BY <1>1, <3>1, <3>2, <3>3
  <2> QED BY <2>4, <2>5
<1> QED BY <1>3, <1>4, <1>5, WritingSteps

\* usage_count, current_version and current_deploy_id are those of the rows
\* of remediation_actions: no attempt, replay or lost acknowledgement counts
\* twice or leaves a service with the version of another action.
THEOREM TablesAgreeWithActions == Spec => []TablesAgree
<1>1. Init => UsageCountsActions
  <2>1. Init => \A r \in Runbook : /\ runbooks[r].usage = 0
                                    /\ {n \in DOMAIN actions : actions[n].runbook = r} = {}
    BY DEF Init
  <2> QED BY <2>1, FS_EmptySet DEF UsageCountsActions
<1>2. Init => ServiceShowsLastAction
  BY DEF Init, ServiceShowsLastAction
<1>3. TypeInv /\ UsageCountsActions /\ [Next]_vars => UsageCountsActions'
  BY NextUsage
<1>4. TypeInv /\ ServiceShowsLastAction /\ [Next]_vars => ServiceShowsLastAction'
  BY NextServices
<1>5. UsageCountsActions /\ ServiceShowsLastAction => TablesAgree
  BY DEF TablesAgree
<1> QED BY <1>1, <1>2, <1>3, <1>4, <1>5, InitTypeInv, NextTypeInv, PTL DEF Spec

----------------------------------------------------------------------------
(* What outcome calls tell and announce.                                   *)

\* The steps of the outcome calls, as the other parts of the system see them:
\* nobody's call moves, one call commits, one announces, or one does neither.
Resting == UNCHANGED <<call, announced>>

Commences(c) ==
  /\ call[c].pc = "executing" /\ Records(c) /\ UNCHANGED announced
  /\ call' = [call EXCEPT ![c] = [@ EXCEPT !.pc = "recorded"]]

Answers(c) ==
  /\ call[c].pc \in {"idle", "executing"} /\ call'[c].pc # "idle" /\ call'[c].pc # "recorded"
  /\ UNCHANGED announced
  /\ \A d \in Call : d # c => call'[d] = call[d]
  /\ call'[c].answer \in {"recorded", "replayed"} =>
       \E k \in DOMAIN outcomes : /\ outcomes[k].action = call'[c].action
                                  /\ outcomes[k].outcome = call'[c].outcome

\* Outcome episodes are only appended.
LEMMA OutcomesGrow ==
  ASSUME TypeInv, [Next]_vars
  PROVE  DOMAIN outcomes \subseteq DOMAIN outcomes'
         /\ \A k \in DOMAIN outcomes : outcomes'[k] = outcomes[k]
<1>1. ASSUME NEW t \in Turn, Commits(t) PROVE outcomes' = outcomes
  BY <1>1, RemediatedRows DEF Commits
<1>2. ASSUME NEW c \in Call, Reports(c)
      PROVE  DOMAIN outcomes \subseteq DOMAIN outcomes'
             /\ \A k \in DOMAIN outcomes : outcomes'[k] = outcomes[k]
  <2>1. /\ Len(outcomes) \in Nat /\ DOMAIN outcomes = 1..Len(outcomes)
        /\ DOMAIN outcomes' = 1..(Len(outcomes) + 1)
        /\ \A k \in DOMAIN outcomes : outcomes'[k] = outcomes[k]
    BY <1>2, RecordedRows DEF Reports
  <2> QED BY <2>1
<1>3. Quiet => outcomes' = outcomes
  BY DEF Quiet
<1> QED BY <1>1, <1>2, <1>3, WritingSteps

LEMMA CallSteps ==
  ASSUME TypeInv, CallFacts, [Next]_vars
  PROVE  \/ Resting \/ Crash
         \/ \E c \in Call : Commences(c) \/ Announce(c) \/ Answers(c)
<1>0. call \in [Call -> OutcomeCall]
  BY DEF TypeInv, TypeOK
<1>1. ASSUME NEW t \in Turn, Arrive(t) \/ Deliberate(t) PROVE Resting
  BY <1>1 DEF Arrive, Deliberate, RefuseSignal, Receive, Recall, Decline, PauseForApproval,
              Authorize, Block, ExternalFailure, StartTransaction, FailWith, Resting
<1>2. ASSUME NEW t \in Turn, Execute(t) PROVE Resting
  BY <1>2 DEF Execute, Commit, CommitUnacknowledged, Reject, Collide, RetrySerialization,
              GiveUp, DatabaseError, Replay, ReplayFails, Finish, RollBack, FailWith, Resting
<1>3. ASSUME NEW r \in Runbook, Activate(r) \/ Deprecate(r) PROVE Resting
  BY <1>3 DEF Activate, Deprecate, Resting
<1>4. UNCHANGED vars => Resting
  BY DEF vars, Resting
<1>5. ASSUME NEW c \in Call, Post(c) \/ CallStep(c) PROVE Commences(c) \/ Announce(c) \/ Answers(c)
  <2>a. call[c] \in OutcomeCall
    BY <1>0
  <2>b. call[c].pc = "executing" => call[c].answer \notin {"recorded", "replayed"} \/ Backed(c)
    BY DEF CallFacts, Assured
  <2>1. CASE OutcomeCommit(c)
    BY <2>1 DEF OutcomeCommit, Records, Commences, TypeInv, TypeOK, CallInv
  <2>2. CASE Post(c)
    <3>1. PICK a \in DOMAIN actions, i \in Incident, s \in Service, o \in OutcomeKind, at \in Time :
            call' = [call EXCEPT ![c] =
                      [pc |-> "executing", action |-> a, incident |-> i, service |-> s,
                       outcome |-> o, at |-> at, attempt |-> 0, answer |-> "none"]]
      BY <2>2 DEF Post
    <3>2. call'[c].pc = "executing" /\ call'[c].answer = "none"
      BY <1>0, <3>1
    <3>3. \A d \in Call : d # c => call'[d] = call[d]
      BY <1>0, <3>1
    <3> QED BY <2>2, <3>2, <3>3 DEF Post, Answers
  <2>3. CASE OutcomeUnacknowledged(c) \/ OutcomeReject(c) \/ OutcomeError(c)
    <3>1. PICK a \in {"ProvenanceError", "error"} :
            call' = [call EXCEPT ![c] = [@ EXCEPT !.pc = "answered", !.answer = a]]
      BY <2>3 DEF OutcomeUnacknowledged, OutcomeReject, OutcomeError, Answer
    <3>2. call'[c].pc = "answered" /\ call'[c].answer = a
      BY <1>0, <2>a, <3>1 DEF OutcomeCall
    <3>3. \A d \in Call : d # c => call'[d] = call[d]
      BY <1>0, <3>1
    <3> QED BY <2>3, <3>2, <3>3 DEF OutcomeUnacknowledged, OutcomeReject, OutcomeError, Answers
  <2>4. CASE OutcomeReplay(c)
    <3>1. PICK k \in Existing(call[c].action) : Answer(c, ReplayAnswer(outcomes[k], call[c]))
      BY <2>4 DEF OutcomeReplay
    <3> DEFINE a == ReplayAnswer(outcomes[k], call[c])
    <3>2. k \in DOMAIN outcomes /\ outcomes[k].action = call[c].action
      BY DEF Existing
    <3>3. a \in {"recorded", "replayed"} => outcomes[k].outcome = call[c].outcome
      BY DEF ReplayAnswer
    <3> HIDE DEF a
    <3>4. call' = [call EXCEPT ![c] = [@ EXCEPT !.pc = "answered", !.answer = a]]
      BY <3>1 DEF Answer, a
    <3>5. /\ call'[c].pc = "answered" /\ call'[c].answer = a
          /\ call'[c].action = call[c].action /\ call'[c].outcome = call[c].outcome
      BY <1>0, <2>a, <3>4 DEF OutcomeCall
    <3>6. \A d \in Call : d # c => call'[d] = call[d]
      BY <1>0, <3>4
    <3> QED BY <2>4, <3>2, <3>3, <3>5, <3>6 DEF OutcomeReplay, Answers
  <2>5. CASE OutcomeRetry(c)
    <3>1. /\ call'[c].pc = "executing" /\ call'[c].answer = call[c].answer
          /\ call'[c].action = call[c].action /\ call'[c].outcome = call[c].outcome
      BY <1>0, <2>a, <2>5 DEF OutcomeRetry, OutcomeCall
    <3>2. \A d \in Call : d # c => call'[d] = call[d]
      BY <1>0, <2>5 DEF OutcomeRetry
    <3> QED BY <2>b, <2>5, <3>1, <3>2 DEF OutcomeRetry, Answers, Backed
  <2> QED BY <1>5, <2>1, <2>2, <2>3, <2>4, <2>5 DEF CallStep
<1> QED BY <1>1, <1>2, <1>3, <1>4, <1>5 DEF Next, TurnStep

\* What an episode backs stays backed.
LEMMA BackedStays ==
  ASSUME TypeInv, [Next]_vars, NEW c \in Call, Backed(c),
         call'[c].action = call[c].action, call'[c].outcome = call[c].outcome
  PROVE  Backed(c)'
  BY OutcomesGrow DEF Backed

LEMMA NextCallFacts ==
  ASSUME TypeInv, CallFacts, [Next]_vars
  PROVE  CallFacts'
<1>0. call \in [Call -> OutcomeCall]
  BY DEF TypeInv, TypeOK
<1>1. SUFFICES ASSUME NEW d \in Call, Assured(d)' PROVE call'[d].pc # "idle" /\ Backed(d)'
  BY DEF CallFacts
<1>2. ASSUME call'[d] = call[d] PROVE call'[d].pc # "idle" /\ Backed(d)'
  BY <1>1, <1>2, BackedStays DEF CallFacts, Assured
<1>3. CASE Resting
  BY <1>2, <1>3 DEF Resting
<1>4. CASE Crash
  <2>1. CASE call[d].pc \in {"executing", "recorded"}
    <3>1. call'[d] = [call[d] EXCEPT !.pc = "crashed"]
      BY <1>4, <2>1 DEF Crash
    <3>2. /\ call'[d].pc = "crashed" /\ call'[d].answer = call[d].answer
          /\ call'[d].action = call[d].action /\ call'[d].outcome = call[d].outcome
      BY <1>0, <3>1 DEF OutcomeCall
    <3> QED BY <1>1, <3>2, BackedStays DEF CallFacts, Assured
  <2>2. CASE call[d].pc \notin {"executing", "recorded"}
    BY <1>2, <1>4, <2>2 DEF Crash
  <2> QED BY <2>1, <2>2
<1>5. ASSUME NEW c \in Call, Commences(c) PROVE call'[d].pc # "idle" /\ Backed(d)'
  <2>1. CASE d # c
    BY <1>0, <1>2, <1>5, <2>1 DEF Commences
  <2>2. CASE d = c
    <3>1. /\ call'[c].pc = "recorded"
          /\ call'[c].action = call[c].action /\ call'[c].outcome = call[c].outcome
      BY <1>0, <1>5 DEF Commences, OutcomeCall
    <3>2. /\ Len(outcomes) + 1 \in DOMAIN outcomes'
          /\ outcomes'[Len(outcomes) + 1].action = call[c].action
          /\ outcomes'[Len(outcomes) + 1].outcome = call[c].outcome
      BY <1>5, RecordedRows DEF Commences
    <3> QED BY <2>2, <3>1, <3>2 DEF Backed
  <2> QED BY <2>1, <2>2
<1>6. ASSUME NEW c \in Call, Announce(c) PROVE call'[d].pc # "idle" /\ Backed(d)'
  <2>1. CASE d # c
    BY <1>0, <1>2, <1>6, <2>1 DEF Announce, Answer
  <2>2. CASE d = c
    <3>1. /\ call'[c].pc = "answered"
          /\ call'[c].action = call[c].action /\ call'[c].outcome = call[c].outcome
      BY <1>0, <1>6 DEF Announce, Answer, OutcomeCall
    <3> QED BY <1>6, <2>2, <3>1, BackedStays DEF Announce, CallFacts, Assured
  <2> QED BY <2>1, <2>2
<1>7. ASSUME NEW c \in Call, Answers(c) PROVE call'[d].pc # "idle" /\ Backed(d)'
  <2>1. CASE d # c
    BY <1>2, <1>7, <2>1 DEF Answers
  <2>2. CASE d = c
    BY <1>1, <1>7, <2>2, OutcomesGrow DEF Answers, Assured, Backed
  <2> QED BY <2>1, <2>2
<1> QED BY <1>3, <1>4, <1>5, <1>6, <1>7, CallSteps

LEMMA InitCallFacts == Init => CallFacts
  BY DEF Init, CallFacts, Assured, NoCall

\* A client that was told "recorded" or "replayed" finds its verdict in the
\* action row ever after, whatever is reported on the action later.
THEOREM AnswersAreKept == Spec => []AnswersStayTrue
<1>1. TypeInv /\ CallFacts /\ [Next]_vars => CallFacts'
  BY NextCallFacts
<1>2. TypeInv /\ OneOutcomePerAction /\ [Next]_vars => OneOutcomePerAction'
  BY NextOneOutcome
<1>3. Init => OneOutcomePerAction
  BY DEF Init, OneOutcomePerAction
<1>4. CallFacts /\ OneOutcomePerAction => AnswersStayTrue
  BY DEF CallFacts, Assured, Backed, OneOutcomePerAction, AnswersStayTrue
<1> QED BY <1>1, <1>2, <1>3, <1>4, InitCallFacts, InitTypeInv, NextTypeInv, PTL DEF Spec

\* Two calls cannot both commit an outcome of one action, so none is
\* announced twice.
LEMMA NextAnnounced ==
  ASSUME TypeInv, CallFacts, Unannounced, AnnouncedOnce, [Next]_vars
  PROVE  Unannounced' /\ AnnouncedOnce'
<1>0. /\ call \in [Call -> OutcomeCall] /\ announced \in Seq(Nat \ {0})
      /\ Len(announced) \in Nat /\ DOMAIN announced = 1..Len(announced)
  BY DEF TypeInv, TypeOK
<1>1. \A a : Existing(a) # {} => \E k \in DOMAIN outcomes' : outcomes'[k].action = a
  BY OutcomesGrow DEF Existing
<1>2. ASSUME UNCHANGED announced PROVE AnnouncedOnce'
  BY <1>1, <1>2 DEF AnnouncedOnce, Existing
<1>3. ASSUME UNCHANGED announced,
             \A c \in Call : call'[c].pc = "recorded" => call'[c] = call[c]
      PROVE  Unannounced'
  BY <1>3 DEF Unannounced
<1>4. CASE Resting
  BY <1>2, <1>3, <1>4 DEF Resting
<1>5. CASE Crash
  <2>1. \A c \in Call : call'[c].pc = "recorded" => call'[c] = call[c]
    <3>1. SUFFICES ASSUME NEW c \in Call, call[c].pc \in {"executing", "recorded"}
                   PROVE  call'[c].pc = "crashed"
      BY <1>5 DEF Crash
    <3> QED BY <1>0, <1>5, <3>1 DEF Crash, OutcomeCall
  <2> QED BY <1>2, <1>3, <1>5, <2>1 DEF Crash
<1>6. ASSUME NEW c \in Call, Answers(c) PROVE Unannounced' /\ AnnouncedOnce'
  BY <1>2, <1>3, <1>6 DEF Answers
<1>7. ASSUME NEW c \in Call, Commences(c) PROVE Unannounced' /\ AnnouncedOnce'
  <2>1. Existing(call[c].action) = {}
    BY <1>7 DEF Commences, Records, Admits
  <2>2. \A j \in DOMAIN announced : announced[j] # call[c].action
    BY <2>1 DEF AnnouncedOnce
  <2>3. \A d \in Call : call[d].pc = "recorded" => call[d].action # call[c].action
    BY <2>1 DEF CallFacts, Assured, Backed, Existing
  <2>4. /\ call'[c].action = call[c].action
        /\ \A d \in Call : d # c => call'[d] = call[d]
    BY <1>0, <1>7 DEF Commences, OutcomeCall
  <2>5. AnnouncedOnce' /\ announced' = announced
    BY <1>2, <1>7 DEF Commences
  <2>6. ASSUME NEW d \in Call, call'[d].pc = "recorded"
        PROVE  /\ \A j \in DOMAIN announced : announced[j] # call'[d].action
               /\ \A e \in Call : call'[e].pc = "recorded" /\ call'[e].action = call'[d].action => e = d
    <3>1. CASE d = c
      BY <2>2, <2>3, <2>4, <3>1
    <3>2. CASE d # c
      BY <2>3, <2>4, <2>6, <3>2 DEF Unannounced
    <3> QED BY <3>1, <3>2
  <2> QED BY <2>5, <2>6 DEF Unannounced
<1>8. ASSUME NEW c \in Call, Announce(c) PROVE Unannounced' /\ AnnouncedOnce'
  <2> DEFINE a == call[c].action
  <2>1. /\ call[c].pc = "recorded" /\ announced' = Append(announced, a)
        /\ call' = [call EXCEPT ![c] = [@ EXCEPT !.pc = "answered", !.answer = "recorded"]]
    BY <1>8 DEF Announce, Answer
  <2>2. call'[c].pc = "answered" /\ \A d \in Call : d # c => call'[d] = call[d]
    BY <1>0, <2>1 DEF OutcomeCall
  <2>3. /\ \A j \in DOMAIN announced : announced[j] # a
        /\ \A d \in Call : call[d].pc = "recorded" /\ call[d].action = a => d = c
        /\ \E k \in DOMAIN outcomes : outcomes[k].action = a
    BY <2>1 DEF Unannounced, CallFacts, Assured, Backed
  <2>4. \E k \in DOMAIN outcomes' : outcomes'[k].action = a
    BY <2>3, OutcomesGrow
  <2> HIDE DEF a
  <2>5. /\ DOMAIN announced' = 1..(Len(announced) + 1)
        /\ \A j \in DOMAIN announced : announced'[j] = announced[j]
        /\ announced'[Len(announced) + 1] = a
    BY <1>0, <2>1
  <2>6. DOMAIN announced' = DOMAIN announced \cup {Len(announced) + 1}
    BY <1>0, <2>5
  <2>7. \A j, k \in DOMAIN announced' : announced'[j] = announced'[k] => j = k
    BY <2>3, <2>5, <2>6 DEF AnnouncedOnce
  <2>8. \A j \in DOMAIN announced' : \E k \in DOMAIN outcomes' : outcomes'[k].action = announced'[j]
    BY <1>1, <2>4, <2>5, <2>6 DEF AnnouncedOnce
  <2>9. AnnouncedOnce'
    BY <2>7, <2>8 DEF AnnouncedOnce, Existing
  <2>10. Unannounced'
    <3>1. ASSUME NEW d \in Call, call'[d].pc = "recorded"
          PROVE  d # c /\ call'[d] = call[d] /\ call[d].pc = "recorded" /\ call[d].action # a
      BY <2>2, <2>3, <3>1
    <3>2. \A d \in Call : call'[d].pc = "recorded" =>
            \A j \in DOMAIN announced' : announced'[j] # call'[d].action
      <4>1. \A d \in Call : call'[d].pc = "recorded" =>
              \A j \in DOMAIN announced : announced'[j] # call'[d].action
        BY <2>5, <3>1 DEF Unannounced
      <4>2. \A d \in Call : call'[d].pc = "recorded" =>
              announced'[Len(announced) + 1] # call'[d].action
        BY <2>5, <3>1
      <4> QED BY <2>6, <4>1, <4>2, Zenon
    <3>3. \A d, e \in Call :
            (call'[d].pc = "recorded" /\ call'[e].pc = "recorded" /\ call'[e].action = call'[d].action)
              => e = d
      BY <3>1 DEF Unannounced
    <3> QED BY <3>2, <3>3 DEF Unannounced
  <2> QED BY <2>9, <2>10
<1> QED BY <1>4, <1>5, <1>6, <1>7, <1>8, CallSteps

\* OUTCOME_RECORDED is published at most once per action and only for an
\* outcome in the database, for any number of concurrent and repeated reports
\* and crashes between the commit and the announcement.
THEOREM OutcomesAreAnnouncedOnce == Spec => []AnnouncedOnce
<1>1. Init => Unannounced /\ AnnouncedOnce
  BY DEF Init, Unannounced, AnnouncedOnce, NoCall
<1>2. TypeInv /\ CallFacts /\ Unannounced /\ AnnouncedOnce /\ [Next]_vars
        => Unannounced' /\ AnnouncedOnce'
  BY NextAnnounced
<1>3. TypeInv /\ CallFacts /\ [Next]_vars => CallFacts'
  BY NextCallFacts
<1> QED BY <1>1, <1>2, <1>3, InitCallFacts, InitTypeInv, NextTypeInv, PTL DEF Spec
============================================================================
