--------------------------- MODULE Consolidation ---------------------------
(***************************************************************************)
(* The sleep-time pipeline: changefeed, receiver, FIFO queue, consolidator *)
(* with its object-store buffer, runbook repository.                       *)
(*                                                                         *)
(* Delivery is at least once at every hop.  The changefeed repeats what    *)
(* was not acknowledged, and may repeat more; the queue forgets what it    *)
(* deduplicated; a batch comes back when its invocation fails or dies, and *)
(* moves to the dead-letter queue when it came back too often.  One        *)
(* consolidator runs at a time (reserved concurrency 1), for a batch or    *)
(* for the nightly schedule, and may die between any two writes.           *)
(***************************************************************************)
EXTENDS Naturals, Sequences, FiniteSets

CONSTANTS
  Incident, Name, Steps, Reinforcements, MaxUsage,  \* of RunbookRepository
  Histories,      \* contents of episodic_events in order of commit
  MaxRows,        \* their length (bounds the model)
  MaxBatch,       \* batch_size of the event source
  MaxReceive,     \* max_receive_count of the queue
  MaxDuplicates,  \* messages the queue accepts twice (bounds the model)
  MaxFaults       \* invocations that fail or die (bounds the model)

Outcome == {"success", "failed", "no_effect"}

\* "other" stands for every event_type but outcome.  An outcome has one of the
\* three values, the only ones the outcome store writes.
Row == [incident : Incident, kind : {"other"} \cup Outcome, occurred : Nat]

ASSUME ConsolidationAssumption ==
  /\ MaxBatch \in Nat \ {0} /\ MaxReceive \in Nat \ {0}
  /\ MaxDuplicates \in Nat /\ MaxFaults \in Nat
  /\ MaxRows \in Nat /\ \A h \in Histories : h \in Seq(Row) /\ Len(h) <= MaxRows
  /\ Reinforcements \in Nat \ {0} /\ MaxUsage \in Nat

VARIABLES
  rows,        \* episodic_events: a row's position is its event_id and updated_at
  clock,       \* how many of them are committed
  acked,       \* rows the receiver answered with 202
  resolved,    \* the changefeed's newest resolved timestamp
  sent,        \* messages the queue has accepted (observer, and its deduplication)
  duplicates,  \* how many it accepted again
  queue,       \* the FIFO queue, oldest first
  dead,        \* messages in the dead-letter queue
  pending,     \* objects under pending/: buffered rows
  archive,     \* objects under archive/, as the set of rows that is their key
  watermark,   \* state/watermark.json
  job,         \* the consolidator's invocation
  faults,
  runbooks, provenance

queueVars == <<sent, duplicates, queue, dead>>
feedVars == <<rows, clock, acked, resolved>>
storeVars == <<pending, archive, watermark>>
repoVars == <<runbooks, provenance>>
vars == <<feedVars, queueVars, storeVars, job, faults, repoVars>>

Repository == INSTANCE RunbookRepository

Message == [kind : {"row", "window"}, ts : Nat]

\* pc: idle; record, at the next record of the batch; groups, inside process
\* with incidents left to apply; archive, between apply and archive; mark,
\* between the deletion of buffers and the write of the watermark.
Idle ==
  [pc |-> "idle", size |-> 0, at |-> 0, window |-> 0, events |-> {},
   todo |-> {}, current |-> {}, done |-> {}]

\* Every variable in its set; a job is inside the queue's prefix.
TypeOK ==
  /\ rows \in Seq(Row) /\ clock \in 0..Len(rows)
  /\ acked \subseteq 1..clock /\ resolved \in 0..clock
  /\ sent \subseteq Message /\ duplicates \in 0..MaxDuplicates
  /\ queue \in Seq([msg : Message, receives : 0..MaxReceive])
  /\ dead \subseteq Message
  /\ pending \subseteq 1..clock
  /\ archive \subseteq SUBSET (1..clock)
  /\ watermark \in 0..clock
  /\ job \in [pc : {"idle", "record", "groups", "archive", "mark"},
              size : 0..MaxBatch, at : 0..(MaxBatch + 1), window : 0..clock,
              events : SUBSET (1..clock), todo : SUBSET Incident,
              current : SUBSET Incident, done : SUBSET (1..clock)]
  /\ job.size <= Len(queue) /\ job.at <= job.size + 1
  /\ faults \in 0..MaxFaults
  /\ Repository!TypeOK

Init ==
  /\ rows \in Histories /\ clock = 0
  /\ acked = {} /\ resolved = 0
  /\ sent = {} /\ duplicates = 0 /\ queue = <<>> /\ dead = {}
  /\ pending = {} /\ archive = {} /\ watermark = 0
  /\ job = Idle
  /\ faults = 0
  /\ Repository!Init

----------------------------------------------------------------------------
(* The changefeed and the receiver.                                        *)

RowMessage(k) == [kind |-> "row", ts |-> k]
WindowMessage(w) == [kind |-> "window", ts |-> w]

\* The responder, or anyone else, commits the next row.
CommitRow ==
  /\ clock < Len(rows)
  /\ clock' = clock + 1
  /\ UNCHANGED <<rows, acked, resolved, queueVars, storeVars, job, faults, repoVars>>

\* send_message_batch, for one message: the queue drops a deduplication id it
\* remembers, and it remembers for five minutes only.
Enqueue(m) ==
  LET accept == queue' = Append(queue, [msg |-> m, receives |-> 0]) IN
  /\ \/ m \notin sent /\ accept /\ UNCHANGED duplicates
     \/ m \in sent /\ UNCHANGED <<queue, duplicates>>
     \/ m \in sent /\ duplicates < MaxDuplicates /\ accept /\ duplicates' = duplicates + 1
  /\ sent' = sent \cup {m}
  /\ UNCHANGED dead

\* receive_changefeed for a row.  The answer may be lost, or be an error because
\* a later message of the request was rejected: the changefeed then repeats it.
\* It may also repeat an acknowledged row.  A refused request (401, 400) or a
\* rejected message changes nothing.
ReceiveRow(k) ==
  /\ k <= clock
  /\ Enqueue(RowMessage(k))
  /\ acked' \in {acked, acked \cup {k}}
  /\ UNCHANGED <<rows, clock, resolved, storeVars, job, faults, repoVars>>

\* receive_changefeed for a resolved timestamp, which the changefeed emits when
\* every row up to it is acknowledged, and may repeat.
ReceiveResolved(w) ==
  /\ 1..w \subseteq acked
  /\ w > resolved \/ WindowMessage(w) \in sent
  /\ resolved' = IF w > resolved THEN w ELSE resolved
  /\ Enqueue(WindowMessage(w))
  /\ UNCHANGED <<rows, clock, acked, storeVars, job, faults, repoVars>>

----------------------------------------------------------------------------
(* The consolidator.                                                       *)

\* The queue hands out its n oldest messages.
Receive(n) ==
  /\ job.pc = "idle"
  /\ n <= Len(queue)
  /\ \A j \in 1..n : queue[j].receives < MaxReceive
  /\ queue' = [j \in DOMAIN queue |->
                 IF j <= n THEN [queue[j] EXCEPT !.receives = @ + 1] ELSE queue[j]]
  /\ job' = [Idle EXCEPT !.pc = "record", !.size = n, !.at = 1]
  /\ UNCHANGED <<feedVars, sent, duplicates, dead, storeVars, faults, repoVars>>

\* The redrive policy.
DeadLetter ==
  /\ job.pc = "idle"
  /\ queue # <<>> /\ Head(queue).receives = MaxReceive
  /\ queue' = Tail(queue)
  /\ dead' = dead \cup {Head(queue).msg}
  /\ UNCHANGED <<feedVars, sent, duplicates, storeVars, job, faults, repoVars>>

\* The record being processed.
Current == queue[job.at].msg

\* process(ChangeEvent): store.put; a row that was processed before is buffered
\* again.
PutRow ==
  /\ job.pc = "record" /\ job.at <= job.size /\ Current.kind = "row"
  /\ pending' = pending \cup {Current.ts}
  /\ job' = [job EXCEPT !.at = @ + 1]
  /\ UNCHANGED <<feedVars, queueVars, archive, watermark, faults, repoVars>>

\* Of a set of rows: those of an incident, and its outcomes.
RowsOf(i, events) == {k \in events : rows[k].incident = i}
OutcomesOf(i, events) == {k \in RowsOf(i, events) : rows[k].kind \in Outcome}

\* group_completed_incidents.
Completed(events) == {i \in Incident : OutcomesOf(i, events) # {}}

\* Order of (occurred_at, event_id).
Before(j, k) ==
  \/ rows[j].occurred < rows[k].occurred
  \/ rows[j].occurred = rows[k].occurred /\ j < k

\* Mutant: the rows are taken in the order in which they were committed.
OutcomeByCommit(i, events) ==
  rows[CHOOSE k \in OutcomesOf(i, events) : \A j \in OutcomesOf(i, events) : j <= k].kind

\* _outcome_for: the last outcome decides.
OutcomeFor(i, events) ==
  rows[CHOOSE k \in OutcomesOf(i, events) :
         \A j \in OutcomesOf(i, events) : j = k \/ Before(j, k)].kind

\* Mutant: rows at the watermark itself are left out.
ReadBefore(w, j) ==
  LET events == {k \in pending : k < w} IN
  job' = [j EXCEPT !.pc = "groups", !.window = w, !.events = events,
                   !.todo = Completed(events)]

\* process(ClosedWindow) up to its loop: read_through and grouping.
ReadThrough(w, j) ==
  LET events == {k \in pending : k <= w} IN
  job' = [j EXCEPT !.pc = "groups", !.window = w, !.events = events,
                   !.todo = Completed(events)]

CloseWindow ==
  /\ job.pc = "record" /\ job.at <= job.size /\ Current.kind = "window"
  /\ ReadThrough(Current.ts, job)
  /\ UNCHANGED <<feedVars, queueVars, storeVars, faults, repoVars>>

\* An invocation without records: the watermark is the current time.
Nightly ==
  /\ job.pc = "idle"
  /\ ReadThrough(clock, Idle)
  /\ UNCHANGED <<feedVars, queueVars, storeVars, faults, repoVars>>

\* One round of the loop: whatever the model distils from the group, applied
\* in one transaction.
ApplyGroup(i) ==
  /\ job.pc = "groups" /\ i \in job.todo
  /\ \E n \in Name, s \in Steps :
       LET c == [name |-> n, incident |-> i, steps |-> s,
                 outcome |-> OutcomeFor(i, job.events)] IN
       Repository!Apply(c) \/ Repository!Noop(c)
  /\ job' = [job EXCEPT !.pc = "archive", !.current = {i}]
  /\ UNCHANGED <<feedVars, queueVars, storeVars, faults>>

\* Then store.archive under the group's idempotency key, overwriting.
ArchiveGroup(i) ==
  /\ job.pc = "archive" /\ i \in job.current
  /\ archive' = archive \cup {RowsOf(i, job.events)}
  /\ job' = [job EXCEPT !.pc = "groups", !.todo = @ \ {i}, !.current = {},
                        !.done = @ \cup RowsOf(i, job.events)]
  /\ UNCHANGED <<feedVars, queueVars, pending, watermark, faults, repoVars>>

\* Mutant: everything that was read is deleted, complete or not.
DeleteRead ==
  /\ job.pc = "groups" /\ job.todo = {}
  /\ pending' = pending \ job.events
  /\ job' = [job EXCEPT !.pc = "mark"]
  /\ UNCHANGED <<feedVars, queueVars, archive, watermark, faults, repoVars>>

\* mark_processed: delete_objects.  It may fail for single objects, which the
\* answer lists and nobody reads.
DeleteProcessed ==
  /\ job.pc = "groups" /\ job.todo = {}
  /\ \E deleted \in SUBSET job.done : pending' = pending \ deleted
  /\ job' = [job EXCEPT !.pc = "mark"]
  /\ UNCHANGED <<feedVars, queueVars, archive, watermark, faults, repoVars>>

\* mark_processed: the watermark object.  A nightly invocation ends here.
SaveWatermark ==
  /\ job.pc = "mark"
  /\ watermark' = job.window
  /\ job' = IF job.size = 0 THEN Idle
            ELSE [Idle EXCEPT !.pc = "record", !.size = job.size, !.at = job.at + 1]
  /\ UNCHANGED <<feedVars, queueVars, pending, archive, faults, repoVars>>

\* The batch without its first n messages.
Delete(n) == queue' = SubSeq(queue, n + 1, Len(queue))

\* The handler returns: the queue deletes the batch.
Return ==
  /\ job.pc = "record" /\ job.at = job.size + 1
  /\ Delete(job.size)
  /\ job' = Idle
  /\ UNCHANGED <<feedVars, sent, duplicates, dead, storeVars, faults, repoVars>>

\* Mutant: the handler fails one record and goes on with the later ones.
FailRecord ==
  /\ job.pc # "idle" /\ faults < MaxFaults
  /\ job.at <= job.size
  /\ faults' = faults + 1
  /\ IF job.size = 0
       THEN job' = Idle /\ UNCHANGED queue
       ELSE /\ queue' = Append(SubSeq(queue, 1, job.at - 1)
                               \o SubSeq(queue, job.at + 1, Len(queue)), queue[job.at])
            /\ job' = [Idle EXCEPT !.pc = "record", !.size = job.size - 1, !.at = job.at]
  /\ UNCHANGED <<feedVars, sent, duplicates, dead, storeVars, repoVars>>

\* An exception while a record is processed, or a nightly window: this record
\* and every later one fail, the earlier ones are deleted.
Fail ==
  /\ job.pc # "idle" /\ faults < MaxFaults
  /\ job.at <= job.size
  /\ faults' = faults + 1
  /\ IF job.size = 0 THEN UNCHANGED queue ELSE Delete(job.at - 1)
  /\ job' = Idle
  /\ UNCHANGED <<feedVars, sent, duplicates, dead, storeVars, repoVars>>

\* The invocation is killed: nothing is deleted, the whole batch comes back.
Die ==
  /\ job.pc # "idle" /\ faults < MaxFaults
  /\ faults' = faults + 1
  /\ job' = Idle
  /\ UNCHANGED <<feedVars, queueVars, storeVars, repoVars>>

JobStep ==
  \/ PutRow \/ CloseWindow \/ DeleteProcessed \/ SaveWatermark \/ Return
  \/ \E i \in Incident : ApplyGroup(i) \/ ArchiveGroup(i)

ReceiveBatch == \E n \in 1..MaxBatch : Receive(n)

Next ==
  \/ CommitRow
  \/ \E k \in DOMAIN rows : ReceiveRow(k) \/ ReceiveResolved(k)
  \/ ReceiveBatch \/ DeadLetter \/ Nightly
  \/ JobStep \/ Fail \/ Die

Spec == Init /\ [][Next]_vars

\* A running invocation runs on; the queue and the schedule are served again and
\* again, although they compete for the one invocation.
FairSpec ==
  Spec /\ WF_vars(JobStep) /\ SF_vars(ReceiveBatch) /\ SF_vars(DeadLetter)
       /\ SF_vars(Nightly)

----------------------------------------------------------------------------
(* Properties.                                                             *)

\* Rows on their way to the consolidator.
Queued == {queue[j].msg.ts : j \in {l \in DOMAIN queue : queue[l].msg.kind = "row"}}
Dead == {m.ts : m \in {d \in dead : d.kind = "row"}}
Archived == UNION archive

\* An acknowledged row is never lost: it waits in the queue, is buffered, stands
\* in an archived group, or lies in the dead-letter queue, whatever fails between
\* apply, archive and mark_processed.
NoRowIsLost == acked \subseteq Queued \cup pending \cup Archived \cup Dead

\* A window that came through the queue finds every row it closes: handled
\* before, buffered, or dead-lettered.  FIFO order has to survive retries for it.
QueuedWindowIsComplete ==
  job.pc = "groups" /\ job.size > 0 =>
    1..job.window \subseteq pending \cup Archived \cup Dead

\* A runbook counts an incident as a success or as a counterexample by the
\* outcome observed last among those buffered, not by the one reported last.
LastObservationCounts ==
  [][provenance' # provenance =>
       LET new == provenance'[Len(provenance')]
           outcomes == {k \in pending : /\ rows[k].incident = new.incident
                                        /\ rows[k].kind \in Outcome
                                        /\ k <= job.window}
       IN \E k \in outcomes :
            /\ \A j \in outcomes : rows[j].occurred <= rows[k].occurred
            /\ new.role # "counterexample" <=> rows[k].kind = "success"]_vars

\* Redelivered rows, repeated windows, nightly runs and dying invocations do not
\* count an incident twice under one name.
IncidentCountsOnce == Repository!IncidentCountsOnce

\* A window is consolidated whole and once, within the limits of the queue.
WindowsAreSound == TypeOK /\ QueuedWindowIsComplete /\ IncidentCountsOnce

\* An acknowledged outcome is distilled and archived, or dead-lettered, although
\* its own window may have failed.
OutcomeIsConsolidated ==
  \A k \in 1..MaxRows :
    (k \in acked /\ rows[k].kind \in Outcome) ~> k \in Archived \cup Dead
============================================================================
