------------------------ MODULE ConsolidationProofs ------------------------
(***************************************************************************)
(* The safety theorems of Consolidation: for every history of rows, every  *)
(* size of batch and every number of repetitions, failures and deaths, no  *)
(* acknowledged row is lost, a queued window finds the rows it closes, and *)
(* what the pipeline writes is a behaviour of the runbook repository.      *)
(***************************************************************************)
EXTENDS Consolidation, FiniteSetTheorems, TLAPS

\* The theorems about the repository, for the repository of the pipeline.
Proved == INSTANCE RunbookRepositoryProofs

----------------------------------------------------------------------------
(* The inductive invariant.                                                *)

\* Rows the consolidator need not see again, unless they are repeated.
Handled == pending \cup Archived \cup Dead

Entry == [msg : Message, receives : 0..MaxReceive]

FeedFact ==
  /\ rows \in Seq(Row) /\ clock \in 0..Len(rows)
  /\ acked \subseteq 1..clock /\ resolved \in 0..clock
  /\ \A k \in acked : RowMessage(k) \in sent

QueueFact ==
  /\ sent \subseteq Message /\ duplicates \in 0..MaxDuplicates
  /\ queue \in Seq(Entry)
  /\ dead \subseteq Message
  /\ \A j \in 1..Len(queue) : queue[j].msg.ts \in 1..clock

StoreFact ==
  /\ pending \subseteq 1..clock
  /\ archive \subseteq SUBSET (1..clock)
  /\ watermark \in 0..clock
  /\ faults \in 0..MaxFaults

JobFact ==
  /\ job \in [pc : {"idle", "record", "groups", "archive", "mark"},
              size : 0..MaxBatch, at : 0..(MaxBatch + 1), window : 0..clock,
              events : SUBSET (1..clock), todo : SUBSET Incident,
              current : SUBSET Incident, done : SUBSET (1..clock)]
  /\ job.size <= Len(queue) /\ job.at <= job.size + 1
  /\ job.size = 0 <=> job.at = 0
  /\ job.pc = "idle" => job.size = 0
  /\ job.pc = "record" => job.size > 0
  /\ job.pc \in {"groups", "archive", "mark"} => job.at <= job.size

\* What an invocation read stays what is buffered, and it deletes only what it
\* archived.
ReadFact ==
  /\ job.done \subseteq Archived
  /\ job.pc \in {"groups", "archive"} =>
       /\ job.events = {k \in pending : k <= job.window}
       /\ job.todo \subseteq Completed(job.events)
       /\ job.size > 0 => 1..job.window \subseteq Handled

\* A row that was sent is on its way or was handled.
SentFact == \A m \in sent : m.kind = "row" => m.ts \in Queued \cup Handled

\* The records of the batch before the current one are handled; the current
\* one is a window while a window is processed.
PrefixFact ==
  /\ \A j \in 1..Len(queue) :
       j < job.at /\ queue[j].msg.kind = "row" => queue[j].msg.ts \in Handled
  /\ job.pc \in {"groups", "archive", "mark"} /\ job.size > 0 =>
       queue[job.at].msg.kind = "window"

\* FIFO: the rows a window closes are handled or queued ahead of it.
AheadFact ==
  \A p \in 1..Len(queue) : queue[p].msg.kind = "window" =>
    \A k \in 1..queue[p].msg.ts :
      k \in Handled \/ \E q \in 1..Len(queue) : q < p /\ queue[q].msg = RowMessage(k)

PipelineInv ==
  /\ FeedFact /\ QueueFact /\ StoreFact /\ JobFact
  /\ ReadFact /\ SentFact /\ PrefixFact /\ AheadFact
----------------------------------------------------------------------------
(* Which step writes what.                                                 *)

Feed == CommitRow \/ \E k \in DOMAIN rows : ReceiveRow(k) \/ ReceiveResolved(k)

Group == \E i \in Incident : ApplyGroup(i)
Archive == \E i \in Incident : ArchiveGroup(i)

LEMMA StepKinds ==
  ASSUME Next
  PROVE  \/ Feed \/ ReceiveBatch \/ DeadLetter \/ Nightly
         \/ PutRow \/ CloseWindow \/ Group \/ Archive \/ DeleteProcessed \/ SaveWatermark
         \/ Return \/ Fail \/ Die
  BY DEF Next, JobStep, Feed, Group, Archive

LEMMA FeedKept ==
  ASSUME Next
  PROVE  Feed \/ UNCHANGED <<feedVars, sent>>
<1>1. ReceiveBatch \/ DeadLetter \/ Nightly => UNCHANGED <<feedVars, sent>>
  BY DEF ReceiveBatch, Receive, DeadLetter, Nightly, queueVars
<1>2. PutRow \/ CloseWindow \/ Group \/ Archive => UNCHANGED <<feedVars, sent>>
  BY DEF PutRow, CloseWindow, Group, ApplyGroup, Archive, ArchiveGroup, queueVars
<1>3. DeleteProcessed \/ SaveWatermark \/ Return \/ Fail \/ Die => UNCHANGED <<feedVars, sent>>
  BY DEF DeleteProcessed, SaveWatermark, Return, Fail, Die, queueVars
<1> QED BY <1>1, <1>2, <1>3, StepKinds

LEMMA QueueKept ==
  ASSUME Next
  PROVE  \/ \E k \in DOMAIN rows : ReceiveRow(k) \/ ReceiveResolved(k)
         \/ ReceiveBatch \/ DeadLetter \/ Return \/ Fail
         \/ UNCHANGED queueVars
<1>1. CommitRow \/ Nightly \/ PutRow \/ CloseWindow => UNCHANGED queueVars
  BY DEF CommitRow, Nightly, PutRow, CloseWindow
<1>2. Group \/ Archive \/ DeleteProcessed \/ SaveWatermark \/ Die => UNCHANGED queueVars
  BY DEF Group, ApplyGroup, Archive, ArchiveGroup, DeleteProcessed, SaveWatermark, Die
<1> QED BY <1>1, <1>2, StepKinds DEF Feed

LEMMA StoreKept ==
  ASSUME Next
  PROVE  PutRow \/ Archive \/ DeleteProcessed \/ SaveWatermark \/ UNCHANGED storeVars
<1>1. Feed => UNCHANGED storeVars
  BY DEF Feed, CommitRow, ReceiveRow, ReceiveResolved
<1>2. ReceiveBatch \/ DeadLetter \/ Nightly \/ CloseWindow => UNCHANGED storeVars
  BY DEF ReceiveBatch, Receive, DeadLetter, Nightly, CloseWindow
<1>3. Group \/ Return \/ Fail \/ Die => UNCHANGED storeVars
  BY DEF Group, ApplyGroup, Return, Fail, Die
<1> QED BY <1>1, <1>2, <1>3, StepKinds

\* Only an invocation writes its own state.
LEMMA JobKept ==
  ASSUME Next
  PROVE  \/ ReceiveBatch \/ Nightly
         \/ PutRow \/ CloseWindow \/ Group \/ Archive \/ DeleteProcessed \/ SaveWatermark
         \/ job' = Idle /\ (Return \/ Fail \/ Die)
         \/ job' = job /\ (Feed \/ DeadLetter)
<1>1. Feed \/ DeadLetter => job' = job
  BY DEF Feed, CommitRow, ReceiveRow, ReceiveResolved, DeadLetter
<1>2. Return \/ Fail \/ Die => job' = Idle
  BY DEF Return, Fail, Die
<1> QED BY <1>1, <1>2, StepKinds

----------------------------------------------------------------------------
(* Types.                                                                  *)

LEMMA MessageTypes ==
  ASSUME NEW k \in Nat
  PROVE  RowMessage(k) \in Message /\ WindowMessage(k) \in Message
  BY DEF RowMessage, WindowMessage, Message

\* A resolved timestamp is that of a committed row.
LEMMA ResolvedIsCommitted ==
  ASSUME FeedFact, NEW w \in DOMAIN rows, ReceiveResolved(w)
  PROVE  w \in 1..clock
<1>1. w \in 1..Len(rows)
  BY DEF FeedFact
<1>2. w \in acked
  BY <1>1 DEF ReceiveResolved
<1> QED BY <1>2 DEF FeedFact

LEMMA NextFeed ==
  ASSUME FeedFact, Next
  PROVE  FeedFact' /\ clock <= clock' /\ rows' = rows /\ acked \subseteq acked' /\ sent \subseteq sent'
<1>a. rows \in Seq(Row) /\ clock \in 0..Len(rows) /\ Len(rows) \in Nat /\ DOMAIN rows = 1..Len(rows)
  BY DEF FeedFact
<1>1. CASE CommitRow
  BY <1>1, <1>a DEF CommitRow, FeedFact, queueVars, RowMessage
<1>2. ASSUME NEW k \in DOMAIN rows, ReceiveRow(k) PROVE FeedFact' /\ UNCHANGED <<clock, rows>>
                                                        /\ acked \subseteq acked' /\ sent \subseteq sent'
  <2>1. sent' = sent \cup {RowMessage(k)} /\ acked' \in {acked, acked \cup {k}}
        /\ UNCHANGED <<rows, clock, resolved>> /\ k \in 1..clock
    BY <1>2, <1>a DEF ReceiveRow, Enqueue
  <2> QED BY <1>a, <2>1 DEF FeedFact, RowMessage
<1>3. ASSUME NEW w \in DOMAIN rows, ReceiveResolved(w) PROVE FeedFact' /\ UNCHANGED <<clock, rows>>
                                                        /\ acked \subseteq acked' /\ sent \subseteq sent'
  <2>1. sent \subseteq sent' /\ resolved' \in {resolved, w} /\ UNCHANGED <<rows, clock, acked>>
    BY <1>3 DEF ReceiveResolved, Enqueue
  <2>2. w \in 1..clock
    BY <1>3, ResolvedIsCommitted
  <2> QED BY <1>a, <2>1, <2>2 DEF FeedFact, RowMessage
<1>4. CASE UNCHANGED <<feedVars, sent>>
  BY <1>4, <1>a DEF feedVars, FeedFact, RowMessage
<1> QED BY <1>1, <1>2, <1>3, <1>4, <1>a, FeedKept DEF Feed

\* What the queue does with a message: it appends it, or drops a repetition.
LEMMA EnqueueQueue ==
  ASSUME QueueFact, NEW m \in Message, m.ts \in 1..clock, Enqueue(m)
  PROVE  /\ queue' = Append(queue, [msg |-> m, receives |-> 0]) \/ (queue' = queue /\ m \in sent)
         /\ sent' = sent \cup {m} /\ dead' = dead /\ duplicates' \in 0..MaxDuplicates
         /\ queue' \in Seq(Entry)
         /\ \A j \in 1..Len(queue') : queue'[j].msg.ts \in 1..clock
<1>1. [msg |-> m, receives |-> 0] \in Entry
  BY ConsolidationAssumption DEF Entry
<1>2. queue \in Seq(Entry) /\ duplicates \in 0..MaxDuplicates
  BY DEF QueueFact
<1>3. /\ queue' = Append(queue, [msg |-> m, receives |-> 0]) \/ (queue' = queue /\ m \in sent)
      /\ sent' = sent \cup {m} /\ dead' = dead
      /\ duplicates' = duplicates \/ (duplicates < MaxDuplicates /\ duplicates' = duplicates + 1)
  BY DEF Enqueue
<1>4. duplicates' \in 0..MaxDuplicates
  BY <1>2, <1>3, ConsolidationAssumption
<1>5. CASE queue' = queue
  BY <1>2, <1>3, <1>4, <1>5 DEF QueueFact
<1>6. CASE queue' = Append(queue, [msg |-> m, receives |-> 0])
  <2>1. /\ queue' \in Seq(Entry) /\ Len(queue') = Len(queue) + 1
        /\ \A j \in 1..Len(queue) : queue'[j] = queue[j]
        /\ queue'[Len(queue) + 1] = [msg |-> m, receives |-> 0]
    BY <1>1, <1>2, <1>6
  <2>2. \A j \in 1..Len(queue') : queue'[j].msg.ts \in 1..clock
    BY <1>2, <2>1 DEF QueueFact
  <2> QED BY <1>3, <1>4, <2>1, <2>2
<1> QED BY <1>3, <1>5, <1>6

\* Dropping messages at the front.
LEMMA DropQueue ==
  ASSUME QueueFact, NEW n \in 0..Len(queue), queue' = SubSeq(queue, n + 1, Len(queue))
  PROVE  /\ queue' \in Seq(Entry) /\ Len(queue') = Len(queue) - n
         /\ \A j \in 1..Len(queue') : j + n \in 1..Len(queue) /\ queue'[j] = queue[j + n]
<1>1. queue \in Seq(Entry) /\ Len(queue) \in Nat
  BY DEF QueueFact
<1>2. Len(queue') = Len(queue) - n /\ \A j \in 1..Len(queue') : queue'[j] = queue[j + n]
  BY <1>1
<1>3. queue' \in Seq(Entry)
  BY <1>1
<1> QED BY <1>1, <1>2, <1>3

\* Handing out a batch counts a receive and moves nothing.
LEMMA ReceiveQueue ==
  ASSUME QueueFact, NEW n \in 1..MaxBatch, Receive(n)
  PROVE  /\ queue' \in Seq(Entry) /\ Len(queue') = Len(queue)
         /\ \A j \in 1..Len(queue) : queue'[j].msg = queue[j].msg
<1>1. queue \in Seq(Entry) /\ DOMAIN queue = 1..Len(queue) /\ Len(queue) \in Nat
  BY DEF QueueFact
<1>2. n <= Len(queue) /\ \A j \in 1..n : queue[j].receives < MaxReceive
  BY DEF Receive
<1>3. queue' = [j \in 1..Len(queue) |->
                  IF j <= n THEN [queue[j] EXCEPT !.receives = @ + 1] ELSE queue[j]]
  BY <1>1 DEF Receive
<1>4. ASSUME NEW j \in 1..Len(queue)
      PROVE  /\ queue'[j] \in Entry /\ queue'[j].msg = queue[j].msg
  <2>1. queue[j] \in Entry
    BY <1>1
  <2>2. CASE j <= n
    <3>1. queue[j].receives + 1 \in 0..MaxReceive
      BY <1>2, <2>1, <2>2, ConsolidationAssumption DEF Entry
    <3>2. queue'[j] = [queue[j] EXCEPT !.receives = @ + 1]
      BY <1>3, <2>2
    <3> QED BY <2>1, <3>1, <3>2 DEF Entry
  <2>3. CASE ~(j <= n)
    BY <1>3, <2>1, <2>3
  <2> QED BY <2>2, <2>3
<1>5. queue' \in [1..Len(queue) -> Entry]
  BY <1>3, <1>4
<1> QED BY <1>1, <1>4, <1>5
\* A window or a row that arrives carries the position of a committed row.
LEMMA Arrivals ==
  ASSUME FeedFact, NEW k \in DOMAIN rows, ReceiveRow(k) \/ ReceiveResolved(k)
  PROVE  \E m \in Message : /\ Enqueue(m) /\ m.ts = k /\ k \in 1..clock
                            /\ m = RowMessage(k) \/ (m = WindowMessage(k) /\ 1..k \subseteq acked)
<1>1. DOMAIN rows = 1..Len(rows) /\ Len(rows) \in Nat /\ clock \in Nat
  BY DEF FeedFact
<1>2. RowMessage(k) \in Message /\ WindowMessage(k) \in Message
  BY <1>1, MessageTypes
<1>3. CASE ReceiveRow(k)
  <2>1. Enqueue(RowMessage(k)) /\ k \in 1..clock /\ RowMessage(k).ts = k
    BY <1>1, <1>3 DEF ReceiveRow, RowMessage
  <2> QED BY <1>2, <2>1
<1>4. CASE ReceiveResolved(k)
  <2>1. Enqueue(WindowMessage(k)) /\ WindowMessage(k).ts = k /\ 1..k \subseteq acked
    BY <1>4 DEF ReceiveResolved, WindowMessage
  <2> QED BY <1>2, <1>4, <2>1, ResolvedIsCommitted
<1> QED BY <1>3, <1>4

\* How many messages leave the queue at its front: none but at the end of an
\* invocation, or the one that goes to the dead-letter queue.
LEMMA Departures ==
  ASSUME QueueFact, JobFact, DeadLetter \/ Return \/ Fail
  PROVE  \E n \in 0..Len(queue) :
           /\ queue' = SubSeq(queue, n + 1, Len(queue))
           /\ sent' = sent /\ duplicates' = duplicates
           /\ DeadLetter => n = 1 /\ dead' = dead \cup {queue[1].msg}
           /\ ~DeadLetter => dead' = dead /\ (n = 0 \/ n < job.at)
<1>1. queue \in Seq(Entry) /\ Len(queue) \in Nat
  BY DEF QueueFact
<1>2. job.size \in Nat /\ job.at \in Nat /\ job.size <= Len(queue) /\ (job.size # 0 => job.at # 0)
  BY DEF JobFact
<1>3. CASE DeadLetter
  <2>1. queue # <<>> /\ queue' = Tail(queue) /\ dead' = dead \cup {Head(queue).msg}
        /\ UNCHANGED <<sent, duplicates>>
    BY <1>3 DEF DeadLetter
  <2>2. Len(queue) # 0 /\ Head(queue) = queue[1] /\ Tail(queue) = SubSeq(queue, 2, Len(queue))
    BY <1>1, <2>1
  <2> QED BY <1>1, <1>3, <2>1, <2>2
<1>4. CASE Return /\ ~DeadLetter
  <2>1. queue' = SubSeq(queue, job.size + 1, Len(queue)) /\ job.at = job.size + 1
        /\ UNCHANGED <<sent, duplicates, dead>>
    BY <1>4 DEF Return, Delete
  <2>2. job.size \in 0..Len(queue) /\ job.size < job.at
    BY <1>1, <1>2, <2>1
  <2> QED BY <1>4, <2>1, <2>2
<1>5. CASE Fail /\ ~DeadLetter
  <2>1. UNCHANGED <<sent, duplicates, dead>> /\ job.at <= job.size
    BY <1>5 DEF Fail
  <2>2. CASE job.size = 0
    <3>1. queue' = queue /\ queue = SubSeq(queue, 0 + 1, Len(queue))
      BY <1>1, <1>5, <2>2 DEF Fail
    <3> QED BY <1>1, <1>5, <2>1, <3>1
  <2>3. CASE job.size # 0
    <3>1. queue' = SubSeq(queue, job.at - 1 + 1, Len(queue)) /\ job.at - 1 \in 0..Len(queue)
          /\ job.at - 1 < job.at
      BY <1>2, <1>5, <2>1, <2>3 DEF Fail, Delete
    <3> QED BY <1>5, <2>1, <3>1
  <2> QED BY <2>2, <2>3
<1> QED BY <1>3, <1>4, <1>5

LEMMA NextQueue ==
  ASSUME FeedFact, QueueFact, JobFact, Next
  PROVE  QueueFact'
<1>a. 1..clock \subseteq 1..clock'
  BY NextFeed DEF FeedFact
<1>b. queue \in Seq(Entry) /\ sent \subseteq Message /\ dead \subseteq Message /\ Len(queue) \in Nat
  BY DEF QueueFact
<1>c. Entry' = Entry /\ Message' = Message
  BY DEF Entry, Message
<1>1. ASSUME NEW k \in DOMAIN rows, ReceiveRow(k) \/ ReceiveResolved(k) PROVE QueueFact'
  <2>1. PICK m \in Message : Enqueue(m) /\ m.ts \in 1..clock
    BY <1>1, Arrivals
  <2>2. /\ sent' = sent \cup {m} /\ dead' = dead /\ duplicates' \in 0..MaxDuplicates
        /\ queue' \in Seq(Entry)
        /\ \A j \in 1..Len(queue') : queue'[j].msg.ts \in 1..clock
    BY <2>1, EnqueueQueue
  <2> QED BY <1>a, <1>b, <1>c, <2>1, <2>2 DEF QueueFact
<1>2. CASE ReceiveBatch
  <2>1. PICK n \in 1..MaxBatch : Receive(n)
    BY <1>2 DEF ReceiveBatch
  <2>2. UNCHANGED <<sent, duplicates, dead>>
    BY <2>1 DEF Receive
  <2> QED BY <1>a, <1>b, <1>c, <2>1, <2>2, ReceiveQueue DEF QueueFact
<1>3. CASE DeadLetter \/ Return \/ Fail
  <2>1. PICK n \in 0..Len(queue) :
           /\ queue' = SubSeq(queue, n + 1, Len(queue))
           /\ sent' = sent /\ duplicates' = duplicates
           /\ DeadLetter => n = 1 /\ dead' = dead \cup {queue[1].msg}
           /\ ~DeadLetter => dead' = dead
    BY <1>3, Departures
  <2>2. DeadLetter => queue[1].msg \in Message
    <3>1. DeadLetter => 1 \in 1..Len(queue)
      BY <1>b, <2>1
    <3>2. DeadLetter => queue[1] \in Entry
      BY <1>b, <3>1
    <3> QED BY <3>2 DEF Entry
  <2>3. queue' \in Seq(Entry) /\ \A j \in 1..Len(queue') : queue'[j].msg.ts \in 1..clock
    BY <2>1, DropQueue DEF QueueFact
  <2> QED BY <1>a, <1>b, <1>c, <2>1, <2>2, <2>3 DEF QueueFact
<1>4. CASE UNCHANGED queueVars
  BY <1>4, <1>a, <1>c DEF queueVars, QueueFact
<1> QED BY <1>1, <1>2, <1>3, <1>4, QueueKept

\* The record at hand is a message of the queue.
LEMMA CurrentRecord ==
  ASSUME QueueFact, JobFact, job.pc = "record", job.at <= job.size
  PROVE  /\ job.at \in 1..Len(queue) /\ Current = queue[job.at].msg
         /\ Current \in Message /\ Current.ts \in 1..clock
<1>1. job.at \in 1..Len(queue)
  BY DEF JobFact, QueueFact
<1>2. queue[job.at] \in Entry
  BY <1>1 DEF QueueFact
<1> QED BY <1>1, <1>2 DEF Current, QueueFact, Entry

LEMMA NextStore ==
  ASSUME FeedFact, QueueFact, StoreFact, JobFact, Next
  PROVE  StoreFact'
<1>a. 1..clock \subseteq 1..clock' /\ clock \in Nat /\ clock' \in Nat /\ clock <= clock'
  BY NextFeed DEF FeedFact
<1>b. job.events \subseteq 1..clock /\ job.window \in 0..clock
  BY DEF JobFact
<1>1. pending' \subseteq 1..clock
  <2>1. CASE PutRow
    BY <2>1, CurrentRecord DEF PutRow, StoreFact
  <2>2. CASE ~PutRow
    <3>1. Archive \/ SaveWatermark => pending' = pending
      BY DEF Archive, ArchiveGroup, SaveWatermark
    <3>2. DeleteProcessed => pending' \subseteq pending
      BY DEF DeleteProcessed
    <3> QED BY <2>2, <3>1, <3>2, StoreKept DEF StoreFact, storeVars
  <2> QED BY <2>1, <2>2
<1>2. archive' \subseteq SUBSET (1..clock)
  <2>1. CASE Archive
    <3>1. PICK i \in Incident : archive' = archive \cup {RowsOf(i, job.events)}
      BY <2>1 DEF Archive, ArchiveGroup
    <3>2. RowsOf(i, job.events) \subseteq 1..clock
      BY <1>b DEF RowsOf
    <3> QED BY <3>1, <3>2 DEF StoreFact
  <2>2. CASE ~Archive
    <3>1. PutRow \/ DeleteProcessed \/ SaveWatermark => archive' = archive
      BY DEF PutRow, DeleteProcessed, SaveWatermark
    <3> QED BY <2>2, <3>1, StoreKept DEF StoreFact, storeVars
  <2> QED BY <2>1, <2>2
<1>3. watermark' \in 0..clock
  <2>1. SaveWatermark => watermark' = job.window
    BY DEF SaveWatermark
  <2>2. PutRow \/ Archive \/ DeleteProcessed => watermark' = watermark
    BY DEF PutRow, Archive, ArchiveGroup, DeleteProcessed
  <2> QED BY <1>b, <2>1, <2>2, StoreKept DEF StoreFact, storeVars
<1>4. faults' \in 0..MaxFaults
  <2>1. Fail \/ Die => faults' = faults + 1 /\ faults < MaxFaults
    BY DEF Fail, Die
  <2>2. Feed \/ ReceiveBatch \/ DeadLetter \/ Nightly => faults' = faults
    BY DEF Feed, CommitRow, ReceiveRow, ReceiveResolved, ReceiveBatch, Receive, DeadLetter, Nightly
  <2>3. PutRow \/ CloseWindow \/ Group \/ Archive => faults' = faults
    BY DEF PutRow, CloseWindow, Group, ApplyGroup, Archive, ArchiveGroup
  <2>4. DeleteProcessed \/ SaveWatermark \/ Return => faults' = faults
    BY DEF DeleteProcessed, SaveWatermark, Return
  <2>5. faults \in 0..MaxFaults /\ MaxFaults \in Nat
    BY ConsolidationAssumption DEF StoreFact
  <2>6. CASE Fail \/ Die
    BY <2>1, <2>5, <2>6
  <2> QED BY <2>2, <2>3, <2>4, <2>5, <2>6, StepKinds
<1> QED BY <1>a, <1>1, <1>2, <1>3, <1>4 DEF StoreFact
----------------------------------------------------------------------------
(* The invocation.                                                         *)

LEMMA IdleType ==
  ASSUME NEW c \in Nat
  PROVE  /\ Idle \in [pc : {"idle", "record", "groups", "archive", "mark"},
                      size : 0..MaxBatch, at : 0..(MaxBatch + 1), window : 0..c,
                      events : SUBSET (1..c), todo : SUBSET Incident,
                      current : SUBSET Incident, done : SUBSET (1..c)]
         /\ Idle.pc = "idle" /\ Idle.size = 0 /\ Idle.at = 0 /\ Idle.done = {}
  BY ConsolidationAssumption DEF Idle

\* The queue never gets shorter under a running invocation.
LEMMA BatchStays ==
  ASSUME QueueFact, JobFact, FeedFact, Next, ~DeadLetter, ~Return, ~Fail
  PROVE  Len(queue) \in Nat /\ Len(queue') \in Nat /\ Len(queue) <= Len(queue')
<1>1. queue \in Seq(Entry) /\ queue' \in Seq(Entry') /\ Len(queue) \in Nat /\ Len(queue') \in Nat
  BY NextQueue DEF QueueFact
<1>2. ASSUME NEW k \in DOMAIN rows, ReceiveRow(k) \/ ReceiveResolved(k) PROVE Len(queue) <= Len(queue')
  <2>1. PICK m \in Message : Enqueue(m) /\ m.ts \in 1..clock
    BY <1>2, Arrivals
  <2>2. queue' = Append(queue, [msg |-> m, receives |-> 0]) \/ queue' = queue
    BY <2>1, EnqueueQueue
  <2>3. Len(Append(queue, [msg |-> m, receives |-> 0])) = Len(queue) + 1
    BY <1>1
  <2> QED BY <1>1, <2>2, <2>3
<1>3. ReceiveBatch => Len(queue) <= Len(queue')
  BY <1>1, ReceiveQueue DEF ReceiveBatch
<1>4. UNCHANGED queueVars => Len(queue) <= Len(queue')
  BY <1>1 DEF queueVars
<1> QED BY <1>1, <1>2, <1>3, <1>4, QueueKept

LEMMA NextJob ==
  ASSUME FeedFact, QueueFact, StoreFact, JobFact, Next
  PROVE  JobFact'
<1> DEFINE Jobs(c) == [pc : {"idle", "record", "groups", "archive", "mark"},
                       size : 0..MaxBatch, at : 0..(MaxBatch + 1), window : 0..c,
                       events : SUBSET (1..c), todo : SUBSET Incident,
                       current : SUBSET Incident, done : SUBSET (1..c)]
           Shape == /\ job'.size <= Len(queue') /\ job'.at <= job'.size + 1
                    /\ job'.size = 0 <=> job'.at = 0
                    /\ job'.pc = "idle" => job'.size = 0
                    /\ job'.pc = "record" => job'.size > 0
                    /\ job'.pc \in {"groups", "archive", "mark"} => job'.at <= job'.size
<1>a. clock \in Nat /\ clock' \in Nat /\ clock <= clock' /\ MaxBatch \in Nat \ {0}
  BY NextFeed, ConsolidationAssumption DEF FeedFact
<1>b. job \in Jobs(clock) /\ Len(queue) \in Nat /\ Len(queue') \in Nat
  BY NextQueue DEF JobFact, QueueFact
<1>c. job' \in Jobs(clock) => job' \in Jobs(clock')
  BY <1>a
<1>d. JobFact' <=> job' \in Jobs(clock') /\ Shape
  BY DEF JobFact
<1>e. /\ job.size <= Len(queue) /\ job.at <= job.size + 1
      /\ job.size = 0 <=> job.at = 0
      /\ job.pc = "idle" => job.size = 0
      /\ job.pc = "record" => job.size > 0
      /\ job.pc \in {"groups", "archive", "mark"} => job.at <= job.size
  BY DEF JobFact
<1>f. job.size \in 0..MaxBatch /\ job.at \in 0..(MaxBatch + 1)
  BY <1>b
<1>g. SUFFICES job' \in Jobs(clock) /\ Shape
  BY <1>c, <1>d
<1>h. Idle \in Jobs(clock) /\ Idle.pc = "idle" /\ Idle.size = 0 /\ Idle.at = 0
  BY <1>a, IdleType
<1>1. CASE ReceiveBatch
  <2>1. PICK n \in 1..MaxBatch : Receive(n)
    BY <1>1 DEF ReceiveBatch
  <2>2. job' = [Idle EXCEPT !.pc = "record", !.size = n, !.at = 1] /\ n <= Len(queue)
    BY <2>1 DEF Receive
  <2>3. Len(queue') = Len(queue)
    BY <2>1, ReceiveQueue
  <2>4. n \in 0..MaxBatch /\ 1 \in 0..(MaxBatch + 1)
    BY <1>a
  <2>5. job' \in Jobs(clock) /\ job'.pc = "record" /\ job'.size = n /\ job'.at = 1
    BY <1>h, <2>2, <2>4
  <2> HIDE DEF Jobs
  <2> QED BY <2>2, <2>3, <2>5
<1>2. CASE PutRow
  <2>1. job' = [job EXCEPT !.at = @ + 1] /\ job.pc = "record" /\ job.at <= job.size /\ queue' = queue
    BY <1>2 DEF PutRow, queueVars
  <2>2. job' \in Jobs(clock)
    BY <1>a, <1>b, <1>f, <2>1
  <2>3. job'.pc = "record" /\ job'.size = job.size /\ job'.at = job.at + 1
    BY <1>b, <2>1
  <2> HIDE DEF Jobs
  <2> QED BY <1>e, <1>f, <2>1, <2>2, <2>3
<1>3. ASSUME NEW w \in 0..clock, NEW j \in Jobs(clock), ReadThrough(w, j)
      PROVE  job' \in Jobs(clock) /\ job'.pc = "groups" /\ job'.size = j.size /\ job'.at = j.at
  <2>1. {k \in pending : k <= w} \subseteq 1..clock
    BY DEF StoreFact
  <2>2. Completed({k \in pending : k <= w}) \subseteq Incident
    BY DEF Completed
  <2> DEFINE ev == {k \in pending : k <= w}
             td == Completed(ev)
  <2>3. job' = [j EXCEPT !.pc = "groups", !.window = w, !.events = ev, !.todo = td]
    BY <1>3 DEF ReadThrough
  <2>4. ev \subseteq 1..clock /\ td \subseteq Incident
    BY <2>1, <2>2
  <2> HIDE DEF ev, td
  <2> QED BY <2>3, <2>4
<1>4. CASE CloseWindow
  <2>1. job.pc = "record" /\ job.at <= job.size /\ ReadThrough(Current.ts, job) /\ queue' = queue
    BY <1>4 DEF CloseWindow, queueVars
  <2>2. Current.ts \in 0..clock
    BY <1>a, <2>1, CurrentRecord
  <2>3. job' \in Jobs(clock) /\ job'.pc = "groups" /\ job'.size = job.size /\ job'.at = job.at
    BY <1>3, <1>b, <2>1, <2>2
  <2> HIDE DEF Jobs
  <2> QED BY <1>e, <1>f, <2>1, <2>3
<1>5. CASE Nightly
  <2>1. ReadThrough(clock, Idle) /\ queue' = queue
    BY <1>5 DEF Nightly, queueVars
  <2>2. job' \in Jobs(clock) /\ job'.pc = "groups" /\ job'.size = Idle.size /\ job'.at = Idle.at
    BY <1>3, <1>a, <1>h, <2>1
  <2> HIDE DEF Jobs
  <2> QED BY <1>b, <1>h, <2>1, <2>2
<1>6. CASE Group
  <2>1. PICK i \in Incident : ApplyGroup(i)
    BY <1>6 DEF Group
  <2>2. job' = [job EXCEPT !.pc = "archive", !.current = {i}] /\ job.pc = "groups" /\ queue' = queue
    BY <2>1 DEF ApplyGroup, queueVars
  <2>3. job' \in Jobs(clock) /\ job'.pc = "archive" /\ job'.size = job.size /\ job'.at = job.at
    BY <1>b, <2>2
  <2> HIDE DEF Jobs
  <2> QED BY <1>e, <1>f, <2>2, <2>3
<1>7. CASE Archive
  <2>1. PICK i \in Incident : ArchiveGroup(i)
    BY <1>7 DEF Archive
  <2>2. job' = [job EXCEPT !.pc = "groups", !.todo = @ \ {i}, !.current = {},
                        !.done = @ \cup RowsOf(i, job.events)] /\ job.pc = "archive" /\ queue' = queue
    BY <2>1 DEF ArchiveGroup, queueVars
  <2>3. RowsOf(i, job.events) \subseteq 1..clock
    BY <1>b DEF RowsOf
  <2>4. job' \in Jobs(clock) /\ job'.pc = "groups" /\ job'.size = job.size /\ job'.at = job.at
    BY <1>b, <2>2, <2>3
  <2> HIDE DEF Jobs
  <2> QED BY <1>e, <1>f, <2>2, <2>4
<1>8. CASE DeleteProcessed
  <2>1. job' = [job EXCEPT !.pc = "mark"] /\ job.pc = "groups" /\ queue' = queue
    BY <1>8 DEF DeleteProcessed, queueVars
  <2>2. job' \in Jobs(clock) /\ job'.pc = "mark" /\ job'.size = job.size /\ job'.at = job.at
    BY <1>b, <2>1
  <2> HIDE DEF Jobs
  <2> QED BY <1>e, <1>f, <2>1, <2>2
<1>9. CASE SaveWatermark
  <2>1. job.pc = "mark" /\ queue' = queue
        /\ job' = IF job.size = 0 THEN Idle
                  ELSE [Idle EXCEPT !.pc = "record", !.size = job.size, !.at = job.at + 1]
    BY <1>9 DEF SaveWatermark, queueVars
  <2>2. CASE job.size = 0
    BY <1>b, <1>h, <2>1, <2>2
  <2>3. CASE job.size # 0
    <3>1. job.at + 1 \in 0..(MaxBatch + 1) /\ job.at <= job.size
      BY <1>a, <1>e, <1>f, <2>1
    <3>2. job' \in Jobs(clock) /\ job'.pc = "record" /\ job'.size = job.size /\ job'.at = job.at + 1
      BY <1>f, <1>h, <2>1, <2>3, <3>1
    <3> HIDE DEF Jobs
    <3> QED BY <1>e, <1>f, <2>1, <2>3, <3>1, <3>2
  <2> QED BY <2>2, <2>3
<1>10. CASE job' = Idle
  BY <1>10, <1>b, <1>h
<1>11. CASE job' = job /\ Feed
  <2>1. ~DeadLetter /\ ~Return /\ ~Fail => Len(queue) <= Len(queue')
    BY BatchStays
  <2>2. (Return \/ Fail) /\ job' = job => job = Idle
    BY DEF Return, Fail
  <2>3. DeadLetter => job.pc = "idle"
    BY DEF DeadLetter
  <2> HIDE DEF Jobs
  <2> QED BY <1>11, <1>b, <1>e, <1>f, <1>h, <2>1, <2>2, <2>3
<1>12. CASE job' = job /\ DeadLetter
  <2>1. job.pc = "idle"
    BY <1>12 DEF DeadLetter
  <2> HIDE DEF Jobs
  <2> QED BY <1>12, <1>b, <1>e, <1>f, <2>1
<1> HIDE DEF Jobs, Shape
<1> QED BY <1>1, <1>2, <1>4, <1>5, <1>6, <1>7, <1>8, <1>9, <1>10, <1>11, <1>12, JobKept
----------------------------------------------------------------------------
(* Rows are not lost.                                                      *)

LEMMA DeadGrows ==
  ASSUME QueueFact, JobFact, FeedFact, Next
  PROVE  dead \subseteq dead'
<1>1. ASSUME NEW k \in DOMAIN rows, ReceiveRow(k) \/ ReceiveResolved(k) PROVE dead' = dead
  BY <1>1 DEF ReceiveRow, ReceiveResolved, Enqueue
<1>2. ReceiveBatch \/ Return \/ Fail => dead' = dead
  BY DEF ReceiveBatch, Receive, Return, Fail
<1>3. DeadLetter => dead \subseteq dead'
  BY DEF DeadLetter
<1> QED BY <1>1, <1>2, <1>3, QueueKept DEF queueVars

\* What was handled stays handled: a buffer is deleted only when its row stands
\* in the archive.
LEMMA HandledGrows ==
  ASSUME FeedFact, QueueFact, JobFact, ReadFact, Next
  PROVE  Archived \subseteq Archived' /\ Handled \subseteq Handled'
<1>1. archive \subseteq archive'
  <2>1. PutRow \/ DeleteProcessed \/ SaveWatermark => archive' = archive
    BY DEF PutRow, DeleteProcessed, SaveWatermark
  <2>2. Archive => archive \subseteq archive'
    BY DEF Archive, ArchiveGroup
  <2> QED BY <2>1, <2>2, StoreKept DEF storeVars
<1>2. Archived \subseteq Archived'
  BY <1>1 DEF Archived
<1>3. Dead \subseteq Dead'
  BY DeadGrows DEF Dead
<1>4. pending \subseteq pending' \cup Archived
  <2>1. PutRow \/ Archive \/ SaveWatermark => pending \subseteq pending'
    BY DEF PutRow, Archive, ArchiveGroup, SaveWatermark
  <2>2. DeleteProcessed => pending \subseteq pending' \cup job.done
    BY DEF DeleteProcessed
  <2> QED BY <2>1, <2>2, StoreKept DEF storeVars, ReadFact
<1> QED BY <1>2, <1>3, <1>4 DEF Handled

\* How the queue moves in a step: n messages leave at the front, all of them
\* handled and none under a running invocation; at most one arrives at the end.
Moved(n) ==
  /\ \A j \in 1..Len(queue) :
       IF j > n THEN j - n \in 1..Len(queue') /\ queue'[j - n].msg = queue[j].msg
       ELSE queue[j].msg.kind = "row" => queue[j].msg.ts \in Handled'
  /\ \A j \in 1..Len(queue') :
       \/ j + n \in 1..Len(queue) /\ queue'[j].msg = queue[j + n].msg
       \/ /\ n = 0 /\ j = Len(queue) + 1
          /\ queue'[j].msg.kind = "window" => 1..queue'[j].msg.ts \subseteq acked
  /\ n > 0 => job'.at = 0 /\ job'.pc = "idle"

LEMMA QueueMoves ==
  ASSUME PipelineInv, Next
  PROVE  \E n \in 0..Len(queue) : Moved(n)
<1>a. FeedFact /\ QueueFact /\ JobFact /\ ReadFact /\ PrefixFact
  BY DEF PipelineInv
<1>b. queue \in Seq(Entry) /\ Len(queue) \in Nat /\ 0 \in 0..Len(queue)
  BY <1>a DEF QueueFact
<1>1. ASSUME Len(queue') = Len(queue), \A j \in 1..Len(queue) : queue'[j].msg = queue[j].msg
      PROVE  Moved(0)
  BY <1>1, <1>b DEF Moved
<1>2. ASSUME NEW k \in DOMAIN rows, ReceiveRow(k) \/ ReceiveResolved(k) PROVE Moved(0)
  <2>1. PICK m \in Message : /\ Enqueue(m) /\ m.ts = k /\ k \in 1..clock
                             /\ m = RowMessage(k) \/ (m = WindowMessage(k) /\ 1..k \subseteq acked)
    BY <1>2, <1>a, Arrivals
  <2>2. m.kind = "window" => 1..m.ts \subseteq acked
    BY <2>1 DEF RowMessage
  <2>3. CASE queue' = Append(queue, [msg |-> m, receives |-> 0])
    <3>1. /\ Len(queue') = Len(queue) + 1
          /\ \A j \in 1..Len(queue) : queue'[j] = queue[j]
          /\ queue'[Len(queue) + 1].msg = m
      BY <1>b, <2>3
    <3> QED BY <1>b, <2>2, <3>1 DEF Moved
  <2>4. CASE queue' = queue
    BY <1>1, <2>4
  <2> QED BY <1>a, <2>1, <2>3, <2>4, EnqueueQueue
<1>3. CASE ReceiveBatch
  BY <1>1, <1>3, <1>a, ReceiveQueue DEF ReceiveBatch
<1>4. CASE UNCHANGED queueVars
  BY <1>1, <1>4 DEF queueVars
<1>5. CASE DeadLetter \/ Return \/ Fail
  <2>1. PICK n \in 0..Len(queue) :
           /\ queue' = SubSeq(queue, n + 1, Len(queue))
           /\ DeadLetter => n = 1 /\ dead' = dead \cup {queue[1].msg}
           /\ ~DeadLetter => n = 0 \/ n < job.at
    BY <1>5, <1>a, Departures
  <2>2. /\ Len(queue') = Len(queue) - n
        /\ \A j \in 1..Len(queue') : j + n \in 1..Len(queue) /\ queue'[j] = queue[j + n]
    BY <1>a, <2>1, DropQueue
  <2>3. \A j \in 1..Len(queue) : j > n => j - n \in 1..Len(queue') /\ queue'[j - n] = queue[j]
    BY <1>b, <2>1, <2>2
  <2>4. ASSUME NEW j \in 1..Len(queue), ~(j > n), queue[j].msg.kind = "row"
        PROVE  queue[j].msg.ts \in Handled'
    <3>1. CASE DeadLetter
      <4>1. j = 1 /\ queue[j].msg \in dead'
        BY <1>b, <2>1, <2>4, <3>1
      <4> QED BY <2>4, <4>1 DEF Handled, Dead
    <3>2. CASE ~DeadLetter
      <4>1. j < job.at
        BY <1>a, <1>b, <2>1, <2>4, <3>2 DEF JobFact
      <4> QED BY <1>a, <2>4, <4>1, HandledGrows DEF PrefixFact
    <3> QED BY <3>1, <3>2
  <2>5. job'.at = 0 /\ job'.pc = "idle"
    <3>1. DeadLetter => job' = job /\ job.pc = "idle"
      BY DEF DeadLetter
    <3>2. Return \/ Fail => job' = Idle
      BY DEF Return, Fail
    <3>3. job.pc = "idle" => job.at = 0
      BY <1>a DEF JobFact
    <3> QED BY <1>5, <3>1, <3>2, <3>3 DEF Idle
  <2>6. Moved(n)
    BY <2>2, <2>3, <2>4, <2>5 DEF Moved
  <2> QED BY <2>6
<1> QED BY <1>b, <1>2, <1>3, <1>4, <1>5, QueueKept

LEMMA NextSent ==
  ASSUME PipelineInv, Next
  PROVE  SentFact'
<1>a. FeedFact /\ QueueFact /\ JobFact /\ ReadFact /\ SentFact
  BY DEF PipelineInv
<1>b. queue \in Seq(Entry) /\ DOMAIN queue = 1..Len(queue) /\ Len(queue) \in Nat
  BY <1>a DEF QueueFact
<1>c. DOMAIN queue' = 1..Len(queue')
  BY <1>a, NextQueue DEF QueueFact
<1>d. Handled \subseteq Handled'
  BY <1>a, HandledGrows
<1>1. PICK n \in 0..Len(queue) : Moved(n)
  BY QueueMoves
<1>2. Queued \subseteq Queued' \cup Handled'
  <2> SUFFICES ASSUME NEW j \in 1..Len(queue), queue[j].msg.kind = "row"
               PROVE  queue[j].msg.ts \in Queued' \cup Handled'
    BY <1>b DEF Queued
  <2>1. CASE j > n
    <3>1. j - n \in 1..Len(queue') /\ queue'[j - n].msg = queue[j].msg
      BY <1>1, <2>1 DEF Moved
    <3> QED BY <1>c, <3>1 DEF Queued
  <2>2. CASE ~(j > n)
    BY <1>1, <2>2 DEF Moved
  <2> QED BY <2>1, <2>2
<1>3. ASSUME NEW m \in sent', m.kind = "row", m \notin sent PROVE m.ts \in Queued'
  <2>1. PICK k \in DOMAIN rows : ReceiveRow(k) \/ ReceiveResolved(k)
    <3>1. CommitRow => sent' = sent
      BY DEF CommitRow, queueVars
    <3> QED BY <1>3, <3>1, FeedKept DEF Feed
  <2>2. PICK x \in Message : Enqueue(x) /\ x.ts \in 1..clock
    BY <1>a, <2>1, Arrivals
  <2>3. x = m /\ queue' = Append(queue, [msg |-> m, receives |-> 0])
    BY <1>3, <1>a, <2>2, EnqueueQueue
  <2>4. Len(queue) + 1 \in 1..Len(queue') /\ queue'[Len(queue) + 1].msg = m
    BY <1>b, <2>3
  <2> QED BY <1>3, <1>c, <2>4 DEF Queued
<1> QED BY <1>a, <1>d, <1>2, <1>3 DEF SentFact

LEMMA NextAhead ==
  ASSUME PipelineInv, Next
  PROVE  AheadFact'
<1>a. FeedFact /\ QueueFact /\ JobFact /\ ReadFact /\ SentFact /\ AheadFact
  BY DEF PipelineInv
<1>b. queue \in Seq(Entry) /\ DOMAIN queue = 1..Len(queue) /\ Len(queue) \in Nat
  BY <1>a DEF QueueFact
<1>c. Handled \subseteq Handled'
  BY <1>a, HandledGrows
<1>d. Len(queue') \in Nat
  BY <1>a, NextQueue DEF QueueFact
<1>1. PICK n \in 0..Len(queue) : Moved(n)
  BY QueueMoves
<1> SUFFICES ASSUME NEW p \in 1..Len(queue'), queue'[p].msg.kind = "window",
                    NEW k \in 1..queue'[p].msg.ts, k \notin Handled'
             PROVE  \E q \in 1..Len(queue') : q < p /\ queue'[q].msg = RowMessage(k)
  BY DEF AheadFact, RowMessage
\* A row ahead of the window stays ahead of it.
<1>2. ASSUME NEW q \in 1..Len(queue), q < p + n, queue[q].msg = RowMessage(k)
      PROVE  \E r \in 1..Len(queue') : r < p /\ queue'[r].msg = RowMessage(k)
  <2>1. queue[q].msg.kind = "row" /\ queue[q].msg.ts = k
    BY <1>2 DEF RowMessage
  <2>2. q > n /\ q - n \in 1..Len(queue') /\ queue'[q - n].msg = RowMessage(k)
    BY <1>1, <1>2, <2>1 DEF Moved
  <2> QED BY <1>2, <1>d, <2>2
<1>3. CASE p + n \in 1..Len(queue) /\ queue'[p].msg = queue[p + n].msg
  <2>1. k \notin Handled
    BY <1>c
  <2>2. \E q \in 1..Len(queue) : q < p + n /\ queue[q].msg = RowMessage(k)
    BY <1>3, <1>a, <2>1 DEF AheadFact
  <2> QED BY <1>2, <2>2
<1>4. CASE n = 0 /\ p = Len(queue) + 1 /\ 1..queue'[p].msg.ts \subseteq acked
  <2>1. RowMessage(k) \in sent
    BY <1>4, <1>a DEF FeedFact
  <2>2. k \in Queued
    BY <1>a, <1>c, <2>1 DEF SentFact, RowMessage
  <2>3. PICK q \in 1..Len(queue) : queue[q].msg.kind = "row" /\ queue[q].msg.ts = k
    BY <1>b, <2>2 DEF Queued
  <2>4. queue[q].msg \in Message
    <3>1. queue[q] \in Entry
      BY <1>b
    <3> QED BY <3>1 DEF Entry
  <2>5. queue[q].msg = RowMessage(k)
    BY <2>3, <2>4 DEF Message, RowMessage
  <2> QED BY <1>2, <1>4, <1>b, <2>5
<1> QED BY <1>1, <1>3, <1>4 DEF Moved
\* The batch is handled record by record.
LEMMA NextPrefix ==
  ASSUME PipelineInv, Next
  PROVE  PrefixFact'
<1>a. FeedFact /\ QueueFact /\ StoreFact /\ JobFact /\ ReadFact /\ PrefixFact
  BY DEF PipelineInv
<1>b. Len(queue) \in Nat /\ Len(queue') \in Nat
  BY <1>a, NextQueue DEF QueueFact
<1>c. Handled \subseteq Handled'
  BY <1>a, HandledGrows
<1>d. job.at \in Nat /\ job.size \in Nat /\ job.at <= job.size + 1 /\ job.size <= Len(queue)
  BY <1>a DEF JobFact
<1>e. job.pc \in {"groups", "archive", "mark"} /\ job.size > 0 =>
        job.at \in 1..Len(queue) /\ queue[job.at].msg.kind = "window"
  BY <1>a, <1>b, <1>d DEF JobFact, PrefixFact
<1> DEFINE Busy == {"groups", "archive", "mark"}
           Before1 == \A j \in 1..Len(queue') :
                        j < job'.at /\ queue'[j].msg.kind = "row" => queue'[j].msg.ts \in Handled'
           Window1 == job'.pc \in Busy /\ job'.size > 0 => queue'[job'.at].msg.kind = "window"
<1>f. PrefixFact' <=> Before1 /\ Window1
  BY DEF PrefixFact
\* The invocation's place is kept, and so is what lies before it.
<1>1. ASSUME job'.at = job.at, queue' = queue PROVE Before1
  BY <1>1, <1>a, <1>c DEF PrefixFact
<1>2. CASE ReceiveBatch \/ Return \/ Fail \/ Die
  <2>1. job'.at \in {0, 1} /\ job'.pc \in {"record", "idle"}
    <3>1. CASE ReceiveBatch
      <4>1. PICK n \in 1..MaxBatch : job' = [Idle EXCEPT !.pc = "record", !.size = n, !.at = 1]
        BY <3>1 DEF ReceiveBatch, Receive
      <4> QED BY <4>1 DEF Idle
    <3>2. CASE Return \/ Fail \/ Die
      <4>1. job' = Idle
        BY <3>2 DEF Return, Fail, Die
      <4> QED BY <4>1 DEF Idle
    <3> QED BY <1>2, <3>1, <3>2
  <2> QED BY <1>f, <2>1
<1>3. CASE PutRow
  <2>1. job' = [job EXCEPT !.at = @ + 1] /\ queue' = queue /\ job.pc = "record" /\ job.at <= job.size
        /\ Current.ts \in pending'
    BY <1>3 DEF PutRow, queueVars
  <2>2. job'.at = job.at + 1 /\ job'.pc = "record"
    BY <1>a, <2>1 DEF JobFact
  <2>3. queue[job.at].msg.ts \in Handled'
    BY <2>1 DEF Current, Handled
  <2>4. \A j \in 1..Len(queue) : j < job.at + 1 => j < job.at \/ j = job.at
    BY <1>d
  <2>5. Before1
    BY <1>a, <1>c, <2>1, <2>2, <2>3, <2>4 DEF PrefixFact
  <2> QED BY <1>f, <2>2, <2>5
<1>4. CASE SaveWatermark
  <2>1. job.pc = "mark" /\ queue' = queue
        /\ job' = IF job.size = 0 THEN Idle
                  ELSE [Idle EXCEPT !.pc = "record", !.size = job.size, !.at = job.at + 1]
    BY <1>4 DEF SaveWatermark, queueVars
  <2>2. CASE job.size = 0
    BY <1>f, <2>1, <2>2 DEF Idle
  <2>3. CASE job.size # 0
    <3>1. job'.at = job.at + 1 /\ job'.pc = "record"
      BY <2>1, <2>3 DEF Idle
    <3>2. queue[job.at].msg.kind = "window"
      BY <1>d, <1>e, <2>1, <2>3
    <3>3. \A j \in 1..Len(queue) : j < job.at + 1 => j < job.at \/ j = job.at
      BY <1>d
    <3>4. Before1
      BY <1>a, <1>c, <2>1, <3>1, <3>2, <3>3 DEF PrefixFact
    <3> QED BY <1>f, <3>1, <3>4
  <2> QED BY <2>2, <2>3
<1>5. CASE CloseWindow
  <2>1. job.pc = "record" /\ Current.kind = "window" /\ queue' = queue /\ ReadThrough(Current.ts, job)
    BY <1>5 DEF CloseWindow, queueVars
  <2>2. job'.at = job.at
    BY <1>a, <2>1 DEF ReadThrough, JobFact
  <2>3. Window1
    BY <2>1, <2>2 DEF Current
  <2> QED BY <1>1, <1>f, <2>1, <2>2, <2>3
<1>6. CASE Nightly
  <2>1. job'.at = 0 /\ job'.size = 0
    BY <1>6 DEF Nightly, ReadThrough, Idle
  <2> QED BY <1>f, <2>1
<1>7. CASE Group \/ Archive \/ DeleteProcessed
  <2>1. job.pc \in Busy /\ queue' = queue
    BY <1>7 DEF Group, ApplyGroup, Archive, ArchiveGroup, DeleteProcessed, queueVars
  <2>2. job'.at = job.at /\ job'.size = job.size
    BY <1>7, <1>a DEF Group, ApplyGroup, Archive, ArchiveGroup, DeleteProcessed, JobFact
  <2>3. Window1
    BY <1>e, <2>1, <2>2
  <2> QED BY <1>1, <1>f, <2>1, <2>2, <2>3
<1>8. CASE DeadLetter
  <2>1. job' = job /\ job.at = 0 /\ job.size = 0
    BY <1>8, <1>a DEF DeadLetter, JobFact
  <2> QED BY <1>f, <2>1
<1>9. CASE Feed
  <2>1. job' = job
    BY <1>9 DEF Feed, CommitRow, ReceiveRow, ReceiveResolved
  <2>2. \A j \in 1..Len(queue) : j \in 1..Len(queue') /\ queue'[j].msg = queue[j].msg
    <3>1. CommitRow => queue' = queue
      BY DEF CommitRow, queueVars
    <3>2. ASSUME NEW k \in DOMAIN rows, ReceiveRow(k) \/ ReceiveResolved(k)
          PROVE  \A j \in 1..Len(queue) : j \in 1..Len(queue') /\ queue'[j].msg = queue[j].msg
      <4>1. PICK m \in Message : Enqueue(m) /\ m.ts \in 1..clock
        BY <3>2, <1>a, Arrivals
      <4>2. queue' = Append(queue, [msg |-> m, receives |-> 0]) \/ queue' = queue
        BY <1>a, <4>1, EnqueueQueue
      <4>3. queue \in Seq(Entry)
        BY <1>a DEF QueueFact
      <4> QED BY <1>b, <4>2, <4>3
    <3> QED BY <3>1, <3>2, <1>9 DEF Feed
  <2>3. \A j \in 1..Len(queue') : j < job.at => j \in 1..Len(queue)
    BY <1>b, <1>d
  <2>4. Before1
    BY <1>a, <1>c, <2>1, <2>2, <2>3 DEF PrefixFact
  <2>5. Window1
    BY <1>e, <2>1, <2>2
  <2> QED BY <1>f, <2>4, <2>5
<1> HIDE DEF Before1, Window1
<1> QED BY <1>2, <1>3, <1>4, <1>5, <1>6, <1>7, <1>8, <1>9, StepKinds
LEMMA NextRead ==
  ASSUME PipelineInv, Next
  PROVE  ReadFact'
<1>a. FeedFact /\ QueueFact /\ StoreFact /\ JobFact /\ ReadFact /\ PrefixFact /\ AheadFact
  BY DEF PipelineInv
<1>b. Handled \subseteq Handled' /\ Archived \subseteq Archived'
  BY <1>a, HandledGrows
<1>c. rows' = rows
  BY <1>a, NextFeed
<1> DEFINE Open == {"groups", "archive"}
           Done1 == job'.done \subseteq Archived'
           Read1 == /\ job'.events = {k \in pending' : k <= job'.window}
                    /\ job'.todo \subseteq Completed(job'.events)
                    /\ job'.size > 0 => 1..job'.window \subseteq Handled'
<1>d. ReadFact' <=> Done1 /\ (job'.pc \in Open => Read1)
  BY <1>c DEF ReadFact, Completed, OutcomesOf, RowsOf
<1>e. job.done \subseteq Archived /\
        (job.pc \in Open => /\ job.events = {k \in pending : k <= job.window}
                            /\ job.todo \subseteq Completed(job.events)
                            /\ job.size > 0 => 1..job.window \subseteq Handled)
  BY <1>a DEF ReadFact
<1>1. CASE ReceiveBatch
  <2>1. PICK n \in 1..MaxBatch : job' = [Idle EXCEPT !.pc = "record", !.size = n, !.at = 1]
    BY <1>1 DEF ReceiveBatch, Receive
  <2>2. job'.pc = "record" /\ job'.done = {}
    BY <2>1 DEF Idle
  <2> QED BY <1>d, <2>2
<1>2. CASE PutRow
  <2>1. job'.pc = "record" /\ job'.done = job.done
    BY <1>2, <1>a DEF PutRow, JobFact
  <2> QED BY <1>b, <1>d, <1>e, <2>1
<1>3. CASE CloseWindow
  <2>1. job.pc = "record" /\ job.at <= job.size /\ Current.kind = "window" /\ UNCHANGED storeVars
        /\ ReadThrough(Current.ts, job)
    BY <1>3 DEF CloseWindow
  <2>2. /\ job'.window = Current.ts /\ job'.events = {k \in pending : k <= Current.ts}
        /\ job'.todo = Completed({k \in pending : k <= Current.ts}) /\ job'.done = job.done
    BY <1>a, <2>1 DEF ReadThrough, JobFact
  <2>3. job.at \in 1..Len(queue) /\ Current = queue[job.at].msg
    BY <1>a, <2>1, CurrentRecord
  <2>4. 1..Current.ts \subseteq Handled
    <3> SUFFICES ASSUME NEW k \in 1..Current.ts, k \notin Handled PROVE FALSE
      OBVIOUS
    <3>1. PICK q \in 1..Len(queue) : q < job.at /\ queue[q].msg = RowMessage(k)
      BY <1>a, <2>1, <2>3 DEF AheadFact
    <3>2. k \in Handled
      BY <1>a, <3>1 DEF PrefixFact, RowMessage
    <3> QED BY <3>2
  <2> QED BY <1>b, <1>d, <1>e, <2>1, <2>2, <2>4 DEF storeVars
<1>4. CASE Nightly
  <2>1. UNCHANGED storeVars /\ ReadThrough(clock, Idle)
    BY <1>4 DEF Nightly
  <2>2. /\ job'.window = clock /\ job'.events = {k \in pending : k <= clock}
        /\ job'.todo = Completed({k \in pending : k <= clock}) /\ job'.done = {} /\ job'.size = 0
    BY <2>1 DEF ReadThrough, Idle
  <2> QED BY <1>d, <2>1, <2>2 DEF storeVars
<1>5. CASE Group
  <2>1. PICK i \in Incident : ApplyGroup(i)
    BY <1>5 DEF Group
  <2>2. job.pc = "groups" /\ UNCHANGED storeVars /\ job' = [job EXCEPT !.pc = "archive", !.current = {i}]
    BY <2>1 DEF ApplyGroup
  <2>3. /\ job'.events = job.events /\ job'.todo = job.todo /\ job'.size = job.size
        /\ job'.window = job.window /\ job'.done = job.done
    BY <1>a, <2>2 DEF JobFact
  <2> QED BY <1>b, <1>d, <1>e, <2>2, <2>3 DEF storeVars
<1>6. CASE Archive
  <2>1. PICK i \in Incident : ArchiveGroup(i)
    BY <1>6 DEF Archive
  <2>2. /\ job.pc = "archive" /\ pending' = pending /\ archive' = archive \cup {RowsOf(i, job.events)}
        /\ job' = [job EXCEPT !.pc = "groups", !.todo = @ \ {i}, !.current = {},
                              !.done = @ \cup RowsOf(i, job.events)]
    BY <2>1 DEF ArchiveGroup
  <2>3. /\ job'.events = job.events /\ job'.todo \subseteq job.todo /\ job'.size = job.size
        /\ job'.window = job.window /\ job'.done = job.done \cup RowsOf(i, job.events)
    BY <1>a, <2>2 DEF JobFact
  <2>4. RowsOf(i, job.events) \subseteq Archived'
    BY <2>2 DEF Archived
  <2>5. Done1
    BY <1>b, <1>e, <2>3, <2>4
  <2>6. Read1
    BY <1>b, <1>e, <2>2, <2>3
  <2> QED BY <1>d, <2>5, <2>6
<1>7. CASE DeleteProcessed
  <2>1. job'.pc = "mark" /\ job'.done = job.done
    BY <1>7, <1>a DEF DeleteProcessed, JobFact
  <2> QED BY <1>b, <1>d, <1>e, <2>1
<1>8. CASE SaveWatermark
  <2> DEFINE next == [Idle EXCEPT !.pc = "record", !.size = job.size, !.at = job.at + 1]
  <2>1. job' = Idle \/ job' = next
    BY <1>8 DEF SaveWatermark
  <2>2. Idle.pc = "idle" /\ Idle.done = {} /\ next.pc = "record" /\ next.done = {}
    BY DEF Idle
  <2> HIDE DEF next
  <2>3. job'.pc \notin Open /\ job'.done = {}
    BY <2>1, <2>2
  <2> QED BY <1>d, <2>3
<1>9. CASE job' = Idle
  <2>1. job'.pc \notin Open /\ job'.done = {}
    BY <1>9 DEF Idle
  <2> QED BY <1>d, <2>1
<1>10. CASE job' = job /\ (Feed \/ DeadLetter)
  <2>1. UNCHANGED storeVars
    BY <1>10 DEF Feed, CommitRow, ReceiveRow, ReceiveResolved, DeadLetter
  <2> QED BY <1>10, <1>b, <1>d, <1>e, <2>1 DEF storeVars
<1> HIDE DEF Open, Done1, Read1
<1> QED BY <1>1, <1>2, <1>3, <1>4, <1>5, <1>6, <1>7, <1>8, <1>9, <1>10, JobKept

----------------------------------------------------------------------------
(* The invariant.                                                          *)

LEMMA InitPipelineInv == Init => PipelineInv
<1> SUFFICES ASSUME Init PROVE PipelineInv
  OBVIOUS
<1> USE DEF Init
<1>1. FeedFact
  BY ConsolidationAssumption DEF FeedFact
<1>2. QueueFact
  BY ConsolidationAssumption DEF QueueFact
<1>3. StoreFact
  BY ConsolidationAssumption DEF StoreFact
<1>4. JobFact
  <2>1. job = Idle /\ clock = 0 /\ Len(queue) = 0
    OBVIOUS
  <2> HIDE DEF Init
  <2> QED BY <2>1, IdleType DEF JobFact
<1>5. ReadFact
  BY DEF ReadFact, Idle
<1>6. SentFact /\ PrefixFact /\ AheadFact
  BY DEF SentFact, PrefixFact, AheadFact, Idle
<1> QED BY <1>1, <1>2, <1>3, <1>4, <1>5, <1>6 DEF PipelineInv

LEMMA PipelineInvStutters ==
  ASSUME PipelineInv, UNCHANGED vars
  PROVE  PipelineInv'
<1> USE DEF vars, feedVars, queueVars, storeVars
<1>1. FeedFact' /\ QueueFact' /\ StoreFact' /\ JobFact'
  BY DEF PipelineInv, FeedFact, QueueFact, StoreFact, JobFact, Entry, Message, RowMessage
<1>2. Handled' = Handled /\ Archived' = Archived /\ Queued' = Queued
  BY DEF Handled, Archived, Dead, Queued
<1>3. ReadFact'
  <2>1. \A E : Completed(E)' = Completed(E)
    BY DEF Completed, OutcomesOf, RowsOf
  <2> QED BY <1>2, <2>1 DEF PipelineInv, ReadFact, Completed, OutcomesOf, RowsOf
<1>4. SentFact' /\ PrefixFact' /\ AheadFact'
  BY <1>2 DEF PipelineInv, SentFact, PrefixFact, AheadFact, RowMessage
<1> QED BY <1>1, <1>3, <1>4 DEF PipelineInv

LEMMA NextPipelineInv == PipelineInv /\ [Next]_vars => PipelineInv'
<1>1. ASSUME PipelineInv, Next PROVE PipelineInv'
  <2>1. FeedFact' /\ QueueFact' /\ StoreFact' /\ JobFact'
    BY <1>1, NextFeed, NextQueue, NextStore, NextJob DEF PipelineInv
  <2>2. ReadFact' /\ SentFact' /\ PrefixFact' /\ AheadFact'
    BY <1>1, NextRead, NextSent, NextPrefix, NextAhead
  <2> QED BY <2>1, <2>2 DEF PipelineInv
<1> QED BY <1>1, PipelineInvStutters

\* The facts above hold whatever is repeated, fails or dies.
THEOREM PipelineInvariant == Spec => []PipelineInv
  BY InitPipelineInv, NextPipelineInv, PTL DEF Spec

\* No acknowledged row is lost: it waits in the queue, is buffered, stands in an
\* archived group, or lies in the dead-letter queue, whatever fails between
\* apply, archive and mark_processed and however deliveries repeat.
THEOREM EveryAcknowledgedRowIsKept == Spec => []NoRowIsLost
<1>1. PipelineInv => NoRowIsLost
  <2> SUFFICES ASSUME PipelineInv, NEW k \in acked PROVE k \in Queued \cup pending \cup Archived \cup Dead
    BY DEF NoRowIsLost
  <2>1. RowMessage(k) \in sent
    BY DEF PipelineInv, FeedFact
  <2> QED BY <2>1 DEF PipelineInv, SentFact, RowMessage, Handled
<1> QED BY <1>1, PipelineInvariant, PTL
----------------------------------------------------------------------------
(* The outcome that counts.                                                *)

\* Every incident with an outcome has one observed last: the order of
\* _outcome_for is total, and an incident has finitely many rows.
LEMMA LastOutcome ==
  ASSUME FeedFact, NEW events \in SUBSET (1..clock), NEW i, OutcomesOf(i, events) # {}
  PROVE  \E k \in OutcomesOf(i, events) :
           /\ \A j \in OutcomesOf(i, events) : j = k \/ Before(j, k)
           /\ OutcomeFor(i, events) = rows[k].kind
<1> DEFINE S == OutcomesOf(i, events)
           After(k) == {j \in S : Before(k, j)}
           T == {After(k) : k \in S}
<1>1. S \subseteq 1..clock /\ S # {} /\ clock \in Nat
  <2>1. S # {}
    OBVIOUS
  <2>2. S \subseteq events
    BY DEF OutcomesOf, RowsOf
  <2>3. clock \in Nat
    BY DEF FeedFact
  <2> HIDE DEF S
  <2> QED BY <2>1, <2>2, <2>3
<1>2. \A k \in S : k \in Nat /\ rows[k].occurred \in Nat
  <2>1. \A k \in S : k \in 1..Len(rows)
    BY <1>1 DEF FeedFact
  <2>2. \A k \in S : rows[k] \in Row
    BY <2>1 DEF FeedFact
  <2> QED BY <2>1, <2>2 DEF Row
<1> HIDE DEF S
<1>3. IsFiniteSet(S)
  <2>1. IsFiniteSet(1..clock)
    BY <1>1, FS_Interval
  <2> QED BY <1>1, <2>1, FS_Subset
<1>4. IsWellFoundedOn(StrictSubsetOrdering(S), SUBSET S)
  <2>1. FiniteSubsetsOf(S) = SUBSET S
    BY <1>3, FS_FiniteSubsetsOfFinite
  <2>2. IsWellFoundedOn(StrictSubsetOrdering(S), FiniteSubsetsOf(S))
    BY FS_StrictSubsetOrderingWellFounded
  <2> QED BY <2>1, <2>2, Zenon
<1>5. T \subseteq SUBSET S /\ T # {}
  BY <1>1
<1>6. PICK t \in T : \A u \in T : ~(<<u, t>> \in StrictSubsetOrdering(S))
  <2> HIDE DEF T
  <2> QED BY <1>4, <1>5, WFMin
<1>7. PICK k \in S : t = After(k)
  BY <1>6
<1>8. ASSUME NEW j \in S PROVE j = k \/ Before(j, k)
  <2> SUFFICES ASSUME j # k, ~Before(j, k) PROVE FALSE
    OBVIOUS
  <2>1. Before(k, j)
    BY <1>2 DEF Before
  <2>2. After(j) \subseteq After(k)
    BY <1>2, <2>1 DEF Before
  <2>3. j \in After(k) /\ j \notin After(j)
    BY <1>2, <2>1 DEF Before
  <2>4. <<After(j), After(k)>> \in StrictSubsetOrdering(S)
    BY <2>2, <2>3 DEF StrictSubsetOrdering
  <2> QED BY <1>6, <1>7, <2>4
<1>9. PICK m \in S : /\ \A j \in S : j = m \/ Before(j, m)
                     /\ OutcomeFor(i, events) = rows[m].kind
  BY <1>8 DEF OutcomeFor, S
<1> QED BY <1>9 DEF S

----------------------------------------------------------------------------
(* The pipeline implements the repository.                                 *)

LEMMA RepositoryParameters == Proved!RepositoryAssumption
  BY ConsolidationAssumption DEF Proved!RepositoryAssumption

\* Only apply writes the repository.
LEMMA RepositoryKept ==
  ASSUME Next
  PROVE  Group \/ UNCHANGED repoVars
<1>1. Feed \/ ReceiveBatch \/ DeadLetter \/ Nightly => UNCHANGED repoVars
  BY DEF Feed, CommitRow, ReceiveRow, ReceiveResolved, ReceiveBatch, Receive, DeadLetter, Nightly
<1>2. PutRow \/ CloseWindow \/ Archive \/ DeleteProcessed => UNCHANGED repoVars
  BY DEF PutRow, CloseWindow, Archive, ArchiveGroup, DeleteProcessed
<1>3. SaveWatermark \/ Return \/ Fail \/ Die => UNCHANGED repoVars
  BY DEF SaveWatermark, Return, Fail, Die
<1> QED BY <1>1, <1>2, <1>3, StepKinds

\* What is applied is a candidate: its outcome is that of the last observation.
LEMMA AppliedCandidate ==
  ASSUME PipelineInv, NEW i \in Incident, ApplyGroup(i)
  PROVE  \E c \in Repository!Candidate :
           /\ Repository!Apply(c) \/ Repository!Noop(c)
           /\ c.incident = i
           /\ \E k \in OutcomesOf(i, job.events) :
                /\ \A j \in OutcomesOf(i, job.events) : j = k \/ Before(j, k)
                /\ c.outcome = rows[k].kind
<1>1. PICK n \in Name, s \in Steps :
        LET c == [name |-> n, incident |-> i, steps |-> s, outcome |-> OutcomeFor(i, job.events)]
        IN Repository!Apply(c) \/ Repository!Noop(c)
  BY DEF ApplyGroup
<1>2. job.pc = "groups" /\ i \in job.todo
  BY DEF ApplyGroup
<1>3. FeedFact /\ job.events \in SUBSET (1..clock)
  BY DEF PipelineInv, JobFact
<1>4. OutcomesOf(i, job.events) # {}
  BY <1>2 DEF PipelineInv, ReadFact, Completed
<1>5. PICK k \in OutcomesOf(i, job.events) :
        /\ \A j \in OutcomesOf(i, job.events) : j = k \/ Before(j, k)
        /\ OutcomeFor(i, job.events) = rows[k].kind
  BY <1>3, <1>4, LastOutcome
<1>6. rows[k].kind \in Outcome
  BY <1>5 DEF OutcomesOf
<1> DEFINE d == [name |-> n, incident |-> i, steps |-> s, outcome |-> OutcomeFor(i, job.events)]
<1>7. d \in Repository!Candidate /\ d.incident = i /\ d.outcome = rows[k].kind
  BY <1>5, <1>6 DEF Repository!Candidate, Outcome
<1>8. Repository!Apply(d) \/ Repository!Noop(d)
  BY <1>1
<1> HIDE DEF d
<1> QED BY <1>5, <1>7, <1>8

LEMMA RepositoryStep == PipelineInv /\ [Next]_vars => [Repository!Next]_(Repository!vars)
<1> SUFFICES ASSUME PipelineInv, [Next]_vars PROVE Repository!Next \/ UNCHANGED Repository!vars
  OBVIOUS
<1>1. UNCHANGED repoVars => UNCHANGED Repository!vars
  BY DEF repoVars, Repository!vars
<1>2. UNCHANGED vars => UNCHANGED repoVars
  BY DEF vars
<1>3. CASE Group
  <2>1. PICK i \in Incident : ApplyGroup(i)
    BY <1>3 DEF Group
  <2>2. PICK c \in Repository!Candidate : Repository!Apply(c) \/ Repository!Noop(c)
    BY <2>1, AppliedCandidate
  <2>3. Repository!Noop(c) => UNCHANGED Repository!vars
    BY DEF Repository!Noop
  <2> QED BY <2>2, <2>3 DEF Repository!Next
<1> QED BY <1>1, <1>2, <1>3, RepositoryKept

\* What the sleep-time pipeline writes into procedural_memory and
\* runbook_provenance is what the repository may do: however rows, windows and
\* nightly runs repeat, every write is one call of apply for one incident with
\* one of the three outcomes.
THEOREM PipelineImplementsRepository == Spec => Repository!Spec
<1>1. Init => Repository!Init
  BY DEF Init
<1> QED BY <1>1, RepositoryStep, PipelineInvariant, PTL DEF Spec, Repository!Spec

\* The two instances of the repository are the same specification.
LEMMA SameRepository == Repository!Spec => Proved!Spec
<1>1. Repository!Init => Proved!Init
  BY DEF Repository!Init, Proved!Init
<1>2. [Repository!Next]_(Repository!vars) => [Proved!Next]_(Proved!vars)
  BY DEF Repository!Next, Proved!Next, Repository!vars, Proved!vars,
         Repository!Candidate, Proved!Candidate, Repository!Apply, Proved!Apply,
         Repository!Weaken, Proved!Weaken, Repository!Create, Proved!Create,
         Repository!Reinforce, Proved!Reinforce, Repository!Use, Proved!Use,
         Repository!Update, Proved!Update, Repository!Record, Proved!Record,
         Repository!Replayed, Proved!Replayed, Repository!Latest, Proved!Latest,
         Repository!Weakened, Proved!Weakened, Repository!Reinforced, Proved!Reinforced,
         Repository!Retire, Proved!Retire, Repository!Draft, Proved!Draft
<1> QED BY <1>1, <1>2, PTL DEF Repository!Spec, Proved!Spec
----------------------------------------------------------------------------
(* What the repository promises holds in the pipeline.                     *)

LEMMA RepositoryIsSound == Spec => [](Repository!TypeOK /\ IncidentCountsOnce)
<1>1. Proved!TypeOK => Repository!TypeOK
  BY DEF Proved!TypeOK, Repository!TypeOK, Proved!Runbook, Repository!Runbook,
         Proved!Provenance, Repository!Provenance
<1>2. Proved!IncidentCountsOnce => IncidentCountsOnce
  BY DEF IncidentCountsOnce, Repository!IncidentCountsOnce, Proved!IncidentCountsOnce
<1>3. Proved!Spec => []Proved!TypeOK
  BY Proved!RepositoryTypeCorrect, RepositoryParameters, PTL
<1>4. Proved!Spec => []Proved!IncidentCountsOnce
  BY Proved!IncidentsCountOnce, RepositoryParameters, PTL
<1> QED BY <1>1, <1>2, <1>3, <1>4, PipelineImplementsRepository, SameRepository, PTL

\* A window that came through the queue finds every row it closes handled,
\* although batches come back and records of them were deleted; the nightly
\* run, repeated windows and dying invocations count no incident twice; and an
\* invocation stays inside its batch.
THEOREM WindowsAreAlwaysSound == Spec => []WindowsAreSound
<1>1. PipelineInv => QueuedWindowIsComplete
  BY DEF PipelineInv, ReadFact, QueuedWindowIsComplete, Handled
<1>2. PipelineInv /\ Repository!TypeOK => TypeOK
  BY DEF PipelineInv, TypeOK, FeedFact, QueueFact, StoreFact, JobFact, Entry
<1> QED BY <1>1, <1>2, PipelineInvariant, RepositoryIsSound, PTL DEF WindowsAreSound

\* The incident's last observation decides whether it counts as a success or as
\* a counterexample (_outcome_for), in whatever order its outcomes were
\* committed, delivered and buffered.
THEOREM LastObservationDecides == Spec => LastObservationCounts
<1>1. ASSUME PipelineInv, Repository!TypeOK, [Next]_vars, provenance' # provenance
      PROVE  LET new == provenance'[Len(provenance')]
                 outcomes == {k \in pending : /\ rows[k].incident = new.incident
                                              /\ rows[k].kind \in Outcome
                                              /\ k <= job.window}
             IN \E k \in outcomes :
                  /\ \A j \in outcomes : rows[j].occurred <= rows[k].occurred
                  /\ new.role # "counterexample" <=> rows[k].kind = "success"
  <2>1. PICK i \in Incident : ApplyGroup(i)
    <3>1. UNCHANGED vars \/ UNCHANGED repoVars => provenance' = provenance
      BY DEF vars, repoVars
    <3> QED BY <1>1, <3>1, RepositoryKept DEF Group
  <2>2. PICK c \in Repository!Candidate :
           /\ Repository!Apply(c) \/ Repository!Noop(c)
           /\ c.incident = i
           /\ \E k \in OutcomesOf(i, job.events) :
                /\ \A j \in OutcomesOf(i, job.events) : j = k \/ Before(j, k)
                /\ c.outcome = rows[k].kind
    BY <1>1, <2>1, AppliedCandidate
  <2>3. PICK k \in OutcomesOf(i, job.events) :
           /\ \A j \in OutcomesOf(i, job.events) : j = k \/ Before(j, k)
           /\ c.outcome = rows[k].kind
    BY <2>2
  <2>4. Repository!Apply(c)
    BY <1>1, <2>2 DEF Repository!Noop, Repository!vars
  <2>5. PICK v, role : /\ Repository!Record(c, v, role)
                       /\ role # "counterexample" <=> c.outcome = "success"
    BY <2>4 DEF Repository!Apply, Repository!Weaken, Repository!Create, Repository!Reinforce
  <2> DEFINE new == provenance'[Len(provenance')]
  <2>6. new.incident = i /\ new.role = role
    <3>1. provenance \in Seq(Repository!Provenance)
      BY <1>1 DEF Repository!TypeOK
    <3>2. new = [name |-> c.name, version |-> v, incident |-> c.incident, role |-> role]
      BY <2>5, <3>1 DEF Repository!Record
    <3> QED BY <2>2, <3>2
  <2> HIDE DEF new
  <2>7. job.pc = "groups" /\ job.events = {l \in pending : l <= job.window}
    BY <1>1, <2>1 DEF ApplyGroup, PipelineInv, ReadFact
  <2>8. OutcomesOf(i, job.events) = {l \in pending : /\ rows[l].incident = new.incident
                                                     /\ rows[l].kind \in Outcome
                                                     /\ l <= job.window}
    BY <2>6, <2>7 DEF OutcomesOf, RowsOf
  <2>9. \A j \in OutcomesOf(i, job.events) : rows[j].occurred \in Nat
    <3>1. \A j \in OutcomesOf(i, job.events) : j \in 1..Len(rows)
      <4>1. job.events \subseteq 1..clock /\ clock \in 0..Len(rows) /\ Len(rows) \in Nat
        BY <1>1 DEF PipelineInv, JobFact, FeedFact
      <4> QED BY <4>1 DEF OutcomesOf, RowsOf
    <3>2. rows \in Seq(Row)
      BY <1>1 DEF PipelineInv, FeedFact
    <3>3. \A j \in OutcomesOf(i, job.events) : rows[j] \in Row
      BY <3>1, <3>2
    <3> QED BY <3>3 DEF Row
  <2>10. \A j \in OutcomesOf(i, job.events) : rows[j].occurred <= rows[k].occurred
    BY <2>3, <2>9 DEF Before
  <2>11. new.role # "counterexample" <=> rows[k].kind = "success"
    BY <2>3, <2>5, <2>6
  <2> QED BY <2>3, <2>8, <2>10, <2>11 DEF new
<1>2. PipelineInv /\ Repository!TypeOK /\ [Next]_vars =>
        [provenance' # provenance =>
           LET new == provenance'[Len(provenance')]
               outcomes == {k \in pending : /\ rows[k].incident = new.incident
                                            /\ rows[k].kind \in Outcome
                                            /\ k <= job.window}
           IN \E k \in outcomes :
                /\ \A j \in outcomes : rows[j].occurred <= rows[k].occurred
                /\ new.role # "counterexample" <=> rows[k].kind = "success"]_vars
  BY <1>1
<1> QED BY <1>2, PipelineInvariant, RepositoryIsSound, PTL DEF Spec, LastObservationCounts

\* The promises of the repository hold for what the pipeline writes: counts are
\* provenance, a live runbook has earned its status, no two versions of one are
\* live, and usage covers the evidence.
THEOREM PipelineRunbooksAreSound ==
  Spec => [](/\ Repository!CountsMatchProvenance /\ Repository!StatusIsEarned
             /\ Repository!OnlyLatestLives /\ Repository!UsageCoversEvidence)
<1>1. Proved!CountsMatchProvenance => Repository!CountsMatchProvenance
  <2>1. \A n, v, roles : Proved!Evidence(n, v, roles) = Repository!Evidence(n, v, roles)
    BY DEF Proved!Evidence, Repository!Evidence
  <2>2. \A S : Proved!Cardinality(S) = Repository!Cardinality(S)
    BY Zenon DEF Proved!Cardinality, Repository!Cardinality
  <2> QED BY <2>1, <2>2 DEF Proved!CountsMatchProvenance, Repository!CountsMatchProvenance
<1>2. Proved!StatusIsEarned => Repository!StatusIsEarned
  BY DEF Proved!StatusIsEarned, Repository!StatusIsEarned
<1>3. Proved!OnlyLatestLives => Repository!OnlyLatestLives
  BY DEF Proved!OnlyLatestLives, Repository!OnlyLatestLives
<1>4. Proved!UsageCoversEvidence => Repository!UsageCoversEvidence
  BY DEF Proved!UsageCoversEvidence, Repository!UsageCoversEvidence
<1>5. Proved!Spec => []Proved!CountsMatchProvenance
  BY Proved!CountsAreProvenance, RepositoryParameters, PTL
<1>6. Proved!Spec => []Proved!StatusIsEarned
  BY Proved!StatusesAreEarned, RepositoryParameters, PTL
<1>7. Proved!Spec => []Proved!OnlyLatestLives
  BY Proved!OnlyTheLatestLives, RepositoryParameters, PTL
<1>8. Proved!Spec => []Proved!UsageCoversEvidence
  BY Proved!UsageAlwaysCovers, RepositoryParameters, PTL
<1> QED BY <1>1, <1>2, <1>3, <1>4, <1>5, <1>6, <1>7, <1>8, PipelineImplementsRepository, SameRepository, PTL
============================================================================
