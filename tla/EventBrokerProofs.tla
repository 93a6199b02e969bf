------------------------- MODULE EventBrokerProofs -------------------------
(***************************************************************************)
(* The safety theorems of EventBroker: for any number of publishers and    *)
(* streams, any ring and any queue.  A stream's feed (what it has shown,   *)
(* what is left of its copy of the ring, its queue) is treated as one      *)
(* sequence, which the steps of the stream itself never change.            *)
(***************************************************************************)
EXTENDS EventBroker, TLAPS

----------------------------------------------------------------------------
(* The inductive invariant.                                                *)

\* The events of one publisher come in the order of their numbers.
Ordered(f) ==
  \A j, k \in DOMAIN f : j < k /\ f[j].by = f[k].by => f[j].n < f[k].n

\* The ring is the end of the log, as much of it as fits.
RingEndsLog ==
  /\ Len(history) = IF Len(log) < HistoryLimit THEN Len(log) ELSE HistoryLimit
  /\ \A i \in 1..Len(history) : history[i] = log[(Len(log) - Len(history)) + i]

\* The log holds no event that its publisher has not numbered yet, every
\* publisher in the middle of its deliveries has numbered one, and no stream
\* has joined in the future.
LogIsNumbered ==
  /\ Ordered(log)
  /\ Len(log) <= MaxEvents
  /\ \A k \in DOMAIN log : log[k].n <= sending[log[k].by].n
  /\ \A p \in Publisher : /\ sending[p].n <= Len(log)
                          /\ sending[p].to # {} => sending[p].n # 0
  /\ \A s \in Stream : joined[s] <= Len(log)

\* A stream is registered exactly while it is open; one that has not started
\* is unknown to everybody.
Registered ==
  /\ \A s \in Stream : s \in subscribers <=> state[s] = "open"
  /\ \A s \in Stream : state[s] = "new" =>
       /\ shown[s] = <<>> /\ backlog[s] = <<>> /\ queue[s] = <<>> /\ shed[s] = {}
       /\ \A p \in Publisher : s \notin sending[p].to

\* A feed is in order, and behind whatever is still on its way to the stream.
FeedFact(s) ==
  /\ Ordered(Feed(s))
  /\ \A k \in DOMAIN Feed(s) :
       /\ Feed(s)[k].n <= sending[Feed(s)[k].by].n
       /\ s \in sending[Feed(s)[k].by].to => Feed(s)[k].n < sending[Feed(s)[k].by].n

FeedFacts == \A s \in Stream : FeedFact(s)

BrokerInv == TypeOK /\ RingEndsLog /\ LogIsNumbered /\ Registered /\ FeedFacts

----------------------------------------------------------------------------
(* Sequences.                                                              *)

LEMMA AppendRight ==
  ASSUME NEW a \in Seq(Event), NEW b \in Seq(Event), NEW e \in Event
  PROVE  a \o Append(b, e) = Append(a \o b, e)
  OBVIOUS

LEMMA MoveHead ==
  ASSUME NEW S, NEW a \in Seq(S), NEW b \in Seq(S), b # <<>>
  PROVE  /\ Append(a, Head(b)) \o Tail(b) = a \o b
         /\ Append(a, Head(b)) \in Seq(S) /\ Tail(b) \in Seq(S)
  OBVIOUS

LEMMA EmptyRight ==
  ASSUME NEW S, NEW a \in Seq(S)
  PROVE  a \o <<>> = a
  OBVIOUS

LEMMA AppendElements ==
  ASSUME NEW S, NEW f \in Seq(S), NEW e \in S
  PROVE  /\ Append(f, e) \in Seq(S)
         /\ Len(Append(f, e)) = Len(f) + 1
         /\ Len(f) \in Nat /\ DOMAIN f = 1..Len(f)
         /\ DOMAIN Append(f, e) = 1..(Len(f) + 1)
         /\ \A k \in DOMAIN f : Append(f, e)[k] = f[k]
         /\ Append(f, e)[Len(f) + 1] = e
  OBVIOUS

LEMMA EventFields ==
  ASSUME NEW f \in Seq(Event), NEW k \in DOMAIN f
  PROVE  f[k] \in Event /\ f[k].by \in Publisher /\ f[k].n \in Nat
<1>1. f[k] \in Event
  OBVIOUS
<1> QED BY <1>1 DEF Event

\* The order survives an event that is newer than its publisher's others.
LEMMA AppendOrdered ==
  ASSUME NEW f \in Seq(Event), NEW e \in Event, Ordered(f),
         \A k \in DOMAIN f : f[k].by = e.by => f[k].n < e.n
  PROVE  Ordered(Append(f, e))
<1>1. SUFFICES ASSUME NEW j \in DOMAIN Append(f, e), NEW k \in DOMAIN Append(f, e),
                      j < k, Append(f, e)[j].by = Append(f, e)[k].by
               PROVE  Append(f, e)[j].n < Append(f, e)[k].n
  BY DEF Ordered
<1>2. j \in DOMAIN f
  BY <1>1, AppendElements
<1>3. k \in DOMAIN f \/ k = Len(f) + 1
  BY <1>1, AppendElements
<1>4. CASE k \in DOMAIN f
  BY <1>1, <1>2, <1>4, AppendElements DEF Ordered
<1>5. CASE k = Len(f) + 1
  BY <1>1, <1>2, <1>5, AppendElements
<1> QED BY <1>3, <1>4, <1>5

----------------------------------------------------------------------------
(* What the steps do to a feed.                                            *)

LEMMA FeedType ==
  ASSUME TypeOK, NEW s \in Stream
  PROVE  /\ shown[s] \in Seq(Event) /\ backlog[s] \in Seq(Event) /\ queue[s] \in Seq(Event)
         /\ shown[s] \o backlog[s] \in Seq(Event) /\ Feed(s) \in Seq(Event)
  BY DEF TypeOK, Feed

\* A publisher that still has a queue to serve delivers an event.
LEMMA CurrentType ==
  ASSUME TypeOK, LogIsNumbered, NEW p \in Publisher, sending[p].to # {}
  PROVE  Current(p) \in Event /\ Current(p).by = p /\ Current(p).n = sending[p].n
  BY DEF TypeOK, LogIsNumbered, Current, Event

\* put_nowait appends to the feed or sheds.
LEMMA PutFeed ==
  ASSUME TypeOK, LogIsNumbered, NEW p \in Publisher, NEW s \in Stream, Put(p, s)
  PROVE  /\ Current(p) \in Event
         /\ \/ /\ Feed(s)' = Append(Feed(s), Current(p))
               /\ queue' = [queue EXCEPT ![s] = Append(queue[s], Current(p))]
               /\ shed' = shed /\ Len(queue[s]) < QueueLimit
            \/ /\ Feed(s)' = Feed(s) /\ queue' = queue
               /\ shed' = [shed EXCEPT ![s] = shed[s] \cup {Current(p)}]
         /\ \A u \in Stream : u # s => Feed(u)' = Feed(u)
         /\ \A q \in Publisher :
              /\ sending'[q].n = sending[q].n
              /\ sending'[q].to = IF q = p THEN sending[p].to \ {s} ELSE sending[q].to
<1>1. Current(p) \in Event
  BY CurrentType DEF Put
<1>2. queue \in [Stream -> Seq(Event)] /\ sending \in [Publisher -> [n : 0..MaxEvents, to : SUBSET Stream]]
  BY DEF TypeOK
<1>3. CASE Len(queue[s]) < QueueLimit
  <2>1. /\ queue' = [queue EXCEPT ![s] = Append(queue[s], Current(p))]
        /\ shown' = shown /\ backlog' = backlog /\ shed' = shed
    BY <1>3 DEF Put
  <2>2. queue'[s] = Append(queue[s], Current(p)) /\ \A u \in Stream : u # s => queue'[u] = queue[u]
    BY <1>2, <2>1
  <2>3. Feed(s)' = Append(Feed(s), Current(p))
    <3>1. (shown[s] \o backlog[s]) \o Append(queue[s], Current(p))
            = Append((shown[s] \o backlog[s]) \o queue[s], Current(p))
      <4>1. shown[s] \o backlog[s] \in Seq(Event) /\ queue[s] \in Seq(Event)
        BY FeedType
      <4> DEFINE a == shown[s] \o backlog[s]
                 b == queue[s]
                 e == Current(p)
      <4>2. a \in Seq(Event) /\ b \in Seq(Event) /\ e \in Event
        BY <1>1, <4>1
      <4> HIDE DEF a, b, e
      <4>3. a \o Append(b, e) = Append(a \o b, e)
        BY <4>2, AppendRight
      <4> QED BY <4>3 DEF a, b, e
    <3> QED BY <2>1, <2>2, <3>1 DEF Feed
  <2>4. \A u \in Stream : u # s => Feed(u)' = Feed(u)
    BY <2>1, <2>2 DEF Feed
  <2> QED BY <1>1, <1>2, <1>3, <2>1, <2>3, <2>4 DEF Put
<1>4. CASE ~(Len(queue[s]) < QueueLimit)
  <2>1. /\ shed' = [shed EXCEPT ![s] = shed[s] \cup {Current(p)}]
        /\ shown' = shown /\ backlog' = backlog /\ queue' = queue
    BY <1>4 DEF Put
  <2>2. \A u \in Stream : Feed(u)' = Feed(u)
    BY <2>1 DEF Feed
  <2> QED BY <1>1, <1>2, <2>1, <2>2 DEF Put
<1> QED BY <1>3, <1>4

\* A subscription starts with the ring.
LEMMA SubscribeFeed ==
  ASSUME TypeOK, Registered, NEW s \in Stream, Subscribe(s)
  PROVE  /\ Feed(s)' = history
         /\ \A u \in Stream : u # s => Feed(u)' = Feed(u)
<1>1. shown[s] = <<>> /\ queue[s] = <<>> /\ history \in Seq(Event)
  BY DEF Registered, Subscribe, TypeOK
<1>2. /\ backlog'[s] = history /\ shown' = shown /\ queue' = queue
      /\ \A u \in Stream : u # s => backlog'[u] = backlog[u]
  BY DEF Subscribe, TypeOK
<1>3. <<>> \o history = history /\ history \o <<>> = history
  BY <1>1
<1>4. Feed(s)' = history
  BY <1>1, <1>2, <1>3 DEF Feed
<1> QED BY <1>2, <1>4 DEF Feed

\* Writing to the response moves the border inside the feed, nothing else.
LEMMA YieldFeed ==
  ASSUME TypeOK, NEW s \in Stream, StreamStep(s)
  PROVE  /\ \A u \in Stream : Feed(u)' = Feed(u)
         /\ shown' \in [Stream -> Seq(Event)]
         /\ backlog' \in [Stream -> Seq(Event)]
         /\ queue' \in [Stream -> Seq(Event)]
         /\ \A u \in Stream : Len(queue'[u]) <= QueueLimit
         /\ \A u \in Stream : u # s => shown'[u] = shown[u] /\ backlog'[u] = backlog[u] /\ queue'[u] = queue[u]
         /\ state[s] = "open"
         /\ UNCHANGED <<history, subscribers, sending, state, shed, log, joined>>
<1>0. /\ shown \in [Stream -> Seq(Event)] /\ backlog \in [Stream -> Seq(Event)]
      /\ queue \in [Stream -> Seq(Event)] /\ \A u \in Stream : Len(queue[u]) <= QueueLimit
  BY DEF TypeOK
<1>1. CASE YieldBacklog(s)
  <2>1. /\ backlog[s] # <<>> /\ state[s] = "open"
        /\ shown' = [shown EXCEPT ![s] = Append(shown[s], Head(backlog[s]))]
        /\ backlog' = [backlog EXCEPT ![s] = Tail(backlog[s])] /\ queue' = queue
        /\ UNCHANGED <<history, subscribers, sending, state, shed, log, joined>>
    BY <1>1 DEF YieldBacklog
  <2>2. /\ Append(shown[s], Head(backlog[s])) \o Tail(backlog[s]) = shown[s] \o backlog[s]
        /\ Append(shown[s], Head(backlog[s])) \in Seq(Event) /\ Tail(backlog[s]) \in Seq(Event)
    BY <2>1, FeedType, MoveHead
  <2>3. /\ shown'[s] = Append(shown[s], Head(backlog[s])) /\ backlog'[s] = Tail(backlog[s])
        /\ \A u \in Stream : u # s => shown'[u] = shown[u] /\ backlog'[u] = backlog[u]
    BY <1>0, <2>1
  <2>4. \A u \in Stream : Feed(u)' = Feed(u)
    BY <2>1, <2>2, <2>3 DEF Feed
  <2>5. shown' \in [Stream -> Seq(Event)] /\ backlog' \in [Stream -> Seq(Event)]
    BY <1>0, <2>1, <2>2
  <2> QED BY <1>0, <2>1, <2>3, <2>4, <2>5
<1>2. CASE YieldLive(s)
  <2>1. /\ backlog[s] = <<>> /\ queue[s] # <<>> /\ state[s] = "open"
        /\ shown' = [shown EXCEPT ![s] = Append(shown[s], Head(queue[s]))]
        /\ queue' = [queue EXCEPT ![s] = Tail(queue[s])] /\ backlog' = backlog
        /\ UNCHANGED <<history, subscribers, sending, state, shed, log, joined>>
    BY <1>2 DEF YieldLive
  <2>2. /\ Append(shown[s], Head(queue[s])) \o Tail(queue[s]) = shown[s] \o queue[s]
        /\ Append(shown[s], Head(queue[s])) \in Seq(Event) /\ Tail(queue[s]) \in Seq(Event)
    BY <2>1, FeedType, MoveHead
  <2>3. /\ shown'[s] = Append(shown[s], Head(queue[s])) /\ queue'[s] = Tail(queue[s])
        /\ \A u \in Stream : u # s => shown'[u] = shown[u] /\ queue'[u] = queue[u]
    BY <1>0, <2>1
  <2>4. shown[s] \o <<>> = shown[s] /\ shown'[s] \o <<>> = shown'[s]
    BY <2>2, <2>3, FeedType, EmptyRight
  <2>5. \A u \in Stream : Feed(u)' = Feed(u)
    BY <2>1, <2>2, <2>3, <2>4 DEF Feed
  <2>6. shown' \in [Stream -> Seq(Event)] /\ queue' \in [Stream -> Seq(Event)]
    BY <1>0, <2>1, <2>2
  <2>7. Len(queue'[s]) <= QueueLimit
    <3>1. Len(Tail(queue[s])) = Len(queue[s]) - 1 /\ Len(queue[s]) \in Nat
      BY <2>1, FeedType
    <3>2. Len(queue[s]) <= QueueLimit /\ QueueLimit \in Nat
      BY <1>0, BrokerAssumption
    <3> QED BY <2>3, <3>1, <3>2
  <2> QED BY <1>0, <2>1, <2>3, <2>5, <2>6, <2>7
<1> QED BY <1>1, <1>2 DEF StreamStep

----------------------------------------------------------------------------
(* The steps preserve the invariant.                                       *)

\* What publish does under the lock.
LEMMA PublishFacts ==
  ASSUME TypeOK, LogIsNumbered, NEW p \in Publisher, Publish(p)
  PROVE  LET e == [by |-> p, n |-> sending[p].n + 1] IN
         /\ e \in Event /\ sending[p].n \in Nat /\ sending[p].n + 1 <= MaxEvents
         /\ sending[p].to = {} /\ Len(log) < MaxEvents
         /\ history' = Ring(history, e) /\ log' = Append(log, e)
         /\ sending'[p].n = sending[p].n + 1 /\ sending'[p].to = subscribers
         /\ \A q \in Publisher : q # p => sending'[q] = sending[q]
         /\ sending' \in [Publisher -> [n : 0..MaxEvents, to : SUBSET Stream]]
         /\ UNCHANGED <<subscribers, state, backlog, queue, shown, shed, joined>>
<1>1. /\ sending \in [Publisher -> [n : 0..MaxEvents, to : SUBSET Stream]]
      /\ log \in Seq(Event) /\ subscribers \subseteq Stream /\ MaxEvents \in Nat
  BY BrokerAssumption DEF TypeOK
<1>2. sending[p].n \in Nat /\ sending[p].n <= Len(log) /\ Len(log) \in Nat /\ Len(log) < MaxEvents
  BY <1>1 DEF LogIsNumbered, Publish
<1>3. sending' = [sending EXCEPT ![p] = [n |-> sending[p].n + 1, to |-> subscribers]]
  BY DEF Publish
<1>4. [n |-> sending[p].n + 1, to |-> subscribers] \in [n : 0..MaxEvents, to : SUBSET Stream]
  BY <1>1, <1>2
<1>5. [by |-> p, n |-> sending[p].n + 1] \in Event
  BY <1>2 DEF Event
<1>6. /\ sending'[p].n = sending[p].n + 1 /\ sending'[p].to = subscribers
      /\ \A q \in Publisher : q # p => sending'[q] = sending[q]
      /\ sending' \in [Publisher -> [n : 0..MaxEvents, to : SUBSET Stream]]
  BY <1>1, <1>3, <1>4
<1> QED BY <1>1, <1>2, <1>5, <1>6 DEF Publish

\* The ring never outgrows its limit and never loses the end of the log.
LEMMA RingStep ==
  ASSUME TypeOK, RingEndsLog, NEW e \in Event, history' = Ring(history, e), log' = Append(log, e)
  PROVE  history' \in Seq(Event) /\ Len(history') <= HistoryLimit /\ RingEndsLog'
<1> DEFINE h == Len(history)
           l == Len(log)
<1>1. /\ history \in Seq(Event) /\ log \in Seq(Event) /\ h \in Nat /\ l \in Nat
      /\ HistoryLimit \in Nat /\ HistoryLimit >= 1
      /\ h = IF l < HistoryLimit THEN l ELSE HistoryLimit
      /\ \A i \in 1..h : history[i] = log[(l - h) + i]
  <2>1. history \in Seq(Event) /\ log \in Seq(Event)
    BY DEF TypeOK
  <2>2. HistoryLimit \in Nat /\ HistoryLimit >= 1
    BY BrokerAssumption
  <2>3. h = (IF l < HistoryLimit THEN l ELSE HistoryLimit) /\ \A i \in 1..h : history[i] = log[(l - h) + i]
    BY DEF RingEndsLog
  <2>4. h \in Nat /\ l \in Nat
    BY <2>1
  <2> HIDE DEF h, l
  <2> QED BY <2>1, <2>2, <2>3, <2>4
<1>2. /\ Len(log') = l + 1 /\ log'[l + 1] = e /\ \A k \in 1..l : log'[k] = log[k]
  BY <1>1, AppendElements
<1>3. CASE h < HistoryLimit
  <2>1. history' = Append(history, e) /\ h = l
    BY <1>1, <1>3 DEF Ring
  <2>2. /\ history' \in Seq(Event) /\ Len(history') = h + 1 /\ history'[h + 1] = e
        /\ \A i \in 1..h : history'[i] = history[i]
    BY <1>1, <2>1, AppendElements
  <2>3. \A i \in 1..(h + 1) : history'[i] = log'[((l + 1) - (h + 1)) + i]
    <3> HIDE DEF h, l
    <3>1. SUFFICES ASSUME NEW i \in 1..(h + 1)
                   PROVE  history'[i] = log'[((l + 1) - (h + 1)) + i]
      OBVIOUS
    <3>2. ((l + 1) - (h + 1)) + i = i /\ (i = h + 1 \/ i \in 1..h)
      BY <1>1, <2>1, <3>1
    <3>3. CASE i = h + 1
      BY <1>2, <2>1, <2>2, <3>2, <3>3
    <3>4. CASE i \in 1..h
      <4>1. (l - h) + i = i
        BY <1>1, <2>1, <3>4
      <4>2. history[i] = log[i]
        BY <1>1, <3>4, <4>1
      <4> QED BY <1>2, <2>1, <2>2, <3>2, <3>4, <4>2
    <3> QED BY <3>2, <3>3, <3>4
  <2>4. h + 1 = (IF l + 1 < HistoryLimit THEN l + 1 ELSE HistoryLimit) /\ h + 1 <= HistoryLimit
    BY <1>1, <1>3, <2>1
  <2> HIDE DEF h, l
  <2> QED BY <1>2, <2>2, <2>3, <2>4 DEF RingEndsLog
<1>4. CASE ~(h < HistoryLimit)
  <2>1. history' = Append(Tail(history), e) /\ h = HistoryLimit /\ l >= HistoryLimit
    BY <1>1, <1>4 DEF Ring
  <2>2. /\ Tail(history) \in Seq(Event) /\ Len(Tail(history)) = h - 1
        /\ \A i \in 1..(h - 1) : Tail(history)[i] = history[i + 1]
    BY <1>1, <2>1
  <2>3. /\ history' \in Seq(Event) /\ Len(history') = h /\ history'[h] = e
        /\ \A i \in 1..(h - 1) : history'[i] = history[i + 1]
    BY <1>1, <2>1, <2>2, AppendElements
  <2>4. \A i \in 1..h : history'[i] = log'[((l + 1) - h) + i]
    <3>1. SUFFICES ASSUME NEW i \in 1..h PROVE history'[i] = log'[((l + 1) - h) + i]
      OBVIOUS
    <3>2. CASE i = h
      BY <1>1, <1>2, <2>3, <3>2
    <3>3. CASE i # h
      <4>1. i \in 1..(h - 1) /\ i + 1 \in 1..h /\ (l - h) + (i + 1) \in 1..l
        BY <1>1, <2>1, <3>3
      <4>2. history'[i] = log[(l - h) + (i + 1)]
        BY <1>1, <2>3, <4>1
      <4>3. (l - h) + (i + 1) = ((l + 1) - h) + i
        BY <1>1, <4>1
      <4> QED BY <1>2, <4>1, <4>2, <4>3
    <3> QED BY <3>2, <3>3
  <2>5. h = (IF l + 1 < HistoryLimit THEN l + 1 ELSE HistoryLimit) /\ h <= HistoryLimit
    BY <1>1, <2>1
  <2> HIDE DEF h, l
  <2> QED BY <1>2, <2>3, <2>4, <2>5 DEF RingEndsLog
<1> QED BY <1>3, <1>4

LEMMA PublishInv ==
  ASSUME BrokerInv, NEW p \in Publisher, Publish(p)
  PROVE  BrokerInv'
<1> USE DEF BrokerInv
<1> DEFINE e == [by |-> p, n |-> sending[p].n + 1]
<1>1. /\ e \in Event /\ e.by = p /\ e.n = sending[p].n + 1
      /\ sending[p].n \in Nat /\ sending[p].n + 1 <= MaxEvents
      /\ sending[p].to = {} /\ Len(log) < MaxEvents
      /\ history' = Ring(history, e) /\ log' = Append(log, e)
      /\ sending'[p].n = sending[p].n + 1 /\ sending'[p].to = subscribers
      /\ \A q \in Publisher : q # p => sending'[q] = sending[q]
      /\ sending' \in [Publisher -> [n : 0..MaxEvents, to : SUBSET Stream]]
      /\ UNCHANGED <<subscribers, state, backlog, queue, shown, shed, joined>>
  BY PublishFacts
<1> HIDE DEF e
<1>2. history' \in Seq(Event) /\ Len(history') <= HistoryLimit /\ RingEndsLog'
  BY <1>1, RingStep
<1>3. log \in Seq(Event) /\ log' \in Seq(Event)
  BY <1>1, AppendElements DEF TypeOK
<1>4. TypeOK'
  BY <1>1, <1>2, <1>3 DEF TypeOK
<1>5. LogIsNumbered'
  <2>1. \A k \in DOMAIN log : log[k] \in Event /\ log[k].by \in Publisher /\ log[k].n \in Nat
    BY <1>3, EventFields
  <2>2. \A q \in Publisher : sending[q].n \in Nat /\ sending[q].n <= sending'[q].n
    <3>1. \A q \in Publisher : sending[q].n \in Nat
      BY DEF TypeOK
    <3> QED BY <1>1, <3>1
  <2>3. \A k \in DOMAIN log : log[k].n <= sending'[log[k].by].n
    <3>1. SUFFICES ASSUME NEW k \in DOMAIN log PROVE log[k].n <= sending'[log[k].by].n
      OBVIOUS
    <3>2. PICK q \in Publisher : log[k].by = q
      BY <2>1
    <3>3. log[k].n \in Nat /\ log[k].n <= sending[q].n /\ sending[q].n \in Nat /\ sending'[q].n \in Nat
      BY <1>1, <2>1, <2>2, <3>2 DEF LogIsNumbered
    <3> QED BY <2>2, <3>2, <3>3
  <2>4. \A k \in DOMAIN log : log[k].by = p => log[k].n < e.n
    <3>1. SUFFICES ASSUME NEW k \in DOMAIN log, log[k].by = p PROVE log[k].n < e.n
      OBVIOUS
    <3>2. log[k].n \in Nat /\ log[k].n <= sending[p].n
      BY <2>1, <3>1 DEF LogIsNumbered
    <3> QED BY <1>1, <3>2
  <2>5. Ordered(log')
    BY <1>1, <1>3, <2>4, AppendOrdered DEF LogIsNumbered
  <2>6. /\ Len(log) \in Nat /\ Len(log') = Len(log) + 1
        /\ DOMAIN log' = DOMAIN log \cup {Len(log) + 1}
        /\ \A k \in DOMAIN log : log'[k] = log[k]
        /\ log'[Len(log) + 1] = e
    <3>1. DOMAIN log' = 1..(Len(log) + 1) /\ DOMAIN log = 1..Len(log) /\ Len(log) \in Nat
      BY <1>1, <1>3, AppendElements
    <3>2. 1..(Len(log) + 1) = (1..Len(log)) \cup {Len(log) + 1}
      BY <3>1
    <3> QED BY <1>1, <1>3, <3>1, <3>2, AppendElements
  <2>7. \A k \in DOMAIN log' : log'[k].n <= sending'[log'[k].by].n
    BY <1>1, <2>3, <2>6
  <2>8. \A q \in Publisher : sending'[q].n <= Len(log')
    <3>1. \A q \in Publisher : sending[q].n <= Len(log) /\ sending[q].n \in Nat
      BY <2>2 DEF LogIsNumbered
    <3> QED BY <1>1, <2>6, <3>1
  <2>9. \A q \in Publisher : sending'[q].to # {} => sending'[q].n # 0
    <3>1. \A q \in Publisher : sending[q].to # {} => sending[q].n # 0
      BY DEF LogIsNumbered
    <3> QED BY <1>1, <3>1
  <2>10. Len(log') <= MaxEvents
    BY <1>1, <2>6, BrokerAssumption
  <2>11. \A s \in Stream : joined'[s] <= Len(log')
    <3>1. \A s \in Stream : joined[s] \in Nat /\ joined[s] <= Len(log)
      BY DEF TypeOK, LogIsNumbered
    <3> QED BY <1>1, <2>6, <3>1
  <2> QED BY <2>5, <2>7, <2>8, <2>9, <2>10, <2>11 DEF LogIsNumbered
<1>6. Registered'
  BY <1>1 DEF Registered
<1>7. FeedFacts'
  <2>1. SUFFICES ASSUME NEW s \in Stream PROVE FeedFact(s)'
    BY DEF FeedFacts
  <2>2. Feed(s)' = Feed(s)
    BY <1>1 DEF Feed
  <2> DEFINE f == Feed(s)
  <2>3. f \in Seq(Event) /\ FeedFact(s)
    BY FeedType DEF FeedFacts
  <2>4. ASSUME NEW k \in DOMAIN f
        PROVE  /\ f[k].n <= sending'[f[k].by].n
               /\ s \in sending'[f[k].by].to => f[k].n < sending'[f[k].by].n
    <3>1. f[k].n \in Nat /\ f[k].by \in Publisher
      BY <2>3, EventFields
    <3>2. /\ f[k].n <= sending[f[k].by].n
          /\ s \in sending[f[k].by].to => f[k].n < sending[f[k].by].n
      BY <2>3 DEF FeedFact
    <3> HIDE DEF f
    <3>3. CASE f[k].by = p
      BY <1>1, <3>1, <3>2, <3>3
    <3>4. CASE f[k].by # p
      <4>1. sending'[f[k].by] = sending[f[k].by]
        BY <1>1, <3>1, <3>4
      <4> QED BY <3>2, <4>1
    <3> QED BY <3>3, <3>4
  <2> HIDE DEF f
  <2>5. Ordered(f)
    BY <2>3 DEF FeedFact, f
  <2>6. f' = f
    BY <2>2 DEF f
  <2> QED BY <2>2, <2>4, <2>5 DEF FeedFact, f
<1> QED BY <1>2, <1>4, <1>5, <1>6, <1>7

LEMMA PutInv ==
  ASSUME BrokerInv, NEW p \in Publisher, NEW s \in Stream, Put(p, s)
  PROVE  BrokerInv'
<1> USE DEF BrokerInv
<1> DEFINE e == Current(p)
<1>0. e.by = p /\ e.n = sending[p].n /\ sending[p].n \in Nat /\ s \in sending[p].to
  BY CurrentType DEF Put, TypeOK
<1>1. /\ e \in Event
      /\ \/ /\ Feed(s)' = Append(Feed(s), e)
            /\ queue' = [queue EXCEPT ![s] = Append(queue[s], e)]
            /\ shed' = shed /\ Len(queue[s]) < QueueLimit
         \/ /\ Feed(s)' = Feed(s) /\ queue' = queue
            /\ shed' = [shed EXCEPT ![s] = shed[s] \cup {e}]
      /\ \A u \in Stream : u # s => Feed(u)' = Feed(u)
      /\ \A q \in Publisher :
           /\ sending'[q].n = sending[q].n
           /\ sending'[q].to = IF q = p THEN sending[p].to \ {s} ELSE sending[q].to
  BY PutFeed
<1>2. UNCHANGED <<history, subscribers, state, backlog, shown, log, joined>>
  BY DEF Put
<1> HIDE DEF e
<1>3. TypeOK'
  <2>1. sending' \in [Publisher -> [n : 0..MaxEvents, to : SUBSET Stream]]
    <3>1. sending \in [Publisher -> [n : 0..MaxEvents, to : SUBSET Stream]]
      BY DEF TypeOK
    <3>2. sending' = [sending EXCEPT ![p] = [sending[p] EXCEPT !.to = sending[p].to \ {s}]]
      BY DEF Put
    <3>3. sending[p] \in [n : 0..MaxEvents, to : SUBSET Stream]
      BY <3>1
    <3>4. [sending[p] EXCEPT !.to = sending[p].to \ {s}] \in [n : 0..MaxEvents, to : SUBSET Stream]
      BY <3>3
    <3> QED BY <3>1, <3>2, <3>4
  <2>2. queue' \in [Stream -> Seq(Event)] /\ \A u \in Stream : Len(queue'[u]) <= QueueLimit
    <3>1. queue \in [Stream -> Seq(Event)] /\ \A u \in Stream : Len(queue[u]) <= QueueLimit
      BY DEF TypeOK
    <3>2. CASE queue' = [queue EXCEPT ![s] = Append(queue[s], e)] /\ Len(queue[s]) < QueueLimit
      <4>1. /\ Append(queue[s], e) \in Seq(Event) /\ Len(Append(queue[s], e)) = Len(queue[s]) + 1
            /\ Len(queue[s]) \in Nat
        BY <1>1, <3>1, AppendElements
      <4>2. Len(Append(queue[s], e)) <= QueueLimit
        BY <3>2, <4>1, BrokerAssumption
      <4> QED BY <3>1, <3>2, <4>1, <4>2
    <3> QED BY <1>1, <3>1, <3>2
  <2>3. shed' \in [Stream -> SUBSET Event]
    <3>1. shed \in [Stream -> SUBSET Event] /\ shed[s] \cup {e} \in SUBSET Event
      BY <1>1 DEF TypeOK
    <3> QED BY <1>1, <3>1
  <2> QED BY <1>2, <2>1, <2>2, <2>3 DEF TypeOK
<1>4. RingEndsLog'
  BY <1>2 DEF RingEndsLog
<1>5. LogIsNumbered'
  <2>1. \A k \in DOMAIN log : log[k].by \in Publisher
    BY EventFields DEF TypeOK
  <2>2. \A q \in Publisher : sending'[q].to # {} => sending[q].to # {}
    BY <1>1
  <2> QED BY <1>1, <1>2, <2>1, <2>2 DEF LogIsNumbered, Ordered
<1>6. Registered'
  <2>1. state[s] # "new"
    BY <1>0 DEF Registered
  <2>2. queue \in [Stream -> Seq(Event)] /\ shed \in [Stream -> SUBSET Event]
    BY DEF TypeOK
  <2>3. \A u \in Stream : u # s => queue'[u] = queue[u] /\ shed'[u] = shed[u]
    BY <1>1, <2>2
  <2> QED BY <1>1, <1>2, <2>1, <2>3 DEF Registered
<1>7. FeedFacts'
  <2>1. SUFFICES ASSUME NEW u \in Stream PROVE FeedFact(u)'
    BY DEF FeedFacts
  <2> DEFINE f == Feed(u)
  <2>2. f \in Seq(Event)
    BY FeedType
  <2>3. /\ Ordered(f)
        /\ \A k \in DOMAIN f : /\ f[k].n <= sending[f[k].by].n
                               /\ u \in sending[f[k].by].to => f[k].n < sending[f[k].by].n
    BY DEF FeedFacts, FeedFact
  <2>4. \A k \in DOMAIN f : f[k].by \in Publisher /\ f[k].n \in Nat
    BY <2>2, EventFields
  <2>5. \A k \in DOMAIN f : /\ f[k].n <= sending'[f[k].by].n
                            /\ u \in sending'[f[k].by].to => f[k].n < sending'[f[k].by].n
    BY <1>1, <2>3, <2>4
  <2> HIDE DEF f
  <2>6. CASE Feed(u)' = f
    BY <2>3, <2>5, <2>6 DEF FeedFact
  <2>7. CASE u = s /\ Feed(u)' = Append(f, e)
    <3> DEFINE g == Append(f, e)
    <3>1. \A k \in DOMAIN f : f[k].by = e.by => f[k].n < e.n
      BY <1>0, <2>3, <2>7
    <3>2. Ordered(g)
      BY <1>1, <2>2, <2>3, <3>1, AppendOrdered
    <3>3. /\ Len(f) \in Nat /\ DOMAIN f = 1..Len(f) /\ DOMAIN g = 1..(Len(f) + 1)
          /\ \A k \in DOMAIN f : g[k] = f[k]
          /\ g[Len(f) + 1] = e
      BY <1>1, <2>2, AppendElements
    <3>4. \A k \in DOMAIN g : k \in DOMAIN f \/ k = Len(f) + 1
      BY <3>3
    <3>5. e.n <= sending'[e.by].n /\ s \notin sending'[e.by].to
      BY <1>0, <1>1
    <3> HIDE DEF g
    <3>6. \A k \in DOMAIN g : /\ g[k].n <= sending'[g[k].by].n
                              /\ u \in sending'[g[k].by].to => g[k].n < sending'[g[k].by].n
      BY <2>5, <2>7, <3>3, <3>4, <3>5
    <3>7. Feed(u)' = g
      BY <2>7 DEF g
    <3> QED BY <3>2, <3>6, <3>7 DEF FeedFact
  <2> QED BY <1>1, <2>6, <2>7 DEF f
<1> QED BY <1>3, <1>4, <1>5, <1>6, <1>7

LEMMA SubscribeInv ==
  ASSUME BrokerInv, NEW s \in Stream, Subscribe(s)
  PROVE  BrokerInv'
<1> USE DEF BrokerInv
<1>1. UNCHANGED <<history, sending, queue, shown, shed, log>> /\ state[s] = "new"
  BY DEF Subscribe
<1>2. TypeOK'
  BY DEF TypeOK, Subscribe
<1>3. RingEndsLog' /\ LogIsNumbered'
  <2>1. \A u \in Stream : joined'[u] = IF u = s THEN Len(log) ELSE joined[u]
    BY DEF Subscribe, TypeOK
  <2>2. Len(log) \in Nat /\ \A u \in Stream : joined[u] <= Len(log)
    BY DEF TypeOK, LogIsNumbered
  <2>3. \A u \in Stream : joined'[u] <= Len(log)
    BY <2>1, <2>2
  <2> QED BY <1>1, <2>3 DEF RingEndsLog, LogIsNumbered, Ordered
<1>4. Registered'
  BY DEF Registered, Subscribe, TypeOK
<1>5. FeedFacts'
  <2>1. \A u \in Stream : u # s => FeedFact(u)'
    BY <1>1, SubscribeFeed DEF FeedFacts, FeedFact, Ordered
  <2>2. history \in Seq(Event) /\ log \in Seq(Event) /\ Len(history) <= Len(log)
    <3>1. history \in Seq(Event) /\ log \in Seq(Event)
      BY DEF TypeOK
    <3>2. HistoryLimit \in Nat
      BY BrokerAssumption
    <3>3. Len(history) = IF Len(log) < HistoryLimit THEN Len(log) ELSE HistoryLimit
      BY DEF RingEndsLog
    <3> QED BY <3>1, <3>2, <3>3
  <2> DEFINE At(i) == (Len(log) - Len(history)) + i
  <2>3. \A i \in DOMAIN history : At(i) \in DOMAIN log /\ history[i] = log[At(i)]
    <3>1. \A i \in 1..Len(history) : history[i] = log[At(i)]
      BY DEF RingEndsLog
    <3>2. \A i \in 1..Len(history) : At(i) \in 1..Len(log)
      BY <2>2
    <3> HIDE DEF At
    <3> QED BY <2>2, <3>1, <3>2
  <2>4. \A i, j \in DOMAIN history : i < j => At(i) < At(j)
    BY <2>2
  <2> HIDE DEF At
  <2>5. Ordered(history)
    BY <2>3, <2>4 DEF LogIsNumbered, Ordered
  <2>6. \A i \in DOMAIN history : history[i].n <= sending[history[i].by].n
    BY <2>3 DEF LogIsNumbered
  <2>7. \A i \in DOMAIN history : s \notin sending[history[i].by].to
    BY <1>1, <2>2, EventFields DEF Registered
  <2>8. FeedFact(s)'
    BY <1>1, <2>5, <2>6, <2>7, SubscribeFeed DEF FeedFact
  <2> QED BY <2>1, <2>8 DEF FeedFacts
<1> QED BY <1>2, <1>3, <1>4, <1>5

LEMMA YieldInv ==
  ASSUME BrokerInv, NEW s \in Stream, StreamStep(s)
  PROVE  BrokerInv'
<1> USE DEF BrokerInv
<1>1. TypeOK'
  BY YieldFeed DEF TypeOK
<1>2. RingEndsLog' /\ LogIsNumbered'
  BY YieldFeed DEF RingEndsLog, LogIsNumbered, Ordered
<1>3. Registered'
  BY YieldFeed DEF Registered
<1>4. FeedFacts'
  BY YieldFeed DEF FeedFacts, FeedFact
<1> QED BY <1>1, <1>2, <1>3, <1>4

LEMMA DisconnectInv ==
  ASSUME BrokerInv, NEW s \in Stream, Disconnect(s)
  PROVE  BrokerInv'
<1> USE DEF BrokerInv
<1>1. UNCHANGED <<history, sending, backlog, queue, shown, shed, log, joined>>
  BY DEF Disconnect
<1>2. TypeOK'
  BY DEF TypeOK, Disconnect
<1>3. RingEndsLog' /\ LogIsNumbered'
  BY <1>1 DEF RingEndsLog, LogIsNumbered, Ordered
<1>4. Registered'
  BY DEF Registered, Disconnect, TypeOK
<1>5. FeedFacts'
  <2>1. \A u \in Stream : Feed(u)' = Feed(u)
    BY <1>1 DEF Feed
  <2> QED BY <1>1, <2>1 DEF FeedFacts, FeedFact
<1> QED BY <1>2, <1>3, <1>4, <1>5

LEMMA NextBrokerInv ==
  ASSUME BrokerInv, [Next]_vars
  PROVE  BrokerInv'
<1>1. CASE UNCHANGED vars
  <2>1. \A u \in Stream : Feed(u)' = Feed(u)
    BY <1>1 DEF vars, Feed
  <2>2. FeedFacts'
    BY <1>1, <2>1 DEF vars, BrokerInv, FeedFacts, FeedFact
  <2>3. TypeOK'
    BY <1>1 DEF vars, BrokerInv, TypeOK
  <2>4. RingEndsLog' /\ LogIsNumbered' /\ Registered'
    BY <1>1 DEF vars, BrokerInv, RingEndsLog, LogIsNumbered, Registered, Ordered
  <2> QED BY <2>2, <2>3, <2>4 DEF BrokerInv
<1>2. CASE Next
  BY <1>2, PublishInv, PutInv, SubscribeInv, YieldInv, DisconnectInv DEF Next, PutNext
<1> QED BY <1>1, <1>2

LEMMA InitBrokerInv == Init => BrokerInv
<1> SUFFICES ASSUME Init PROVE BrokerInv
  OBVIOUS
<1> USE BrokerAssumption DEF Init
<1>1. TypeOK
  BY DEF TypeOK
<1>2. RingEndsLog /\ LogIsNumbered
  BY DEF RingEndsLog, LogIsNumbered, Ordered
<1>3. Registered
  BY DEF Registered
<1>4. FeedFacts
  <2>1. \A s \in Stream : Feed(s) = <<>>
    BY DEF Feed
  <2> QED BY <2>1 DEF FeedFacts, FeedFact, Ordered
<1> QED BY <1>1, <1>2, <1>3, <1>4 DEF BrokerInv

\* An ordered feed that is behind what is in flight holds nothing twice.
LEMMA InvFeedInOrder == BrokerInv => FeedInOrder
<1> SUFFICES ASSUME BrokerInv PROVE FeedInOrder
  OBVIOUS
<1> USE DEF BrokerInv
<1>1. ASSUME NEW s \in Stream PROVE Ordered(Feed(s)) /\ Range(Feed(s)) \cap InFlight(s) = {}
             /\ \A j, k \in DOMAIN Feed(s) : Feed(s)[j] = Feed(s)[k] => j = k
  <2> DEFINE f == Feed(s)
  <2>1. f \in Seq(Event)
    BY FeedType
  <2>2. Ordered(f) /\ \A k \in DOMAIN f : s \in sending[f[k].by].to => f[k].n < sending[f[k].by].n
    BY DEF FeedFacts, FeedFact
  <2> HIDE DEF f
  <2>3. \A k \in DOMAIN f : k \in Nat /\ f[k].n \in Nat /\ ~(f[k].n < f[k].n)
    BY <2>1, EventFields
  <2>4. \A j, k \in DOMAIN f : f[j] = f[k] => j = k
    <3>1. SUFFICES ASSUME NEW j \in DOMAIN f, NEW k \in DOMAIN f, f[j] = f[k], j # k PROVE FALSE
      OBVIOUS
    <3>2. j < k \/ k < j
      BY <2>3, <3>1
    <3> QED BY <2>2, <2>3, <3>1, <3>2 DEF Ordered
  <2>5. ASSUME NEW k \in DOMAIN f, NEW q \in Publisher, s \in sending[q].to, f[k] = Current(q) PROVE FALSE
    <3>1. f[k].by = q /\ f[k].n = sending[q].n
      BY <2>5 DEF Current
    <3> QED BY <2>2, <2>3, <2>5, <3>1
  <2>6. Range(f) \cap InFlight(s) = {}
    BY <2>5 DEF Range, InFlight
  <2> QED BY <2>2, <2>4, <2>6 DEF f
<1>2. ShownOnce
  BY <1>1 DEF ShownOnce
<1>3. PublisherOrder
  BY <1>1 DEF PublisherOrder, Ordered
<1> QED BY <1>2, <1>3 DEF FeedInOrder

\* Nothing is shown twice and every publisher's events stay in order, for any
\* interleaving of publishers, subscriptions and disconnects, also when a
\* subscription starts in the middle of a delivery and when queues overflow.
THEOREM FeedsAreInOrder == Spec => []FeedInOrder
<1>1. BrokerInv /\ [Next]_vars => BrokerInv'
  BY NextBrokerInv
<1> QED BY <1>1, InitBrokerInv, InvFeedInOrder, PTL DEF Spec

----------------------------------------------------------------------------
(* Nothing is missed.                                                      *)

\* The events a stream owes its client: those in the ring when it joined, and
\* everything published since.
Owed(s) == {log[k] : k \in {j \in DOMAIN log : j + HistoryLimit > joined[s]}}

Covered(s) == Owed(s) = Range(Feed(s)) \cup InFlight(s) \cup shed[s]

\* The ring at the moment of a subscription is exactly what the stream owes.
LEMMA RingIsOwed ==
  ASSUME BrokerInv
  PROVE  {log[k] : k \in {j \in DOMAIN log : j + HistoryLimit > Len(log)}} = Range(history)
<1>1. /\ history \in Seq(Event) /\ log \in Seq(Event)
      /\ HistoryLimit \in Nat /\ HistoryLimit >= 1
  BY BrokerAssumption DEF BrokerInv, TypeOK
<1> DEFINE h == Len(history)
           l == Len(log)
<1>2. h \in Nat /\ l \in Nat /\ DOMAIN history = 1..h /\ DOMAIN log = 1..l
  BY <1>1
<1>3. /\ h = IF l < HistoryLimit THEN l ELSE HistoryLimit
      /\ \A i \in 1..h : history[i] = log[(l - h) + i]
  BY DEF BrokerInv, RingEndsLog
<1> HIDE DEF h, l
<1>4. ASSUME NEW k \in 1..l, k + HistoryLimit > l PROVE log[k] \in Range(history)
  <2>1. k - (l - h) \in 1..h /\ (l - h) + (k - (l - h)) = k
    BY <1>1, <1>2, <1>3, <1>4
  <2>2. history[k - (l - h)] = log[k]
    BY <1>3, <2>1
  <2> QED BY <1>2, <2>1, <2>2 DEF Range
<1>5. ASSUME NEW i \in 1..h
      PROVE  (l - h) + i \in 1..l /\ ((l - h) + i) + HistoryLimit > l /\ history[i] = log[(l - h) + i]
  BY <1>1, <1>2, <1>3
<1>6. Range(history) \subseteq {log[k] : k \in {j \in DOMAIN log : j + HistoryLimit > l}}
  BY <1>2, <1>5 DEF Range
<1>7. {log[k] : k \in {j \in DOMAIN log : j + HistoryLimit > l}} \subseteq Range(history)
  BY <1>2, <1>4
<1> QED BY <1>6, <1>7 DEF l

\* A new event is owed by, and on its way to, every open stream.
LEMMA PublishCovers ==
  ASSUME BrokerInv, NEW p \in Publisher, Publish(p), NEW s \in Stream, state[s] = "open", Covered(s)
  PROVE  Covered(s)'
<1> USE DEF BrokerInv
<1> DEFINE e == [by |-> p, n |-> sending[p].n + 1]
<1>1. /\ e \in Event /\ sending[p].to = {} /\ log' = Append(log, e)
      /\ sending'[p].n = sending[p].n + 1 /\ sending'[p].to = subscribers
      /\ \A q \in Publisher : q # p => sending'[q] = sending[q]
      /\ UNCHANGED <<subscribers, state, backlog, queue, shown, shed, joined>>
  BY PublishFacts
<1>2. s \in subscribers
  BY DEF Registered
<1>3. InFlight(s)' = InFlight(s) \cup {e}
  <2>1. Current(p)' = e
    BY <1>1 DEF Current
  <2>2. \A q \in Publisher : q # p => Current(q)' = Current(q)
    BY <1>1 DEF Current
  <2>3. s \in sending'[p].to /\ s \notin sending[p].to
    BY <1>1, <1>2
  <2> HIDE DEF e
  <2>4. \A q \in Publisher : s \in sending'[q].to <=> (q = p \/ s \in sending[q].to)
    BY <1>1, <2>3
  <2> QED BY <2>1, <2>2, <2>3, <2>4 DEF InFlight
<1> HIDE DEF e
<1>4. Owed(s)' = Owed(s) \cup {e}
  <2>1. /\ Len(log) \in Nat /\ DOMAIN log = 1..Len(log)
        /\ DOMAIN log' = 1..(Len(log) + 1)
        /\ \A k \in DOMAIN log : log'[k] = log[k]
        /\ log'[Len(log) + 1] = e
    BY <1>1, AppendElements DEF TypeOK
  <2>2. DOMAIN log' = DOMAIN log \cup {Len(log) + 1}
    BY <2>1
  <2>3. joined'[s] = joined[s] /\ joined[s] \in Nat /\ joined[s] <= Len(log) /\ HistoryLimit \in Nat
    BY <1>1, BrokerAssumption DEF TypeOK, LogIsNumbered
  <2>4. (Len(log) + 1) + HistoryLimit > joined'[s]
    BY <2>1, <2>3
  <2> QED BY <2>1, <2>2, <2>3, <2>4 DEF Owed
<1>5. Feed(s)' = Feed(s) /\ shed'[s] = shed[s]
  BY <1>1 DEF Feed
<1> QED BY <1>3, <1>4, <1>5 DEF Covered, Range

\* put_nowait takes an event from the way to the queue, or to what was shed.
LEMMA PutCovers ==
  ASSUME BrokerInv, NEW p \in Publisher, NEW s \in Stream, Put(p, s), NEW u \in Stream, Covered(u)
  PROVE  Covered(u)'
<1> USE DEF BrokerInv
<1> DEFINE e == Current(p)
<1>1. /\ e \in Event
      /\ \/ /\ Feed(s)' = Append(Feed(s), e) /\ shed' = shed
         \/ /\ Feed(s)' = Feed(s) /\ shed' = [shed EXCEPT ![s] = shed[s] \cup {e}]
      /\ \A v \in Stream : v # s => Feed(v)' = Feed(v)
      /\ \A q \in Publisher :
           /\ sending'[q].n = sending[q].n
           /\ sending'[q].to = IF q = p THEN sending[p].to \ {s} ELSE sending[q].to
  BY PutFeed
<1>2. s \in sending[p].to /\ log' = log /\ joined' = joined
  BY DEF Put
<1>3. \A q \in Publisher : Current(q)' = Current(q)
  BY <1>1 DEF Current
<1>4. Owed(u)' = Owed(u)
  BY <1>2 DEF Owed
<1>5. CASE u # s
  <2>1. InFlight(u)' = InFlight(u)
    BY <1>1, <1>3, <1>5 DEF InFlight
  <2>2. Feed(u)' = Feed(u) /\ shed'[u] = shed[u]
    BY <1>1, <1>5 DEF TypeOK
  <2> QED BY <1>4, <2>1, <2>2 DEF Covered, Range
<1>6. CASE u = s
  <2>1. InFlight(s) = InFlight(s)' \cup {e}
    <3> HIDE DEF e
    <3>1. \A q \in Publisher : s \in sending[q].to <=> (q = p \/ s \in sending'[q].to)
      BY <1>1, <1>2
    <3>2. e = Current(p)
      BY DEF e
    <3> QED BY <1>3, <3>1, <3>2 DEF InFlight
  <2> HIDE DEF e
  <2>2. CASE Feed(s)' = Append(Feed(s), e) /\ shed' = shed
    <3>1. Range(Append(Feed(s), e)) = Range(Feed(s)) \cup {e}
      <4>1. Feed(s) \in Seq(Event)
        BY FeedType
      <4> DEFINE f == Feed(s)
      <4> HIDE DEF f
      <4>2. /\ Len(f) \in Nat /\ DOMAIN f = 1..Len(f)
            /\ DOMAIN Append(f, e) = 1..(Len(f) + 1)
            /\ \A k \in DOMAIN f : Append(f, e)[k] = f[k]
            /\ Append(f, e)[Len(f) + 1] = e
        BY <1>1, <4>1, AppendElements DEF f
      <4>3. DOMAIN Append(f, e) = DOMAIN f \cup {Len(f) + 1}
        BY <4>2
      <4>4. Range(Append(f, e)) = Range(f) \cup {e}
        BY <4>2, <4>3 DEF Range
      <4> QED BY <4>4 DEF f
    <3>2. Range(Feed(s))' = Range(Feed(s)) \cup {e}
      BY <2>2, <3>1 DEF Range
    <3> QED BY <1>4, <1>6, <2>1, <2>2, <3>2 DEF Covered
  <2>3. CASE Feed(s)' = Feed(s) /\ shed' = [shed EXCEPT ![s] = shed[s] \cup {e}]
    <3>1. shed'[s] = shed[s] \cup {e}
      BY <2>3 DEF TypeOK
    <3>2. Range(Feed(s))' = Range(Feed(s))
      BY <2>3 DEF Range
    <3> QED BY <1>4, <1>6, <2>1, <3>1, <3>2 DEF Covered
  <2> QED BY <1>1, <2>2, <2>3
<1> QED BY <1>5, <1>6

LEMMA NextNothingMissed ==
  ASSUME BrokerInv, NothingMissed, [Next]_vars
  PROVE  NothingMissed'
<1>1. SUFFICES ASSUME NEW u \in Stream, state'[u] = "open" PROVE Covered(u)'
  BY DEF NothingMissed, Covered, Owed
<1>2. state[u] = "open" => Covered(u)
  BY DEF NothingMissed, Covered, Owed
<1>3. ASSUME state[u] = "open", Feed(u)' = Feed(u),
             UNCHANGED <<sending, log>>, joined'[u] = joined[u], shed'[u] = shed[u]
      PROVE  Covered(u)'
  BY <1>2, <1>3 DEF Covered, Owed, Range, InFlight, Current
<1>4. ASSUME NEW p \in Publisher, Publish(p) PROVE Covered(u)'
  BY <1>1, <1>2, <1>4, PublishCovers DEF Publish
<1>5. ASSUME NEW p \in Publisher, NEW s \in Stream, Put(p, s) PROVE Covered(u)'
  BY <1>1, <1>2, <1>5, PutCovers DEF Put
<1>6. ASSUME NEW s \in Stream, Subscribe(s) PROVE Covered(u)'
  <2>1. CASE u # s
    <3>1. state[u] = "open" /\ joined'[u] = joined[u]
      BY <1>1, <1>6, <2>1 DEF Subscribe, BrokerInv, TypeOK
    <3> QED BY <1>3, <1>6, <2>1, <3>1, SubscribeFeed DEF Subscribe, BrokerInv
  <2>2. CASE u = s
    <3>1. joined'[s] = Len(log) /\ UNCHANGED <<sending, log, shed>> /\ state[s] = "new"
      BY <1>6 DEF Subscribe, BrokerInv, TypeOK
    <3>2. shed[s] = {} /\ InFlight(s) = {}
      BY <3>1 DEF BrokerInv, Registered, InFlight
    <3>3. InFlight(s)' = InFlight(s)
      BY <3>1 DEF InFlight, Current
    <3>4. Feed(s)' = history
      BY <1>6, SubscribeFeed DEF BrokerInv
    <3>5. Range(Feed(s))' = Range(history)
      BY <3>4 DEF Range
    <3>6. Owed(s)' = Range(history)
      BY <3>1, RingIsOwed DEF Owed
    <3> QED BY <2>2, <3>1, <3>2, <3>3, <3>5, <3>6 DEF Covered
  <2> QED BY <2>1, <2>2
<1>7. ASSUME NEW s \in Stream, StreamStep(s) PROVE Covered(u)'
  <2>1. /\ Feed(u)' = Feed(u) /\ state' = state
        /\ UNCHANGED <<sending, log, joined, shed>>
    BY <1>7, YieldFeed DEF BrokerInv
  <2> QED BY <1>1, <1>3, <2>1
<1>8. ASSUME NEW s \in Stream, Disconnect(s) PROVE Covered(u)'
  <2>1. state[u] = "open"
    BY <1>1, <1>8 DEF Disconnect, BrokerInv, TypeOK
  <2>2. Feed(u)' = Feed(u) /\ UNCHANGED <<sending, log, joined, shed>>
    BY <1>8 DEF Disconnect, Feed
  <2> QED BY <1>3, <2>1, <2>2
<1>9. CASE UNCHANGED vars
  <2>1. Feed(u)' = Feed(u) /\ UNCHANGED <<sending, log, joined, shed, state>>
    BY <1>9 DEF vars, Feed
  <2> QED BY <1>1, <1>3, <2>1
<1> QED BY <1>4, <1>5, <1>6, <1>7, <1>8, <1>9 DEF Next, PutNext

\* An open stream has shown, still holds, is about to receive or has shed every
\* event of its window, and nothing else, for any number of publishers and
\* streams and any limits of ring and queue.
THEOREM NothingIsMissed == Spec => []NothingMissed
<1>1. Init => NothingMissed
  BY DEF Init, NothingMissed
<1>2. BrokerInv /\ [Next]_vars => BrokerInv'
  BY NextBrokerInv
<1>3. BrokerInv /\ NothingMissed /\ [Next]_vars => NothingMissed'
  BY NextNothingMissed
<1> QED BY <1>1, <1>2, <1>3, InitBrokerInv, PTL DEF Spec
=============================================================================
