---------------------------- MODULE EventBroker ----------------------------
(***************************************************************************)
(* EventBroker: turns and outcome calls publish from their threads,        *)
(* browsers read through GET /v1/incidents/{id}/events.  One incident's    *)
(* ring of recent events and set of subscriber queues; incidents share     *)
(* nothing but the lock.                                                   *)
(*                                                                         *)
(* publish appends to the ring and copies the subscriber set under the     *)
(* lock, then puts into each queue outside it; stream registers its queue  *)
(* and copies the ring under the lock.  What happens between is the        *)
(* subject of this module.                                                 *)
(***************************************************************************)
EXTENDS Naturals, Sequences, FiniteSets

CONSTANTS
  Publisher,     \* threads that publish events of the incident
  Stream,        \* subscriptions, one per request
  HistoryLimit,  \* maxlen of the ring
  QueueLimit,    \* maxsize of a subscriber's queue
  MaxEvents      \* events published in all (bounds the model)

ASSUME BrokerAssumption ==
  /\ HistoryLimit \in Nat \ {0}
  /\ QueueLimit \in Nat \ {0}
  /\ MaxEvents \in Nat

VARIABLES
  history,      \* _history[incident]
  subscribers,  \* _subscribers[incident]
  sending,      \* per publisher: its last event, and the queues it still has to serve
  state,        \* per stream: not started, open (its generator runs), closed
  backlog,      \* per stream: what is left of its copy of the ring
  queue,        \* per stream: its queue
  shown,        \* per stream: the events written to the response, in order
  shed,         \* per stream: events dropped because its queue was full (observer)
  log,          \* every event ever published, in ring order (observer)
  joined        \* per stream: Len(log) when it subscribed (observer)

vars == <<history, subscribers, sending, state, backlog, queue, shown, shed,
          log, joined>>

\* The n-th event of a publisher.
Event == [by : Publisher, n : Nat \ {0}]

\* Every event in its place, queues and ring within their limits.
TypeOK ==
  /\ history \in Seq(Event) /\ Len(history) <= HistoryLimit
  /\ subscribers \subseteq Stream
  /\ sending \in [Publisher -> [n : 0..MaxEvents, to : SUBSET Stream]]
  /\ state \in [Stream -> {"new", "open", "closed"}]
  /\ backlog \in [Stream -> Seq(Event)]
  /\ queue \in [Stream -> Seq(Event)]
  /\ \A s \in Stream : Len(queue[s]) <= QueueLimit
  /\ shown \in [Stream -> Seq(Event)]
  /\ shed \in [Stream -> SUBSET Event]
  /\ log \in Seq(Event)
  /\ joined \in [Stream -> Nat]

Init ==
  /\ history = <<>>
  /\ subscribers = {}
  /\ sending = [p \in Publisher |-> [n |-> 0, to |-> {}]]
  /\ state = [s \in Stream |-> "new"]
  /\ backlog = [s \in Stream |-> <<>>]
  /\ queue = [s \in Stream |-> <<>>]
  /\ shown = [s \in Stream |-> <<>>]
  /\ shed = [s \in Stream |-> {}]
  /\ log = <<>>
  /\ joined = [s \in Stream |-> 0]

\* The event publisher p is delivering, or delivered last.
Current(p) == [by |-> p, n |-> sending[p].n]

\* deque(maxlen=history_limit): the oldest event makes room.
Ring(h, e) ==
  IF Len(h) < HistoryLimit THEN Append(h, e) ELSE Append(Tail(h), e)

\* publish, under the lock.
Publish(p) ==
  /\ sending[p].to = {} /\ Len(log) < MaxEvents
  /\ LET e == [by |-> p, n |-> sending[p].n + 1] IN
       /\ history' = Ring(history, e)
       /\ log' = Append(log, e)
  /\ sending' = [sending EXCEPT ![p] = [n |-> sending[p].n + 1, to |-> subscribers]]
  /\ UNCHANGED <<subscribers, state, backlog, queue, shown, shed, joined>>

\* Mutant: put instead of put_nowait.
PutBlocking(p, s) ==
  /\ s \in sending[p].to
  /\ sending' = [sending EXCEPT ![p].to = @ \ {s}]
  /\ Len(queue[s]) < QueueLimit
  /\ queue' = [queue EXCEPT ![s] = Append(@, Current(p))]
  /\ UNCHANGED <<history, subscribers, state, backlog, shown, shed, log, joined>>

\* publish, after the lock: put_nowait into one more queue, which may belong to
\* a stream that has closed; a full queue sheds the event.
Put(p, s) ==
  /\ s \in sending[p].to
  /\ sending' = [sending EXCEPT ![p].to = @ \ {s}]
  /\ IF Len(queue[s]) < QueueLimit
       THEN /\ queue' = [queue EXCEPT ![s] = Append(@, Current(p))]
            /\ UNCHANGED shed
       ELSE /\ shed' = [shed EXCEPT ![s] = @ \cup {Current(p)}]
            /\ UNCHANGED queue
  /\ UNCHANGED <<history, subscribers, state, backlog, shown, log, joined>>

\* Mutant: publish iterates over the live set instead of a copy.
SubscribeToLiveSet(s) ==
  /\ state[s] = "new"
  /\ state' = [state EXCEPT ![s] = "open"]
  /\ subscribers' = subscribers \cup {s}
  /\ backlog' = [backlog EXCEPT ![s] = history]
  /\ joined' = [joined EXCEPT ![s] = Len(log)]
  /\ sending' = [p \in Publisher |->
                   IF sending[p].to = {} THEN sending[p]
                   ELSE [sending[p] EXCEPT !.to = @ \cup {s}]]
  /\ UNCHANGED <<history, queue, shown, shed, log>>

\* stream, under the lock.
Subscribe(s) ==
  /\ state[s] = "new"
  /\ state' = [state EXCEPT ![s] = "open"]
  /\ subscribers' = subscribers \cup {s}
  /\ backlog' = [backlog EXCEPT ![s] = history]
  /\ joined' = [joined EXCEPT ![s] = Len(log)]
  /\ UNCHANGED <<history, sending, queue, shown, shed, log>>

\* yield from history.
YieldBacklog(s) ==
  /\ state[s] = "open" /\ backlog[s] # <<>>
  /\ shown' = [shown EXCEPT ![s] = Append(@, Head(backlog[s]))]
  /\ backlog' = [backlog EXCEPT ![s] = Tail(@)]
  /\ UNCHANGED <<history, subscribers, sending, state, queue, shed, log, joined>>

\* yield subscriber.get().  A heartbeat after an empty wait changes nothing.
YieldLive(s) ==
  /\ state[s] = "open" /\ backlog[s] = <<>> /\ queue[s] # <<>>
  /\ shown' = [shown EXCEPT ![s] = Append(@, Head(queue[s]))]
  /\ queue' = [queue EXCEPT ![s] = Tail(@)]
  /\ UNCHANGED <<history, subscribers, sending, state, backlog, shed, log, joined>>

\* Mutant: the last stream standing is not checked before the key is popped.
DisconnectAll(s) ==
  /\ state[s] = "open"
  /\ state' = [state EXCEPT ![s] = "closed"]
  /\ subscribers' = {}
  /\ UNCHANGED <<history, sending, backlog, queue, shown, shed, log, joined>>

\* The client goes away: the generator's finally clause unregisters the queue.
Disconnect(s) ==
  /\ state[s] = "open"
  /\ state' = [state EXCEPT ![s] = "closed"]
  /\ subscribers' = subscribers \ {s}
  /\ UNCHANGED <<history, sending, backlog, queue, shown, shed, log, joined>>

PutNext(p) == \E s \in Stream : Put(p, s)

StreamStep(s) == YieldBacklog(s) \/ YieldLive(s)

Next ==
  \/ \E p \in Publisher : Publish(p) \/ PutNext(p)
  \/ \E s \in Stream : Subscribe(s) \/ StreamStep(s) \/ Disconnect(s)

Spec == Init /\ [][Next]_vars

\* A thread inside publish runs on, whatever the streams do.
FairSpec == Spec /\ \A p \in Publisher : WF_vars(PutNext(p))

----------------------------------------------------------------------------
(* Properties.                                                             *)

Range(seq) == {seq[k] : k \in DOMAIN seq}

\* What a stream has shown and will show, in order.
Feed(s) == shown[s] \o backlog[s] \o queue[s]

\* The events on their way to a stream's queue.
InFlight(s) == {Current(p) : p \in {q \in Publisher : s \in sending[q].to}}

\* A subscription that starts while events are being published sees none of
\* them twice: the copy of the ring and the queue do not overlap.
ShownOnce ==
  \A s \in Stream :
    /\ \A j, k \in DOMAIN Feed(s) : Feed(s)[j] = Feed(s)[k] => j = k
    /\ Range(Feed(s)) \cap InFlight(s) = {}

\* An open stream misses nothing from the ring's window at its start onwards
\* except what its own full queue shed: in particular a client that reconnects
\* finds in the ring what its old stream missed, up to HistoryLimit events.
NothingMissed ==
  \A s \in Stream : state[s] = "open" =>
    {log[k] : k \in {j \in DOMAIN log : j + HistoryLimit > joined[s]}}
      = Range(Feed(s)) \cup InFlight(s) \cup shed[s]

\* The events of one turn arrive in the order in which it published them, also
\* across the switch from backlog to queue and around shed events.
PublisherOrder ==
  \A s \in Stream :
    \A j, k \in DOMAIN Feed(s) :
      j < k /\ Feed(s)[j].by = Feed(s)[k].by => Feed(s)[j].n < Feed(s)[k].n

\* What a stream shows is a well-formed feed: within the limits of ring and
\* queue, nothing twice, and every turn's events in its order.
FeedInOrder == TypeOK /\ ShownOnce /\ PublisherOrder

\* publish never waits for a stalled or closed stream: no fairness of streams is
\* needed for it to return.
PublishReturns == \A p \in Publisher : sending[p].to # {} ~> sending[p].to = {}

\* An event published while a stream is open is written to it or was shed,
\* provided its own client keeps reading or goes away; other clients may stall.
EveryEventIsShown ==
  \A s \in Stream :
    WF_vars(StreamStep(s)) =>
      \A p \in Publisher : \A n \in 1..MaxEvents :
        LET e == [by |-> p, n |-> n] IN
        (state[s] = "open" /\ e \in Range(Feed(s)) \cup InFlight(s))
          ~> (e \in Range(shown[s]) \cup shed[s] \/ state[s] = "closed")

\* One slow client holds up neither the turns that publish nor the other clients.
DeliveryIsLive == PublishReturns /\ EveryEventIsShown
============================================================================
