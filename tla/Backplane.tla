------------------------------ MODULE Backplane ------------------------------
(***************************************************************************)
(* InProcessPubSub and Subscription (backplane.py), together with the loop *)
(* that drains a subscription (event_stream, endpoints.py).                *)
(*                                                                         *)
(* Everything runs on one asyncio event loop, so a step is the code        *)
(* between two suspension points.  publish, subscribe, stop and aclose     *)
(* contain no await that can suspend (the lock of publish is never         *)
(* contended, because its body does not await), hence each is one action.  *)
(* The one place a reader waits is queue.get().                            *)
(***************************************************************************)
EXTENDS Integers, Sequences

CONSTANTS
  Subs,        \* Subscription objects; each is constructed at most once
  Events,      \* event payloads
  ReplaySize,  \* replay_size, the maxlen of the ring
  MaxPublish,  \* bound on the number of publish calls
  Close        \* the None that ends a subscription's queue

Frame == [id : Nat, event : Events]

Live == -1     \* last_event_id is None

ASSUME ReplaySizeAssumption == ReplaySize \in Nat
ASSUME MaxPublishAssumption == MaxPublish \in Nat
ASSUME CloseAssumption == Close \notin Frame

VARIABLES
  started,      \* InProcessPubSub._started
  nextId,       \* InProcessPubSub._next_id
  ring,         \* InProcessPubSub._ring
  subscribers,  \* InProcessPubSub._subscribers
  queue,        \* Subscription._queue
  closed,       \* Subscription._closed
  phase,        \* the reader of a subscription: "unborn", "iterating",
                \*   "ended" by the sentinel, or "left" before it
  log,          \* history: every payload published, oldest first
  first,        \* history: id of the first frame a subscription is owed
  asked,        \* history: the last_event_id it was created with, or Live
  delivered     \* history: the frames a subscription has yielded

backplane == <<started, nextId, ring, subscribers>>
vars == <<started, nextId, ring, subscribers, queue, closed, phase,
          log, first, asked, delivered>>

TypeOK ==
  /\ started \in BOOLEAN
  /\ nextId \in Nat \ {0}
  /\ ring \in Seq(Frame)
  /\ subscribers \in SUBSET Subs
  /\ queue \in [Subs -> Seq(Frame \cup {Close})]
  /\ closed \in [Subs -> BOOLEAN]
  /\ phase \in [Subs -> {"unborn", "iterating", "ended", "left"}]
  /\ log \in Seq(Events)
  /\ first \in [Subs -> Int]
  /\ asked \in [Subs -> Int]
  /\ delivered \in [Subs -> Seq(Frame)]

Init ==
  /\ started = FALSE
  /\ nextId = 1
  /\ ring = <<>>
  /\ subscribers = {}
  /\ queue = [s \in Subs |-> <<>>]
  /\ closed = [s \in Subs |-> FALSE]
  /\ phase = [s \in Subs |-> "unborn"]
  /\ log = <<>>
  /\ first = [s \in Subs |-> 1]
  /\ asked = [s \in Subs |-> Live]
  /\ delivered = [s \in Subs |-> <<>>]

-----------------------------------------------------------------------------
\* The backplane's operations.

\* The flag is set here and cleared by Stop; no operation reads it.
Start ==
  /\ started' = TRUE
  /\ UNCHANGED <<nextId, ring, subscribers, queue, closed, phase,
                 log, first, asked, delivered>>

\* What deque(maxlen=ReplaySize) keeps of frames, one more than it may hold.
Bounded(frames) == IF Len(frames) > ReplaySize THEN Tail(frames) ELSE frames

\* Mutant of Remember: appendleft for append.
RememberLeft(frame) == Bounded(<<frame>> \o ring)

Remember(frame) == Bounded(Append(ring, frame))

\* Mutant of Offer: a bounded queue that drops a frame when it is full.
OfferUnlessFull(s, frame) ==
  IF closed[s] \/ Len(queue[s]) >= ReplaySize THEN queue[s]
                                              ELSE Append(queue[s], frame)

\* Subscription._offer
Offer(s, frame) == IF closed[s] THEN queue[s] ELSE Append(queue[s], frame)

Publish(e) ==
  LET frame == [id |-> nextId, event |-> e] IN
  /\ nextId <= MaxPublish
  /\ nextId' = nextId + 1
  /\ ring' = Remember(frame)
  /\ queue' = [s \in Subs |-> IF s \in subscribers THEN Offer(s, frame)
                                                   ELSE queue[s]]
  /\ log' = Append(log, e)
  /\ UNCHANGED <<started, subscribers, closed, phase, first, asked, delivered>>

\* Subscription.__init__ seeds the queue, subscribe registers the object.
Enrol(s, backlog, last) ==
  /\ phase[s] = "unborn"
  /\ queue' = [queue EXCEPT ![s] = backlog]
  /\ subscribers' = subscribers \cup {s}
  /\ phase' = [phase EXCEPT ![s] = "iterating"]
  /\ first' = [first EXCEPT ![s] = nextId - Len(backlog)]
  /\ asked' = [asked EXCEPT ![s] = last]
  /\ UNCHANGED <<started, nextId, ring, closed, log, delivered>>

\* subscribe(None): live frames only.
SubscribeLive(s) == Enrol(s, <<>>, Live)

\* Mutant of NewerAfter: the last frame seen is replayed again.
NotOlderAfter(last, k) == \A i \in DOMAIN ring : ring[i].id >= last <=> i > k

\* The frames of the ring newer than `last` are those after the k-th.
NewerAfter(last, k) == \A i \in DOMAIN ring : ring[i].id > last <=> i > k

\* subscribe(last): the backlog is the part of the ring newer than `last`.
\* `last` is whatever number the client sent, not necessarily an id of ours.
SubscribeAfter(s, last) ==
  \E k \in 0..Len(ring) :
    /\ NewerAfter(last, k)
    /\ Enrol(s, SubSeq(ring, k + 1, Len(ring)), last)

\* Mutants of Sealed: what is queued is dropped; there is no sentinel.
SealedEmpty(s) == <<Close>>
SealedSilent(s) == queue[s]

\* The queue after aclose, which is a no-op the second time.
Sealed(s) == IF closed[s] THEN queue[s] ELSE Append(queue[s], Close)

\* stop calls aclose of every subscriber.
Stop ==
  /\ started' = FALSE
  /\ subscribers' = {}
  /\ ring' = <<>>
  /\ closed' = [s \in Subs |-> closed[s] \/ s \in subscribers]
  /\ queue' = [s \in Subs |-> IF s \in subscribers THEN Sealed(s)
                                                   ELSE queue[s]]
  /\ UNCHANGED <<nextId, phase, log, first, asked, delivered>>

-----------------------------------------------------------------------------
\* The reader of a subscription.

\* Mutant of FrameReady: the sentinel is taken for a frame.
AnythingReady(s) == queue[s] # <<>>

FrameReady(s) == queue[s] # <<>> /\ Head(queue[s]) # Close

\* queue.get() returned a frame: yield it.
Receive(s) ==
  /\ phase[s] = "iterating"
  /\ FrameReady(s)
  /\ queue' = [queue EXCEPT ![s] = Tail(@)]
  /\ delivered' = [delivered EXCEPT ![s] = Append(@, Head(queue[s]))]
  /\ UNCHANGED <<backplane, closed, phase, log, first, asked>>

\* Mutant of Aclose: the backplane is not told (no _drop).
AcloseAlone(s) ==
  /\ closed' = [closed EXCEPT ![s] = TRUE]
  /\ UNCHANGED subscribers

\* The rest of aclose.
Aclose(s) ==
  /\ closed' = [closed EXCEPT ![s] = TRUE]
  /\ subscribers' = IF closed[s] THEN subscribers ELSE subscribers \ {s}

\* queue.get() returned the sentinel: the iteration is over, and the finally
\* clause of event_stream closes the subscription, already closed by then.
Finish(s) ==
  /\ phase[s] = "iterating"
  /\ queue[s] # <<>>
  /\ Head(queue[s]) = Close
  /\ queue' = [queue EXCEPT ![s] = Tail(Sealed(s))]
  /\ Aclose(s)
  /\ phase' = [phase EXCEPT ![s] = "ended"]
  /\ UNCHANGED <<started, nextId, ring, log, first, asked, delivered>>

\* The client goes away (or the generator is cancelled) at any point of the
\* iteration: the finally clause runs with frames possibly still queued.
Disconnect(s) ==
  /\ phase[s] = "iterating"
  /\ queue' = [queue EXCEPT ![s] = Sealed(s)]
  /\ Aclose(s)
  /\ phase' = [phase EXCEPT ![s] = "left"]
  /\ UNCHANGED <<started, nextId, ring, log, first, asked, delivered>>

Next ==
  \/ Start
  \/ Stop
  \/ \E e \in Events : Publish(e)
  \/ \E s \in Subs :
       \/ SubscribeLive(s)
       \/ \E last \in 0..MaxPublish + 1 : SubscribeAfter(s, last)
       \/ Receive(s)
       \/ Finish(s)
       \/ Disconnect(s)

Spec == Init /\ [][Next]_vars

\* A reader whose queue is not empty is resumed by the event loop, and its
\* client takes the frame or disconnects.  Publishing, subscribing, stopping
\* and disconnecting are never forced.
Fairness == \A s \in Subs : WF_vars(Receive(s)) /\ WF_vars(Finish(s))

FairSpec == Spec /\ Fairness
-----------------------------------------------------------------------------
\* Properties.

\* The frame of the n-th payload published.
FrameOf(events, n) == [id |-> n, event |-> events[n]]

\* The frames still queued for s, without the sentinel.
Pending(s) == IF closed[s] THEN Len(queue[s]) - 1 ELSE Len(queue[s])

\* The ring holds the newest frames, at most ReplaySize of them.
RingIsSuffix ==
  /\ Len(ring) <= ReplaySize
  /\ Len(ring) < nextId
  /\ \A i \in 1..Len(ring) : ring[i] = FrameOf(log, nextId - 1 - Len(ring) + i)

\* What s has yielded is the log from first[s] on.
DeliveredIsContiguous(s) ==
  \A i \in 1..Len(delivered[s]) : delivered[s][i] = FrameOf(log, first[s] + i - 1)

\* What waits for s continues where the yielded frames stop, and reaches up to
\* the newest frame as long as s is not closed.
QueueContinues(s) ==
  LET next == first[s] + Len(delivered[s]) IN
  /\ \A i \in 1..Pending(s) : queue[s][i] = FrameOf(log, next + i - 1)
  /\ next + Pending(s) <= nextId
  /\ ~closed[s] => next + Pending(s) = nextId

\* From the frame it resumed at, a reader gets every published frame exactly
\* once and in publication order, whatever publish, stop and the other readers
\* do meanwhile, and while it is open nothing published is missing from its
\* queue (publish/_offer, subscribe, stop, aclose of backplane.py).
GapFree ==
  \A s \in Subs :
    /\ DeliveredIsContiguous(s)
    /\ phase[s] = "iterating" => QueueContinues(s)

\* A closed reader that still iterates has one sentinel ahead of it, behind
\* all its frames; an open one has none.
Sentinel(s) ==
  /\ \A i \in 1..Len(queue[s]) :
       queue[s][i] = Close <=> closed[s] /\ i = Len(queue[s])
  /\ closed[s] => queue[s] # <<>>

\* The set of subscribers and the flags of the subscriptions agree, so publish
\* offers to exactly the readers that are still open, and a reader that was
\* closed can never wait forever on an empty queue (aclose, stop and _drop).
Registered ==
  \A s \in Subs :
    /\ s \in subscribers <=> phase[s] = "iterating" /\ ~closed[s]
    /\ phase[s] = "iterating" => Sentinel(s)

\* The list comprehension of subscribe: the frames of the ring newer than `last`,
\* wherever in the ring they are.
Newer(last) ==
  LET kept[n \in 0..Len(ring)] ==
        IF n = 0 THEN <<>>
        ELSE IF ring[n].id > last THEN Append(kept[n - 1], ring[n])
        ELSE kept[n - 1]
  IN  kept[Len(ring)]

\* Rewinding is a filter: the list comprehension of subscribe, which keeps the
\* frames with a greater id wherever they are, keeps a suffix of the ring.
ReplayIsFilter ==
  \A last \in 0..MaxPublish + 1 :
    \E k \in 0..Len(ring) :
      /\ NewerAfter(last, k)
      /\ Newer(last) = SubSeq(ring, k + 1, Len(ring))

\* Where a reader may stand: a reader that does not exist yet has nothing, and
\* none is ahead of the log.
Placed ==
  \A s \in Subs :
    /\ phase[s] = "unborn" =>
         ~closed[s] /\ queue[s] = <<>> /\ delivered[s] = <<>>
    /\ first[s] \in 1..nextId
    /\ first[s] + Len(delivered[s]) <= nextId

\* The inductive invariant.
IInv ==
  /\ TypeOK
  /\ Len(log) = nextId - 1
  /\ RingIsSuffix
  /\ Registered
  /\ GapFree
  /\ Placed

\* The backplane implements the abstract feed: a frame is a log entry, the ring
\* is the part of the log behind the horizon, a queue is the distance between
\* a reader's cursor and what it is owed.
Status(s) ==
  CASE phase[s] = "unborn" -> "new"
    [] phase[s] = "ended" -> "done"
    [] phase[s] = "left" -> "gone"
    [] phase[s] = "iterating" -> IF closed[s] THEN "closing" ELSE "open"

Cursor(s) ==
  IF phase[s] = "unborn" THEN 0 ELSE first[s] - 1 + Len(delivered[s])

Limit(s) == IF Status(s) = "closing" THEN Cursor(s) + Pending(s) ELSE 0

Got(s) == [i \in 1..Len(delivered[s]) |-> delivered[s][i].event]

F == INSTANCE Feed WITH
       Readers <- Subs,
       Retain <- ReplaySize,
       MaxLog <- MaxPublish,
       horizon <- nextId - 1 - Len(ring),
       status <- [s \in Subs |-> Status(s)],
       cursor <- [s \in Subs |-> Cursor(s)],
       limit <- [s \in Subs |-> Limit(s)],
       got <- [s \in Subs |-> Got(s)]

\* Every behaviour of InProcessPubSub and its subscriptions is a behaviour of
\* the feed of backplane.py:14-16: monotonic ids, replay of what is buffered
\* with a greater id, then live delivery, for any interleaving of readers.
ImplementsFeed == F!Spec

\* Every frame published to a registered reader reaches it, unless the reader
\* goes away first: a stop in between ends the reader behind what was queued
\* for it, and drops none of it (stop, __aiter__).
Delivery ==
  \A s \in Subs : \A n \in 1..MaxPublish :
    (phase[s] = "iterating" /\ ~closed[s] /\ first[s] <= n /\ n < nextId)
      ~> (phase[s] = "left" \/ Cursor(s) >= n)

\* Once closed, by stop or by aclose, a reader's iteration comes to its end:
\* stop really disconnects the readers registered at the time (backplane.py:108).
ClosedReadersEnd ==
  \A s \in Subs : (phase[s] = "iterating" /\ closed[s]) ~> (phase[s] \in {"ended", "left"})
=============================================================================
