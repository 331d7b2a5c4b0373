--------------------------- MODULE BackplaneProofs ---------------------------
(***************************************************************************)
(* Proofs about Backplane: for any readers, payloads, ring size and number *)
(* of publications, typing and the gap-freedom of every subscription.      *)
(***************************************************************************)
EXTENDS Backplane, Ranks, SequenceTheorems, TLAPS

(***************************************************************************)
(* Typing.                                                                 *)
(***************************************************************************)

\* Dropping at most the oldest frame leaves a sequence of frames.
LEMMA BoundedType ==
  ASSUME NEW frames \in Seq(Frame), frames # <<>>
  PROVE  Bounded(frames) \in Seq(Frame)
BY DEF Bounded

\* Offering a frame keeps a queue a queue.
LEMMA OfferType ==
  ASSUME TypeOK, NEW s \in Subs, NEW f \in Frame
  PROVE  Offer(s, f) \in Seq(Frame \cup {Close})
BY DEF Offer, TypeOK

\* So does sealing it.
LEMMA SealedType ==
  ASSUME TypeOK, NEW s \in Subs
  PROVE  Sealed(s) \in Seq(Frame \cup {Close})
BY DEF Sealed, TypeOK

\* Creating a subscription with any backlog of frames preserves typing.
LEMMA EnrolType ==
  ASSUME TypeOK, NEW s \in Subs, NEW backlog \in Seq(Frame), NEW last \in Int,
         Enrol(s, backlog, last)
  PROVE  TypeOK'
<1>1. backlog \in Seq(Frame \cup {Close})
  BY SeqMonotonic
<1>2. nextId - Len(backlog) \in Int
  BY LenProperties DEF TypeOK
<1>. QED  BY <1>1, <1>2 DEF TypeOK, Enrol

\* The empty backplane is well typed.
LEMMA TypeInit ==
  ASSUME Init
  PROVE  TypeOK
<1>1. started \in BOOLEAN /\ closed \in [Subs -> BOOLEAN]
  BY Zenon DEF Init
<1>2. nextId \in Nat \ {0} /\ ring \in Seq(Frame) /\ log \in Seq(Events)
  BY DEF Init
<1>3. /\ queue \in [Subs -> Seq(Frame \cup {Close})]
      /\ first \in [Subs -> Int]
      /\ asked \in [Subs -> Int]
      /\ delivered \in [Subs -> Seq(Frame)]
  BY DEF Init, Live
<1>4. subscribers \in SUBSET Subs
  BY DEF Init
<1>5. phase \in [Subs -> {"unborn", "iterating", "ended", "left"}]
  BY DEF Init
<1>. QED  BY <1>1, <1>2, <1>3, <1>4, <1>5 DEF TypeOK

\* No step changes the type of a variable.
LEMMA TypeStep == TypeOK /\ [Next]_vars => TypeOK'
<1> SUFFICES ASSUME TypeOK, [Next]_vars PROVE TypeOK'
  OBVIOUS
<1>1. CASE Start
  BY <1>1 DEF Start, TypeOK
<1>2. CASE Stop
  <2>1. queue' \in [Subs -> Seq(Frame \cup {Close})]
    BY <1>2, SealedType DEF Stop, TypeOK
  <2>2. closed' \in [Subs -> BOOLEAN] /\ started' \in BOOLEAN
    BY <1>2, Zenon DEF Stop
  <2>3. ring' \in Seq(Frame) /\ subscribers' \in SUBSET Subs
    BY <1>2 DEF Stop
  <2>. QED  BY <1>2, <2>1, <2>2, <2>3 DEF Stop, TypeOK
<1>3. ASSUME NEW e \in Events, Publish(e) PROVE TypeOK'
  <2> DEFINE frame == [id |-> nextId, event |-> e]
  <2>1. frame \in Frame
    BY DEF Frame, TypeOK
  <2>2. ring' \in Seq(Frame)
    <3>1. Append(ring, frame) \in Seq(Frame) /\ Append(ring, frame) # <<>>
      <4>1. ring \in Seq(Frame)
        BY DEF TypeOK
      <4> HIDE DEF frame
      <4>. QED  BY <2>1, <4>1, AppendProperties
    <3>2. ring' = Bounded(Append(ring, frame))
      BY <1>3 DEF Publish, Remember
    <3>. QED  BY <3>1, <3>2, BoundedType
  <2>3. queue' \in [Subs -> Seq(Frame \cup {Close})]
    BY <1>3, <2>1, OfferType DEF Publish, TypeOK
  <2>4. log' \in Seq(Events) /\ nextId' \in Nat \ {0}
    BY <1>3 DEF Publish, TypeOK
  <2>. QED  BY <1>3, <2>2, <2>3, <2>4 DEF Publish, TypeOK
<1>4. ASSUME NEW s \in Subs, SubscribeLive(s) PROVE TypeOK'
  <2>1. <<>> \in Seq(Frame)
    OBVIOUS
  <2>2. Live \in Int /\ Enrol(s, <<>>, Live)
    BY <1>4 DEF SubscribeLive, Live
  <2>. QED  BY <2>1, <2>2, EnrolType
<1>5. ASSUME NEW s \in Subs, NEW last \in 0..MaxPublish + 1,
             SubscribeAfter(s, last)
      PROVE  TypeOK'
  <2>1. PICK k \in 0..Len(ring) : Enrol(s, SubSeq(ring, k + 1, Len(ring)), last)
    BY <1>5 DEF SubscribeAfter
  <2>2. SubSeq(ring, k + 1, Len(ring)) \in Seq(Frame)
    <3>1. ring \in Seq(Frame)
      BY DEF TypeOK
    <3>. QED  BY <3>1, LenProperties, SubSeqProperties
  <2>3. last \in Int
    BY MaxPublishAssumption
  <2>. QED  BY <2>1, <2>2, <2>3, EnrolType
<1>6. ASSUME NEW s \in Subs, Receive(s) PROVE TypeOK'
  <2>1. Head(queue[s]) \in Frame /\ Tail(queue[s]) \in Seq(Frame \cup {Close})
    <3>1. queue[s] \in Seq(Frame \cup {Close}) /\ queue[s] # <<>>
      BY <1>6 DEF Receive, FrameReady, TypeOK
    <3>2. Head(queue[s]) # Close
      BY <1>6 DEF Receive, FrameReady
    <3>. QED  BY <3>1, <3>2, HeadTailProperties
  <2>2. queue' \in [Subs -> Seq(Frame \cup {Close})]
    BY <1>6, <2>1 DEF Receive, FrameReady, TypeOK
  <2>3. delivered' \in [Subs -> Seq(Frame)]
    <3>1. Append(delivered[s], Head(queue[s])) \in Seq(Frame)
      BY <2>1, AppendProperties DEF TypeOK
    <3>. QED  BY <1>6, <3>1 DEF Receive, FrameReady, TypeOK
  <2>. QED  BY <1>6, <2>2, <2>3 DEF Receive, FrameReady, TypeOK, backplane
<1>7. ASSUME NEW s \in Subs, Finish(s) PROVE TypeOK'
  <2>1. Tail(Sealed(s)) \in Seq(Frame \cup {Close})
    <3>1. queue[s] \in Seq(Frame \cup {Close}) /\ queue[s] # <<>>
      BY <1>7 DEF Finish, TypeOK
    <3>2. Sealed(s) # <<>>
      BY <3>1, AppendProperties DEF Sealed
    <3>. QED  BY <3>2, SealedType, HeadTailProperties
  <2>2. closed' \in [Subs -> BOOLEAN] /\ subscribers' \in SUBSET Subs
    BY <1>7 DEF Finish, Aclose, TypeOK
  <2>. QED  BY <1>7, <2>1, <2>2 DEF Finish, TypeOK
<1>8. ASSUME NEW s \in Subs, Disconnect(s) PROVE TypeOK'
  <2>1. Sealed(s) \in Seq(Frame \cup {Close})
    BY SealedType
  <2>2. closed' \in [Subs -> BOOLEAN] /\ subscribers' \in SUBSET Subs
    BY <1>8 DEF Disconnect, Aclose, TypeOK
  <2>. QED  BY <1>8, <2>1, <2>2 DEF Disconnect, TypeOK
<1>9. CASE UNCHANGED vars
  BY <1>9 DEF vars, TypeOK
<1>. QED
  BY <1>1, <1>2, <1>3, <1>4, <1>5, <1>6, <1>7, <1>8, <1>9 DEF Next

\* Every variable of the backplane and of its subscriptions keeps its type.
THEOREM TypeCorrect == Spec => []TypeOK
BY TypeInit, TypeStep, PTL DEF Spec

(***************************************************************************)
(* The inductive invariant.                                                *)
(***************************************************************************)

\* The part of the invariant that is about one subscription.
ReaderInv(s) ==
  /\ s \in subscribers <=> phase[s] = "iterating" /\ ~closed[s]
  /\ phase[s] = "iterating" => Sentinel(s) /\ QueueContinues(s)
  /\ DeliveredIsContiguous(s)
  /\ phase[s] = "unborn" => ~closed[s] /\ queue[s] = <<>> /\ delivered[s] = <<>>
  /\ first[s] \in 1..nextId
  /\ first[s] + Len(delivered[s]) <= nextId

\* The invariant, one subscription at a time.
LEMMA IInvByReader ==
  IInv <=> /\ TypeOK
           /\ Len(log) = nextId - 1
           /\ RingIsSuffix
           /\ \A s \in Subs : ReaderInv(s)
BY DEF IInv, Registered, GapFree, Placed, ReaderInv

\* The same, for the state a step leads to.
LEMMA IInvNext ==
  ASSUME TypeOK', Len(log)' = nextId' - 1, RingIsSuffix',
         \A s \in Subs : ReaderInv(s)'
  PROVE  IInv'
BY DEF IInv, Registered, GapFree, Placed, ReaderInv

\* A subscription none of whose state changes keeps its part of the invariant.
LEMMA Unaffected ==
  ASSUME NEW t \in Subs, ReaderInv(t), UNCHANGED <<nextId, log>>,
         t \in subscribers' <=> t \in subscribers,
         queue'[t] = queue[t], closed'[t] = closed[t], phase'[t] = phase[t],
         first'[t] = first[t], delivered'[t] = delivered[t]
  PROVE  ReaderInv(t)'
<1>1. Sentinel(t) => Sentinel(t)'
  BY DEF Sentinel
<1>2. DeliveredIsContiguous(t) => DeliveredIsContiguous(t)'
  BY DEF DeliveredIsContiguous, FrameOf
<1>3. Pending(t)' = Pending(t)
  BY DEF Pending
<1>4. QueueContinues(t) => QueueContinues(t)'
  BY <1>3 DEF QueueContinues, FrameOf
<1>. QED  BY <1>1, <1>2, <1>4 DEF ReaderInv

\* A frame already published does not change when another is.
LEMMA FrameStable ==
  ASSUME TypeOK, NEW e \in Events, log' = Append(log, e), NEW n \in 1..Len(log)
  PROVE  FrameOf(log', n) = FrameOf(log, n)
BY DEF FrameOf, TypeOK

\* The entry a publication adds.
LEMMA FrameNew ==
  ASSUME TypeOK, NEW e \in Events, Publish(e), Len(log) = nextId - 1
  PROVE  FrameOf(log', nextId) = [id |-> nextId, event |-> e]
<1>1. log' = Append(log, e) /\ log \in Seq(Events) /\ nextId = Len(log) + 1
  BY DEF Publish, TypeOK
<1>. QED  BY <1>1 DEF FrameOf

\* The ring stays the newest part of the log when a frame is appended to it.
LEMMA PublishRing ==
  ASSUME IInv, NEW e \in Events, Publish(e)
  PROVE  RingIsSuffix'
<1> DEFINE frame == [id |-> nextId, event |-> e]
           all == Append(ring, frame)
<1>1. /\ ring \in Seq(Frame) /\ log \in Seq(Events) /\ nextId \in Nat \ {0}
      /\ Len(log) = nextId - 1 /\ Len(ring) <= ReplaySize /\ Len(ring) < nextId
  BY DEF IInv, TypeOK, RingIsSuffix
<1>2. nextId' = nextId + 1 /\ log' = Append(log, e) /\ ring' = Bounded(all)
  BY DEF Publish, Remember
<1>3. frame \in Frame
  BY <1>1 DEF Frame
<1>4. \A n \in 1..nextId - 1 : FrameOf(log', n) = FrameOf(log, n)
  BY <1>1, <1>2, FrameStable DEF IInv
<1>5. FrameOf(log', nextId) = frame
  BY <1>1, <1>2 DEF FrameOf
<1> HIDE DEF frame
<1>6. /\ all \in Seq(Frame) /\ all # <<>>
      /\ Len(all) = Len(ring) + 1
      /\ \A i \in 1..Len(ring) : all[i] = ring[i]
      /\ all[Len(ring) + 1] = frame
  BY <1>1, <1>3, AppendProperties
<1>sizes. /\ Len(ring) \in Nat /\ Len(all) = Len(ring) + 1
       /\ nextId \in Nat /\ nextId' = nextId + 1
  BY <1>1, <1>2, <1>6, LenProperties
<1>7. \A i \in 1..Len(all) : all[i] = FrameOf(log', nextId - Len(all) + i)
  <2> SUFFICES ASSUME NEW i \in 1..Len(all)
               PROVE  all[i] = FrameOf(log', nextId - Len(all) + i)
    OBVIOUS
  <2>1. CASE i \in 1..Len(ring)
    <3>1. ring[i] = FrameOf(log, nextId - 1 - Len(ring) + i)
      BY <2>1 DEF IInv, RingIsSuffix
    <3>2. nextId - 1 - Len(ring) + i \in 1..nextId - 1
      BY <1>1, <2>1
    <3>. QED  BY <1>1, <1>4, <1>6, <2>1, <3>1, <3>2
  <2>2. CASE i = Len(ring) + 1
    BY <1>1, <1>5, <1>6, <2>2
  <2>. QED  BY <1>1, <1>6, <2>1, <2>2
<1> HIDE DEF all
<1>8. CASE Len(all) > ReplaySize
  <2>1. /\ ring' = Tail(all) /\ Len(ring') = Len(all) - 1
        /\ \A i \in 1..Len(ring') : ring'[i] = all[i + 1]
    BY <1>2, <1>6, <1>8, HeadTailProperties DEF Bounded
  <2>2. ASSUME NEW i \in 1..Len(ring')
        PROVE  ring'[i] = FrameOf(log', nextId' - 1 - Len(ring') + i)
    <3>1. i + 1 \in 1..Len(all)
      BY <1>1, <1>6, <2>1
    <3>2. nextId - Len(all) + (i + 1) = nextId' - 1 - Len(ring') + i
      <4>1. Len(ring') = Len(all) - 1
        BY <2>1
      <4>. QED  BY <1>sizes, <4>1
    <3>. QED  BY <1>7, <2>1, <3>1, <3>2
  <2>3. Len(ring') <= ReplaySize /\ Len(ring') < nextId'
    BY <1>1, <1>2, <1>6, <2>1, ReplaySizeAssumption
  <2>. QED  BY <2>2, <2>3 DEF RingIsSuffix
<1>9. CASE ~(Len(all) > ReplaySize)
  <2>1. ring' = all
    BY <1>2, <1>9 DEF Bounded
  <2>2. ASSUME NEW i \in 1..Len(ring')
        PROVE  ring'[i] = FrameOf(log', nextId' - 1 - Len(ring') + i)
    <3>1. nextId - Len(all) + i = nextId' - 1 - Len(ring') + i
      BY <1>sizes, <2>1
    <3>. QED  BY <1>7, <2>1, <3>1
  <2>3. Len(ring') <= ReplaySize /\ Len(ring') < nextId'
    BY <1>1, <1>2, <1>6, <1>9, <2>1, ReplaySizeAssumption
  <2>. QED  BY <2>2, <2>3 DEF RingIsSuffix
<1>. QED  BY <1>8, <1>9

\* Publishing extends the queue of every open reader by the new frame and
\* leaves every other reader alone.
LEMMA PublishReader ==
  ASSUME IInv, NEW e \in Events, Publish(e), NEW t \in Subs
  PROVE  ReaderInv(t)'
<1> DEFINE frame == [id |-> nextId, event |-> e]
<1>1. /\ log \in Seq(Events) /\ nextId \in Nat \ {0} /\ Len(log) = nextId - 1
      /\ queue \in [Subs -> Seq(Frame \cup {Close})]
      /\ delivered[t] \in Seq(Frame) /\ Len(delivered[t]) \in Nat
      /\ first[t] \in Int
  BY LenProperties DEF IInv, TypeOK
<1>2. /\ nextId' = nextId + 1 /\ log' = Append(log, e)
      /\ UNCHANGED <<subscribers, closed, phase, first, delivered>>
      /\ queue'[t] = IF t \in subscribers THEN Offer(t, frame) ELSE queue[t]
  BY DEF Publish
<1>3. frame \in Frame /\ frame # Close
  BY <1>1, CloseAssumption DEF Frame
<1>4. \A n \in 1..nextId - 1 : FrameOf(log', n) = FrameOf(log, n)
  BY <1>1, <1>2, FrameStable DEF IInv
<1>5. FrameOf(log', nextId) = frame
  BY <1>1, <1>2 DEF FrameOf
<1>6. ReaderInv(t)
  BY IInvByReader
<1> HIDE DEF frame
<1>7. DeliveredIsContiguous(t)'
  <2> SUFFICES ASSUME NEW i \in 1..Len(delivered[t])
               PROVE  delivered[t][i] = FrameOf(log', first[t] + i - 1)
    BY <1>2 DEF DeliveredIsContiguous
  <2>1. first[t] + i - 1 \in 1..nextId - 1
    BY <1>1, <1>6 DEF ReaderInv
  <2>. QED  BY <1>4, <1>6, <2>1 DEF ReaderInv, DeliveredIsContiguous
<1>8. phase[t] = "unborn" => queue'[t] = <<>>
  BY <1>2, <1>6 DEF ReaderInv
<1>9. CASE t \in subscribers
  <2>1. phase[t] = "iterating" /\ ~closed[t] /\ Sentinel(t) /\ QueueContinues(t)
    BY <1>6, <1>9 DEF ReaderInv
  <2>2. /\ Len(queue[t]) \in Nat
        /\ Len(queue'[t]) = Len(queue[t]) + 1
        /\ \A i \in 1..Len(queue[t]) : queue'[t][i] = queue[t][i]
        /\ queue'[t][Len(queue[t]) + 1] = frame
    <3>1. queue[t] \in Seq(Frame \cup {Close}) /\ queue'[t] = Append(queue[t], frame)
      BY <1>1, <1>2, <1>9, <2>1 DEF Offer
    <3>. QED  BY <1>3, <3>1, AppendProperties, LenProperties
  <2>3. Sentinel(t)'
    <3>1. ASSUME NEW i \in 1..Len(queue'[t]) PROVE queue'[t][i] # Close
      <4>1. CASE i \in 1..Len(queue[t])
        BY <2>1, <2>2, <4>1 DEF Sentinel
      <4>2. CASE i = Len(queue[t]) + 1
        BY <1>3, <2>2, <4>2
      <4>. QED  BY <2>2, <4>1, <4>2
    <3>. QED  BY <1>2, <2>1, <3>1 DEF Sentinel
  <2>4. QueueContinues(t)'
    <3> DEFINE next == first[t] + Len(delivered[t])
    <3>1. next \in 1..nextId /\ next + Len(queue[t]) = nextId
      BY <1>1, <1>6, <2>1, <2>2 DEF ReaderInv, QueueContinues, Pending
    <3>2. ASSUME NEW i \in 1..Len(queue'[t])
          PROVE  queue'[t][i] = FrameOf(log', next + i - 1)
      <4>1. CASE i \in 1..Len(queue[t])
        <5>1. next + i - 1 \in 1..nextId - 1
          BY <1>1, <2>2, <3>1, <4>1
        <5>2. queue[t][i] = FrameOf(log, next + i - 1)
          BY <2>1, <4>1 DEF QueueContinues, Pending
        <5>. QED  BY <1>4, <2>2, <4>1, <5>1, <5>2
      <4>2. CASE i = Len(queue[t]) + 1
        <5>1. next + i - 1 = nextId
          BY <1>1, <2>2, <3>1, <4>2
        <5>. QED  BY <1>5, <2>2, <4>2, <5>1
      <4>. QED  BY <2>2, <4>1, <4>2
    <3>3. next + Len(queue'[t]) = nextId'
      <4>1. Len(queue[t]) \in Nat /\ Len(queue'[t]) = Len(queue[t]) + 1
        BY <2>2
      <4>2. nextId \in Nat /\ nextId' = nextId + 1
        BY <1>1, <1>2
      <4> HIDE DEF next
      <4>. QED  BY <3>1, <4>1, <4>2
    <3>4. Pending(t)' = Len(queue'[t]) /\ next' = next /\ ~closed'[t]
      BY <1>2, <2>1 DEF Pending
    <3> HIDE DEF next
    <3>5. next + Pending(t)' <= nextId' /\ next + Pending(t)' = nextId'
      BY <3>3, <3>4, <1>1, <1>2
    <3>6. \A i \in 1..Pending(t)' : queue'[t][i] = FrameOf(log', next' + i - 1)
      BY <3>2, <3>4
    <3>. QED  BY <3>4, <3>5, <3>6 DEF QueueContinues, next
  <2>. QED  BY <1>1, <1>2, <1>6, <1>7, <1>8, <2>1, <2>3, <2>4 DEF ReaderInv
<1>11. CASE t \notin subscribers
  <2>1. queue'[t] = queue[t]
    BY <1>2, <1>11
  <2>2. phase[t] = "iterating" => closed[t] /\ Sentinel(t) /\ QueueContinues(t)
    BY <1>6, <1>11 DEF ReaderInv
  <2>3. phase[t] = "iterating" => Sentinel(t)'
    BY <1>2, <2>1, <2>2 DEF Sentinel
  <2>4. ASSUME phase[t] = "iterating" PROVE QueueContinues(t)'
    <3> DEFINE next == first[t] + Len(delivered[t])
    <3>1. Len(queue[t]) \in Nat /\ next \in 1..nextId
      BY <1>1, <1>6, LenProperties DEF ReaderInv
    <3>2. ASSUME NEW i \in 1..Len(queue[t]) - 1
          PROVE  queue[t][i] = FrameOf(log', next + i - 1)
      <4>1. next + i - 1 \in 1..nextId - 1
        BY <1>1, <2>2, <2>4, <3>1 DEF QueueContinues, Pending
      <4>2. queue[t][i] = FrameOf(log, next + i - 1)
        BY <2>2, <2>4 DEF QueueContinues, Pending
      <4>. QED  BY <1>4, <4>1, <4>2
    <3>3. next + Len(queue[t]) - 1 <= nextId
      BY <1>1, <2>2, <2>4, <3>1 DEF QueueContinues, Pending
    <3>. QED  BY <1>1, <1>2, <2>1, <2>2, <2>4, <3>1, <3>2, <3>3 DEF QueueContinues, Pending
  <2>. QED  BY <1>1, <1>2, <1>6, <1>7, <1>8, <1>11, <2>3, <2>4 DEF ReaderInv
<1>. QED  BY <1>9, <1>11

\* A step that leaves the log and the ring alone and touches one reader only
\* preserves the invariant if it does so for that reader.
LEMMA StepOfOneReader ==
  ASSUME IInv, TypeOK', NEW s \in Subs, ReaderInv(s)',
         UNCHANGED <<nextId, ring, log>>,
         \A t \in Subs \ {s} :
           /\ t \in subscribers' <=> t \in subscribers
           /\ queue'[t] = queue[t] /\ closed'[t] = closed[t]
           /\ phase'[t] = phase[t] /\ first'[t] = first[t]
           /\ delivered'[t] = delivered[t]
  PROVE  IInv'
<1>1. RingIsSuffix'
  BY DEF IInv, RingIsSuffix, FrameOf
<1>2. ASSUME NEW t \in Subs PROVE ReaderInv(t)'
  <2>1. ReaderInv(t)
    BY IInvByReader
  <2>2. CASE t = s
    BY <2>2
  <2>3. CASE t # s
    BY <2>1, <2>3, Unaffected
  <2>. QED  BY <2>2, <2>3
<1>3. Len(log)' = nextId' - 1
  BY DEF IInv
<1>. QED  BY <1>1, <1>2, <1>3, IInvNext

\* A subscription starts with a backlog that ends at the newest frame.
LEMMA EnrolInv ==
  ASSUME IInv, TypeOK', NEW s \in Subs, NEW backlog \in Seq(Frame),
         NEW last, Enrol(s, backlog, last), Len(backlog) < nextId,
         \A i \in 1..Len(backlog) :
           backlog[i] = FrameOf(log, nextId - Len(backlog) + i - 1)
  PROVE  IInv'
<1>1. ReaderInv(s)
  BY IInvByReader
<1>2. /\ nextId \in Nat \ {0} /\ Len(backlog) \in Nat
      /\ ~closed[s] /\ delivered[s] = <<>>
  BY <1>1, LenProperties DEF IInv, TypeOK, Enrol, ReaderInv
<1>3. /\ queue'[s] = backlog /\ s \in subscribers' /\ phase'[s] = "iterating"
      /\ first'[s] = nextId - Len(backlog)
      /\ closed'[s] = closed[s] /\ delivered'[s] = <<>>
      /\ nextId' = nextId /\ log' = log /\ ring' = ring
  BY <1>2 DEF Enrol, IInv, TypeOK
<1>4. ReaderInv(s)'
  <2>1. Sentinel(s)'
    <3>1. ASSUME NEW i \in 1..Len(backlog) PROVE backlog[i] # Close
      BY CloseAssumption, ElementOfSeq
    <3>. QED  BY <1>2, <1>3, <3>1 DEF Sentinel
  <2>2. QueueContinues(s)'
    <3>1. Pending(s)' = Len(backlog)
      BY <1>2, <1>3 DEF Pending
    <3>2. (first[s] + Len(delivered[s]))' = nextId - Len(backlog)
      BY <1>2, <1>3
    <3>3. nextId - Len(backlog) + Len(backlog) = nextId
      BY <1>2
    <3>4. \A i \in 1..Pending(s)' :
            queue'[s][i] = FrameOf(log', first'[s] + Len(delivered'[s]) + i - 1)
      BY <1>3, <3>1, <3>2
    <3>. QED  BY <1>2, <1>3, <3>1, <3>2, <3>3, <3>4 DEF QueueContinues
  <2>3. DeliveredIsContiguous(s)'
    BY <1>3 DEF DeliveredIsContiguous
  <2>4. first'[s] \in 1..nextId' /\ first'[s] + Len(delivered'[s]) <= nextId'
    BY <1>2, <1>3
  <2>. QED  BY <1>2, <1>3, <2>1, <2>2, <2>3, <2>4 DEF ReaderInv
<1>5. ASSUME NEW t \in Subs \ {s}
      PROVE  /\ t \in subscribers' <=> t \in subscribers
             /\ queue'[t] = queue[t] /\ closed'[t] = closed[t]
             /\ phase'[t] = phase[t] /\ first'[t] = first[t]
             /\ delivered'[t] = delivered[t]
  BY DEF Enrol, IInv, TypeOK
<1>. QED  BY <1>3, <1>4, <1>5, StepOfOneReader

\* The part of the ring a resuming reader is given ends at the newest frame.
LEMMA BacklogOfRing ==
  ASSUME IInv, NEW k \in 0..Len(ring)
  PROVE  LET backlog == SubSeq(ring, k + 1, Len(ring)) IN
         /\ backlog \in Seq(Frame)
         /\ Len(backlog) = Len(ring) - k
         /\ Len(backlog) < nextId
         /\ \A i \in 1..Len(backlog) :
              backlog[i] = FrameOf(log, nextId - Len(backlog) + i - 1)
<1> DEFINE backlog == SubSeq(ring, k + 1, Len(ring))
<1>1. /\ ring \in Seq(Frame) /\ Len(ring) \in Nat /\ nextId \in Nat
      /\ Len(ring) < nextId
  BY LenProperties DEF IInv, TypeOK, RingIsSuffix
<1>2. /\ backlog \in Seq(Frame)
      /\ Len(backlog) = Len(ring) - k
      /\ \A i \in 1..Len(ring) - k : backlog[i] = ring[k + i]
  BY <1>1, SubSeqProperties
<1> HIDE DEF backlog
<1>3. ASSUME NEW i \in 1..Len(backlog)
      PROVE  backlog[i] = FrameOf(log, nextId - Len(backlog) + i - 1)
  <2>1. k + i \in 1..Len(ring)
    BY <1>1, <1>2
  <2>2. nextId - 1 - Len(ring) + (k + i) = nextId - Len(backlog) + i - 1
    BY <1>1, <1>2
  <2>. QED  BY <1>2, <2>1, <2>2 DEF IInv, RingIsSuffix
<1>4. Len(backlog) < nextId
  BY <1>1, <1>2
<1>. QED  BY <1>2, <1>3, <1>4 DEF backlog

\* Stopping closes every open reader behind what it was already offered.
LEMMA StopReader ==
  ASSUME IInv, Stop, NEW t \in Subs
  PROVE  ReaderInv(t)'
<1>1. /\ queue[t] \in Seq(Frame \cup {Close}) /\ Len(queue[t]) \in Nat
      /\ nextId \in Nat /\ first[t] \in Int /\ Len(delivered[t]) \in Nat
      /\ closed[t] \in BOOLEAN
  BY LenProperties DEF IInv, TypeOK
<1>2. ReaderInv(t)
  BY IInvByReader
<1>3. /\ UNCHANGED <<nextId, phase, log, first, delivered>>
      /\ subscribers' = {}
      /\ queue'[t] = IF t \in subscribers THEN Sealed(t) ELSE queue[t]
      /\ closed'[t] = (closed[t] \/ t \in subscribers)
  BY DEF Stop
<1>4. DeliveredIsContiguous(t)'
  BY <1>2, <1>3 DEF ReaderInv, DeliveredIsContiguous
<1>5. CASE t \in subscribers
  <2>1. phase[t] = "iterating" /\ ~closed[t] /\ Sentinel(t) /\ QueueContinues(t)
    BY <1>2, <1>5 DEF ReaderInv
  <2>2. queue'[t] = Append(queue[t], Close) /\ closed'[t]
    BY <1>3, <1>5, <2>1 DEF Sealed
  <2>3. /\ Len(queue'[t]) = Len(queue[t]) + 1
        /\ \A i \in 1..Len(queue[t]) : queue'[t][i] = queue[t][i]
        /\ queue'[t][Len(queue[t]) + 1] = Close
    BY <1>1, <2>2, AppendProperties
  <2>4. Sentinel(t)'
    <3>1. ASSUME NEW i \in 1..Len(queue'[t])
          PROVE  queue'[t][i] = Close <=> i = Len(queue'[t])
      <4>1. CASE i \in 1..Len(queue[t])
        BY <1>1, <2>1, <2>3, <4>1 DEF Sentinel
      <4>2. CASE i = Len(queue[t]) + 1
        BY <2>3, <4>2
      <4>. QED  BY <1>1, <2>3, <4>1, <4>2
    <3>2. queue'[t] # <<>>
      BY <1>1, <2>3
    <3>. QED  BY <2>2, <3>1, <3>2 DEF Sentinel
  <2>5. QueueContinues(t)'
    <3>1. Pending(t) = Len(queue[t]) /\ Pending(t)' = Len(queue[t])
      BY <1>1, <2>1, <2>2, <2>3 DEF Pending
    <3>2. /\ \A i \in 1..Len(queue[t]) :
               queue'[t][i] = FrameOf(log, first[t] + Len(delivered[t]) + i - 1)
          /\ first[t] + Len(delivered[t]) + Len(queue[t]) <= nextId
      BY <2>1, <2>3, <3>1 DEF QueueContinues
    <3>. QED  BY <1>3, <2>2, <3>1, <3>2 DEF QueueContinues
  <2>. QED  BY <1>2, <1>3, <1>4, <2>1, <2>2, <2>4, <2>5 DEF ReaderInv
<1>6. CASE t \notin subscribers
  <2>1. queue'[t] = queue[t] /\ closed'[t] = closed[t]
    BY <1>1, <1>3, <1>6
  <2>. QED  BY <1>2, <1>3, <1>6, <2>1, Unaffected
<1>. QED  BY <1>5, <1>6

\* Yielding a frame moves it from the queue to the end of what was delivered.
LEMMA ReceiveInv ==
  ASSUME IInv, TypeOK', NEW s \in Subs, Receive(s)
  PROVE  IInv'
<1>1. /\ queue[s] \in Seq(Frame \cup {Close}) /\ queue[s] # <<>>
      /\ Len(queue[s]) \in Nat /\ delivered[s] \in Seq(Frame)
      /\ Len(delivered[s]) \in Nat /\ nextId \in Nat /\ first[s] \in Int
      /\ Head(queue[s]) # Close /\ phase[s] = "iterating"
      /\ closed[s] \in BOOLEAN
  BY LenProperties DEF IInv, TypeOK, Receive, FrameReady
<1>2. Sentinel(s) /\ QueueContinues(s) /\ ReaderInv(s)
  BY <1>1, IInvByReader DEF ReaderInv
<1>3. /\ UNCHANGED <<nextId, ring, log, subscribers, closed, phase, first>>
      /\ queue'[s] = Tail(queue[s])
      /\ delivered'[s] = Append(delivered[s], Head(queue[s]))
  BY DEF Receive, FrameReady, backplane, IInv, TypeOK
<1>4. /\ Len(queue[s]) >= 1 /\ Len(queue'[s]) = Len(queue[s]) - 1
      /\ \A i \in 1..Len(queue'[s]) : queue'[s][i] = queue[s][i + 1]
      /\ Head(queue[s]) = queue[s][1]
  BY <1>1, <1>3, EmptySeq, HeadTailProperties
<1>5. /\ Len(delivered'[s]) = Len(delivered[s]) + 1
      /\ \A i \in 1..Len(delivered[s]) : delivered'[s][i] = delivered[s][i]
      /\ delivered'[s][Len(delivered[s]) + 1] = queue[s][1]
  <2>1. Head(queue[s]) \in Frame
    BY <1>1, HeadTailProperties
  <2>. QED  BY <1>1, <1>3, <1>4, <2>1, AppendProperties
<1>6. closed[s] => Len(queue[s]) >= 2
  BY <1>1, <1>2, <1>4 DEF Sentinel
<1>7. Pending(s) \in Nat /\ Pending(s)' = Pending(s) - 1
  BY <1>1, <1>3, <1>4, <1>6 DEF Pending
<1>8. Pending(s) >= 1 /\ Pending(s) <= Len(queue[s])
  BY <1>1, <1>4, <1>6 DEF Pending
<1>9. Sentinel(s)'
  <2>1. ASSUME NEW i \in 1..Len(queue'[s])
        PROVE  queue'[s][i] = Close <=> closed[s] /\ i = Len(queue'[s])
    <3>1. i + 1 \in 1..Len(queue[s]) /\ (i = Len(queue'[s]) <=> i + 1 = Len(queue[s]))
      BY <1>1, <1>4
    <3>. QED  BY <1>2, <1>4, <3>1 DEF Sentinel
  <2>2. closed[s] => queue'[s] # <<>>
    BY <1>1, <1>4, <1>6
  <2>. QED  BY <1>3, <2>1, <2>2 DEF Sentinel
<1>10. DeliveredIsContiguous(s)'
  <2> SUFFICES ASSUME NEW i \in 1..Len(delivered'[s])
               PROVE  delivered'[s][i] = FrameOf(log, first[s] + i - 1)
    BY <1>3 DEF DeliveredIsContiguous
  <2>1. CASE i \in 1..Len(delivered[s])
    BY <1>2, <1>5, <2>1 DEF ReaderInv, DeliveredIsContiguous
  <2>2. CASE i = Len(delivered[s]) + 1
    <3>1. queue[s][1] = FrameOf(log, first[s] + Len(delivered[s]) + 1 - 1)
      BY <1>2, <1>7, <1>8 DEF QueueContinues
    <3>2. first[s] + Len(delivered[s]) + 1 - 1 = first[s] + i - 1
      BY <1>1, <2>2
    <3>. QED  BY <1>5, <2>2, <3>1, <3>2
  <2>. QED  BY <1>1, <1>5, <2>1, <2>2
<1>sizes. /\ first[s] \in Int /\ Len(delivered[s]) \in Nat
          /\ Len(delivered'[s]) = Len(delivered[s]) + 1
  BY <1>1, <1>5
<1>11. QueueContinues(s)'
  <2>1. ASSUME NEW i \in 1..Pending(s)'
        PROVE  queue'[s][i]
                 = FrameOf(log, first[s] + Len(delivered'[s]) + i - 1)
    <3>1. i + 1 \in 1..Pending(s) /\ i \in 1..Len(queue'[s])
      BY <1>1, <1>4, <1>7, <1>8
    <3>2. queue[s][i + 1]
            = FrameOf(log, first[s] + Len(delivered[s]) + (i + 1) - 1)
      BY <1>2, <3>1 DEF QueueContinues
    <3>3. first[s] + Len(delivered[s]) + (i + 1) - 1
            = first[s] + Len(delivered'[s]) + i - 1
      BY <1>sizes, <1>7, SMTT(30)
    <3>. QED  BY <1>4, <3>1, <3>2, <3>3
  <2>2. first[s] + Len(delivered'[s]) + Pending(s)'
          = first[s] + Len(delivered[s]) + Pending(s)
    <3> DEFINE n == Len(delivered[s])
               p == Pending(s)
    <3>1. /\ first[s] \in Int /\ n \in Int /\ p \in Int
          /\ Len(delivered'[s]) = n + 1 /\ Pending(s)' = p - 1
      BY <1>sizes, <1>7
    <3> HIDE DEF n, p
    <3>2. first[s] + Len(delivered'[s]) + Pending(s)' = first[s] + n + p
      BY <3>1
    <3>. QED  BY <3>2 DEF n, p
  <2>. QED  BY <1>2, <1>3, <2>1, <2>2 DEF QueueContinues
<1>12. first[s] + Len(delivered'[s]) <= nextId
  BY <1>1, <1>2, <1>5, <1>7, <1>8, SMTT(30) DEF QueueContinues
<1>13. ReaderInv(s)'
  BY <1>1, <1>2, <1>3, <1>9, <1>10, <1>11, <1>12 DEF ReaderInv
<1>14. ASSUME NEW t \in Subs \ {s}
       PROVE  /\ t \in subscribers' <=> t \in subscribers
              /\ queue'[t] = queue[t] /\ closed'[t] = closed[t]
              /\ phase'[t] = phase[t] /\ first'[t] = first[t]
              /\ delivered'[t] = delivered[t]
  BY DEF Receive, FrameReady, backplane, IInv, TypeOK
<1>. QED  BY <1>3, <1>13, <1>14, StepOfOneReader

\* A reader that ends, by its sentinel or by going away, is no longer
\* registered and keeps what it has yielded.
LEMMA EndInv ==
  ASSUME IInv, TypeOK', NEW s \in Subs, Finish(s) \/ Disconnect(s)
  PROVE  IInv'
<1>1. /\ phase'[s] \in {"ended", "left"} /\ closed'[s] /\ s \notin subscribers'
      /\ UNCHANGED <<nextId, ring, log, first, delivered>>
  <2>1. closed[s] => s \notin subscribers
    BY IInvByReader DEF ReaderInv
  <2>. QED  BY <2>1 DEF Finish, Disconnect, Aclose, IInv, TypeOK
<1>2. ReaderInv(s)
  BY IInvByReader
<1>3. ReaderInv(s)'
  BY <1>1, <1>2 DEF ReaderInv, DeliveredIsContiguous
<1>4. ASSUME NEW t \in Subs \ {s}
      PROVE  /\ t \in subscribers' <=> t \in subscribers
             /\ queue'[t] = queue[t] /\ closed'[t] = closed[t]
             /\ phase'[t] = phase[t] /\ first'[t] = first[t]
             /\ delivered'[t] = delivered[t]
  BY DEF Finish, Disconnect, Aclose, IInv, TypeOK
<1>. QED  BY <1>1, <1>3, <1>4, StepOfOneReader

\* The empty backplane satisfies the invariant.
LEMMA IInvInit ==
  ASSUME Init
  PROVE  IInv
<1>1. TypeOK
  BY TypeInit
<1>2. ASSUME NEW s \in Subs PROVE ReaderInv(s)
  BY DEF Init, ReaderInv, DeliveredIsContiguous
<1>3. Len(log) = nextId - 1 /\ RingIsSuffix
  BY ReplaySizeAssumption DEF Init, RingIsSuffix
<1>. QED  BY <1>1, <1>2, <1>3, IInvByReader

\* No step breaks the invariant.
LEMMA IInvStep == IInv /\ [Next]_vars => IInv'
<1> SUFFICES ASSUME IInv, [Next]_vars PROVE IInv'
  OBVIOUS
<1>1. TypeOK'
  BY TypeStep DEF IInv
<1>2. ASSUME UNCHANGED <<nextId, ring, subscribers, queue, closed, phase,
                         log, first, delivered>>
      PROVE  IInv'
  <2>1. \A t \in Subs : ReaderInv(t)
    BY IInvByReader
  <2>2. \A t \in Subs : ReaderInv(t)'
    BY <1>2, <2>1, Unaffected
  <2>3. RingIsSuffix' /\ Len(log)' = nextId' - 1
    BY <1>2 DEF IInv, RingIsSuffix
  <2>. QED  BY <1>1, <2>2, <2>3, IInvNext
<1>3. CASE Start
  BY <1>2, <1>3 DEF Start
<1>4. CASE Stop
  <2>1. RingIsSuffix' /\ Len(log)' = nextId' - 1
    BY <1>4, ReplaySizeAssumption DEF Stop, IInv, TypeOK, RingIsSuffix
  <2>. QED  BY <1>1, <1>4, <2>1, StopReader, IInvNext
<1>5. ASSUME NEW e \in Events, Publish(e) PROVE IInv'
  <2>1. Len(log)' = nextId' - 1
    BY <1>5 DEF Publish, IInv, TypeOK
  <2>. QED  BY <1>1, <1>5, <2>1, PublishRing, PublishReader, IInvNext
<1>6. ASSUME NEW s \in Subs, SubscribeLive(s) PROVE IInv'
  <2>1. <<>> \in Seq(Frame) /\ Len(<<>>) = 0 /\ nextId \in Nat \ {0}
    BY EmptySeq DEF IInv, TypeOK
  <2>2. Enrol(s, <<>>, Live)
    BY <1>6 DEF SubscribeLive
  <2>3. \A i \in 1..Len(<<>>) :
          <<>>[i] = FrameOf(log, nextId - Len(<<>>) + i - 1)
    BY <2>1
  <2>4. Len(<<>>) < nextId
    BY <2>1
  <2>. QED  BY <1>1, <2>1, <2>2, <2>3, <2>4, EnrolInv
<1>7. ASSUME NEW s \in Subs, NEW last \in 0..MaxPublish + 1,
             SubscribeAfter(s, last)
      PROVE  IInv'
  <2>1. PICK k \in 0..Len(ring) : Enrol(s, SubSeq(ring, k + 1, Len(ring)), last)
    BY <1>7 DEF SubscribeAfter
  <2>. QED  BY <1>1, <2>1, BacklogOfRing, EnrolInv
<1>8. ASSUME NEW s \in Subs, Receive(s) PROVE IInv'
  BY <1>1, <1>8, ReceiveInv
<1>9. ASSUME NEW s \in Subs, Finish(s) \/ Disconnect(s) PROVE IInv'
  BY <1>1, <1>9, EndInv
<1>10. CASE UNCHANGED vars
  BY <1>2, <1>10 DEF vars
<1>. QED
  BY <1>3, <1>4, <1>5, <1>6, <1>7, <1>8, <1>9, <1>10 DEF Next

\* The inductive invariant holds in every reachable state.
THEOREM Invariance == Spec => []IInv
BY IInvInit, IInvStep, PTL DEF Spec

\* Every reader gets every frame published since the one it resumed at,
\* exactly once and in order (publish, subscribe, stop, aclose, __aiter__).
THEOREM NoReaderMissesAFrame == Spec => []GapFree
BY Invariance, PTL DEF IInv

\* The set of subscribers, the closed flags and the sentinels agree.
THEOREM OpenReadersAreRegistered == Spec => []Registered
BY Invariance, PTL DEF IInv
\* The frames of the ring that are newer than a number are those after some of
\* its places.
LEMMA SomeSuffixIsNewer ==
  ASSUME IInv, NEW last \in Int
  PROVE  \E k \in 0..Len(ring) : NewerAfter(last, k)
<1> DEFINE base == nextId - 1 - Len(ring)
           k == IF last <= base THEN 0
                ELSE IF last - base >= Len(ring) THEN Len(ring) ELSE last - base
<1>1. Len(ring) \in Nat /\ DOMAIN ring = 1..Len(ring) /\ base \in Int
  BY LenProperties DEF IInv, TypeOK
<1>2. ASSUME NEW i \in 1..Len(ring) PROVE ring[i].id = base + i
  <2>1. ring[i] = FrameOf(log, base + i)
    BY DEF IInv, RingIsSuffix
  <2>. QED  BY <2>1 DEF FrameOf
<1> HIDE DEF base
<1>3. k \in 0..Len(ring) /\ \A i \in 1..Len(ring) : base + i > last <=> i > k
  BY <1>1
<1>4. NewerAfter(last, k)
  <2> HIDE DEF k
  <2>. QED  BY <1>1, <1>2, <1>3 DEF NewerAfter
<1>. QED  BY <1>3, <1>4

\* The list comprehension, frame by frame.
KeptStep(last, kept, n) ==
  IF n = 0 THEN <<>>
  ELSE IF ring[n].id > last THEN Append(kept[n - 1], ring[n])
  ELSE kept[n - 1]

\* It has the frames after those places, in their order.
LEMMA NewerIsSuffix ==
  ASSUME IInv, NEW last \in Int, NEW k \in 0..Len(ring), NewerAfter(last, k)
  PROVE  Newer(last) = SubSeq(ring, k + 1, Len(ring))
<1>1. PICK N, r : N = Len(ring) /\ r = ring
  OBVIOUS
<1>2. N \in Nat /\ r \in Seq(Frame) /\ DOMAIN r = 1..N /\ N = Len(r)
  BY <1>1, LenProperties DEF IInv, TypeOK
<1>3. \A i \in 1..N : r[i].id > last <=> i > k
  BY <1>1, <1>2 DEF NewerAfter
<1>4. PICK g : g = [n \in 0..N |-> SubSeq(r, k + 1, n)]
  OBVIOUS
<1>5. ASSUME NEW n \in 0..N PROVE g[n] = KeptStep(last, g, n)
  <2>1. CASE n = 0
    <3>1. SubSeq(r, k + 1, 0) = <<>>
      BY <1>1, <1>2, SubSeqProperties
    <3>. QED  BY <1>4, <2>1, <3>1 DEF KeptStep
  <2>2. CASE n # 0 /\ n > k
    <3>1. n \in 1..N /\ n - 1 \in 0..N /\ r[n].id > last
      BY <1>2, <1>3, <2>2
    <3>2. SubSeq(r, k + 1, n) = Append(SubSeq(r, k + 1, n - 1), r[n])
      BY <1>1, <1>2, <2>2, <3>1
    <3>. QED  BY <1>1, <1>4, <2>2, <3>1, <3>2 DEF KeptStep
  <2>3. CASE n # 0 /\ n <= k
    <3>1. n \in 1..N /\ n - 1 \in 0..N /\ ~(r[n].id > last)
      BY <1>1, <1>2, <1>3, <2>3
    <3>2. SubSeq(r, k + 1, n) = <<>> /\ SubSeq(r, k + 1, n - 1) = <<>>
      BY <1>1, <1>2, <2>3, <3>1, SubSeqProperties
    <3>. QED  BY <1>1, <1>4, <2>3, <3>1, <3>2 DEF KeptStep
  <2>. QED  BY <1>1, <1>2, <2>1, <2>2, <2>3
<1>6. g = [n \in 0..N |-> KeptStep(last, g, n)]
  BY <1>4, <1>5
<1>7. PICK kept : /\ kept = [n \in 0..N |-> KeptStep(last, kept, n)]
                  /\ Newer(last) = kept[N]
  <2>1. PICK it : /\ it = CHOOSE kept : kept = [n \in 0..N |-> KeptStep(last, kept, n)]
                  /\ Newer(last) = it[N]
    BY <1>1 DEF Newer, KeptStep
  <2>. QED  BY <1>6, <2>1
<1>8. ASSUME NEW m \in 0..N, kept[m] # g[m] PROVE FALSE
  <2> DEFINE Bad == {n \in 0..N : kept[n] # g[n]}
  <2>1. Bad \in SUBSET Nat /\ Bad # {}
    BY <1>2, <1>8
  <2>2. PICK n \in Bad : \A j \in Bad : n <= j
    <3> HIDE DEF Bad
    <3>. QED  BY <2>1, LeastNatural
  <2>3. n \in 0..N /\ kept[n] = KeptStep(last, kept, n) /\ g[n] = KeptStep(last, g, n)
    BY <1>5, <1>7
  <2>4. CASE n = 0
    BY <2>2, <2>3, <2>4 DEF KeptStep
  <2>5. CASE n # 0
    <3>1. n - 1 \in 0..N /\ ~(n <= n - 1)
      BY <1>2, <2>3, <2>5
    <3>2. kept[n - 1] = g[n - 1]
      BY <2>2, <3>1
    <3>. QED  BY <2>2, <2>3, <2>5, <3>2 DEF KeptStep
  <2>. QED  BY <2>4, <2>5
<1>9. N \in 0..N
  BY <1>2
<1>10. kept[N] = SubSeq(r, k + 1, N)
  BY <1>4, <1>8, <1>9
<1>. QED  BY <1>1, <1>7, <1>10

\* Whatever number a client rewinds to, the comprehension of subscribe hands it
\* a suffix of the ring, wherever the newer frames are looked for.
THEOREM RewindingFilters == Spec => []ReplayIsFilter
<1>1. ASSUME IInv, NEW last \in 0..MaxPublish + 1
      PROVE  \E k \in 0..Len(ring) :
               /\ NewerAfter(last, k)
               /\ Newer(last) = SubSeq(ring, k + 1, Len(ring))
  <2>1. last \in Int
    BY MaxPublishAssumption
  <2>. QED  BY <1>1, <2>1, SomeSuffixIsNewer, NewerIsSuffix
<1>2. IInv => ReplayIsFilter
  BY <1>1 DEF ReplayIsFilter
<1>. QED  BY <1>2, Invariance, PTL
=============================================================================
