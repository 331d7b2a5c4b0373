------------------------- MODULE BackplaneRefinement -------------------------
(***************************************************************************)
(* Every step of the backplane is a step of the abstract feed or leaves    *)
(* the feed unchanged, for any readers, payloads, ring size and bound.     *)
(***************************************************************************)
EXTENDS BackplaneProofs

\* The position behind which nothing can be replayed any more.
Horizon == nextId - 1 - Len(ring)

\* What the invariant says of one reader, in the terms of the feed.
LEMMA ReaderFacts ==
  ASSUME IInv, NEW s \in Subs
  PROVE  /\ nextId \in Nat \ {0} /\ Len(log) = nextId - 1 /\ Len(log) \in Nat
         /\ first[s] \in 1..nextId /\ closed[s] \in BOOLEAN
         /\ Len(delivered[s]) \in Nat /\ Len(queue[s]) \in Nat
         /\ phase[s] \in {"unborn", "iterating", "ended", "left"}
         /\ ReaderInv(s)
<1>1. TypeOK /\ ReaderInv(s) /\ Len(log) = nextId - 1
  BY IInvByReader
<1>2. Len(delivered[s]) \in Nat /\ Len(queue[s]) \in Nat /\ Len(log) \in Nat
  BY <1>1, LenProperties DEF TypeOK
<1>. QED  BY <1>1, <1>2 DEF TypeOK, ReaderInv

\* A reader none of whose state changes stands where it stood in the feed.
LEMMA SameReader ==
  ASSUME NEW t \in Subs,
         queue'[t] = queue[t], closed'[t] = closed[t], phase'[t] = phase[t],
         first'[t] = first[t], delivered'[t] = delivered[t]
  PROVE  /\ Status(t)' = Status(t) /\ Cursor(t)' = Cursor(t)
         /\ Limit(t)' = Limit(t) /\ Got(t)' = Got(t)
BY DEF Status, Cursor, Limit, Got, Pending

\* The empty backplane is the empty feed.
LEMMA FeedInit ==
  ASSUME Init
  PROVE  F!Init
<1>1. log = <<>> /\ nextId - 1 - Len(ring) = 0
  <2>1. nextId = 1
    BY DEF Init
  <2>2. Len(ring) = 0
    BY DEF Init
  <2>3. nextId - 1 - Len(ring) = 0
    BY <2>1, <2>2
  <2>. QED  BY <2>3 DEF Init
<1>2. ASSUME NEW s \in Subs
      PROVE  Status(s) = "new" /\ Cursor(s) = 0 /\ Limit(s) = 0
  BY DEF Init, Status, Cursor, Limit
<1>3. ASSUME NEW s \in Subs PROVE Got(s) = <<>>
  <2>1. delivered[s] = <<>>
    BY DEF Init
  <2>. QED  BY <2>1 DEF Got
<1>. QED  BY <1>1, <1>2, <1>3 DEF Init, Live, F!Init, F!Live

\* Appending to the log moves the horizon past what leaves the ring, and no
\* reader.
LEMMA PublishRefines ==
  ASSUME IInv, NEW e \in Events, Publish(e)
  PROVE  F!Publish(e)
<1>1. /\ ring \in Seq(Frame) /\ Len(ring) \in Nat /\ nextId \in Nat \ {0}
      /\ Len(log) = nextId - 1 /\ Len(ring) <= ReplaySize
  BY LenProperties DEF IInv, TypeOK, RingIsSuffix
<1>2. /\ nextId <= MaxPublish /\ nextId' = nextId + 1 /\ log' = Append(log, e)
      /\ ring' = Bounded(Append(ring, [id |-> nextId, event |-> e]))
      /\ UNCHANGED <<subscribers, closed, phase, first, asked, delivered>>
  BY DEF Publish, Remember
<1>3. Len(ring') = IF Len(ring) + 1 > ReplaySize THEN Len(ring) ELSE Len(ring) + 1
  <2> DEFINE all == Append(ring, [id |-> nextId, event |-> e])
  <2>1. all \in Seq(Frame) /\ all # <<>> /\ Len(all) = Len(ring) + 1
    <3>1. [id |-> nextId, event |-> e] \in Frame
      BY <1>1 DEF Frame
    <3> DEFINE frame == [id |-> nextId, event |-> e]
    <3> HIDE DEF frame
    <3>2. Append(ring, frame) \in Seq(Frame) /\ Append(ring, frame) # <<>>
          /\ Len(Append(ring, frame)) = Len(ring) + 1
      BY <1>1, <3>1, AppendProperties DEF frame
    <3>. QED  BY <3>2 DEF frame
  <2> HIDE DEF all
  <2>2. Len(Tail(all)) = Len(all) - 1
    BY <2>1, HeadTailProperties
  <2>3. ring' = IF Len(all) > ReplaySize THEN Tail(all) ELSE all
    BY <1>2 DEF all, Bounded
  <2>. QED  BY <1>1, <2>1, <2>2, <2>3
<1>4. Horizon' = F!Later(Horizon, Len(log) + 1 - ReplaySize)
  BY <1>1, <1>2, <1>3, ReplaySizeAssumption DEF Horizon, F!Later
<1>5. ASSUME NEW t \in Subs
      PROVE  /\ Status(t)' = Status(t) /\ Cursor(t)' = Cursor(t)
             /\ Limit(t)' = Limit(t) /\ Got(t)' = Got(t)
  <2>1. Status(t)' = Status(t) /\ Cursor(t)' = Cursor(t) /\ Got(t)' = Got(t)
    BY <1>2 DEF Status, Cursor, Got
  <2>2. Limit(t)' = Limit(t)
    <3>1. CASE t \in subscribers
      <4>1. Status(t) # "closing"
        BY <3>1, ReaderFacts DEF ReaderInv, Status
      <4>. QED  BY <2>1, <4>1 DEF Limit
    <3>2. CASE t \notin subscribers
      <4>1. queue'[t] = queue[t]
        BY <3>2 DEF Publish
      <4>. QED  BY <1>2, <4>1, SameReader
    <3>. QED  BY <3>1, <3>2
  <2>. QED  BY <2>1, <2>2
<1>6. Len(log) < MaxPublish
  BY <1>1, <1>2, MaxPublishAssumption
<1>. QED  BY <1>2, <1>4, <1>5, <1>6 DEF F!Publish, Horizon

\* Stopping halts the feed: an open reader is owed all that was logged so far.
LEMMA StopRefines ==
  ASSUME IInv, Stop
  PROVE  F!Halt
<1>1. /\ UNCHANGED <<nextId, phase, log, first, asked, delivered>> /\ ring' = <<>>
      /\ closed' = [s \in Subs |-> closed[s] \/ s \in subscribers]
      /\ queue' = [s \in Subs |-> IF s \in subscribers THEN Sealed(s)
                                                       ELSE queue[s]]
  BY DEF Stop
<1>2. Horizon' = Len(log)
  <2>1. Len(ring') = 0 /\ nextId' = nextId /\ nextId \in Nat /\ Len(log) = nextId - 1
    BY <1>1, EmptySeq DEF IInv, TypeOK
  <2>. QED  BY <2>1 DEF Horizon
<1>3. ASSUME NEW t \in Subs
      PROVE  /\ Status(t)' = IF Status(t) = "open" THEN "closing" ELSE Status(t)
             /\ Limit(t)' = IF Status(t) = "open" THEN Len(log) ELSE Limit(t)
             /\ Cursor(t)' = Cursor(t) /\ Got(t)' = Got(t)
  <2>1. Cursor(t)' = Cursor(t) /\ Got(t)' = Got(t)
    BY <1>1 DEF Cursor, Got
  <2>2. CASE t \in subscribers
    <3>1. /\ phase[t] = "iterating" /\ ~closed[t] /\ QueueContinues(t)
          /\ Len(queue[t]) \in Nat /\ Len(delivered[t]) \in Nat
          /\ first[t] \in 1..nextId /\ nextId \in Nat /\ Len(log) = nextId - 1
      BY <2>2, ReaderFacts DEF ReaderInv
    <3>2. closed'[t] /\ Len(queue'[t]) = Len(queue[t]) + 1
      <4>1. queue[t] \in Seq(Frame \cup {Close})
        BY DEF IInv, TypeOK
      <4>2. closed'[t] /\ queue'[t] = Append(queue[t], Close)
        BY <1>1, <2>2, <3>1 DEF Sealed
      <4>. QED  BY <4>1, <4>2, AppendProperties
    <3>3. Status(t) = "open" /\ Status(t)' = "closing"
      BY <1>1, <3>1, <3>2 DEF Status
    <3>4. Cursor(t) = first[t] - 1 + Len(delivered[t]) /\ Pending(t)' = Len(queue[t])
      BY <3>1, <3>2 DEF Cursor, Pending
    <3>5. first[t] + Len(delivered[t]) + Len(queue[t]) = nextId
      BY <3>1 DEF QueueContinues, Pending
    <3>6. Cursor(t) + Pending(t)' = Len(log)
      BY <3>1, <3>4, <3>5, SMTT(30)
    <3>7. Limit(t)' = Cursor(t)' + Pending(t)'
      BY <3>3 DEF Limit
    <3>. QED  BY <2>1, <3>3, <3>6, <3>7
  <2>3. CASE t \notin subscribers
    <3>1. queue'[t] = queue[t] /\ closed'[t] = closed[t]
      <4>1. closed[t] \in BOOLEAN
        BY ReaderFacts
      <4>. QED  BY <1>1, <2>3, <4>1
    <3>2. Status(t) # "open"
      BY <2>3, ReaderFacts DEF ReaderInv, Status
    <3>. QED  BY <1>1, <2>1, <3>1, <3>2, SameReader
  <2>. QED  BY <2>2, <2>3
<1>. QED
  BY <1>1, <1>2, <1>3 DEF F!Halt, Horizon

\* What a step that only concerns reader s is in the feed.
LEMMA OthersKeepTheirPlace ==
  ASSUME IInv, NEW s \in Subs,
         \/ Receive(s) \/ Finish(s) \/ Disconnect(s)
         \/ \E backlog, last : Enrol(s, backlog, last),
         NEW t \in Subs, t # s
  PROVE  /\ Status(t)' = Status(t) /\ Cursor(t)' = Cursor(t)
         /\ Limit(t)' = Limit(t) /\ Got(t)' = Got(t)
<1>1. /\ queue'[t] = queue[t] /\ closed'[t] = closed[t] /\ phase'[t] = phase[t]
      /\ first'[t] = first[t] /\ delivered'[t] = delivered[t]
  BY DEF IInv, TypeOK, Receive, Finish, Disconnect, Aclose, Enrol, backplane
<1>. QED  BY <1>1, SameReader

\* A new subscription joins the feed just behind its backlog.
LEMMA EnrolRefines ==
  ASSUME IInv, NEW s \in Subs, NEW backlog, Len(backlog) \in Nat,
         NEW last, Enrol(s, backlog, last)
  PROVE  F!JoinAt(s, nextId - 1 - Len(backlog), last)
<1>1. /\ phase[s] = "unborn" /\ ~closed[s] /\ delivered[s] = <<>>
      /\ nextId \in Nat
  BY ReaderFacts DEF Enrol, ReaderInv
<1>2. /\ UNCHANGED <<nextId, ring, log, closed, delivered>>
      /\ phase'[s] = "iterating" /\ first'[s] = nextId - Len(backlog)
  BY DEF Enrol, IInv, TypeOK
<1>3. Status(s) = "new" /\ Status(s)' = "open"
  BY <1>1, <1>2 DEF Status
<1>4. Limit(s) = 0 /\ Limit(s)' = 0
  BY <1>3 DEF Limit
<1>5. Cursor(s)' = nextId - 1 - Len(backlog)
  <2>1. Cursor(s)' = first'[s] - 1 + Len(delivered'[s])
    BY <1>2 DEF Cursor
  <2>2. Len(delivered'[s]) = 0
    BY <1>1, <1>2, EmptySeq
  <2>. QED  BY <1>1, <1>2, <2>1, <2>2
<1>6. Got(s)' = Got(s)
  BY <1>2 DEF Got
<1>7. Horizon' = Horizon
  BY <1>2 DEF Horizon
<1>8. ASSUME NEW t \in Subs, t # s
      PROVE  /\ Status(t)' = Status(t) /\ Cursor(t)' = Cursor(t)
             /\ Limit(t)' = Limit(t) /\ Got(t)' = Got(t)
  BY <1>8, OthersKeepTheirPlace
<1>. QED
  BY <1>2, <1>3, <1>4, <1>5, <1>6, <1>7, <1>8 DEF Enrol, F!JoinAt, Horizon

\* Subscribing without a Last-Event-ID joins at the end of the log.
LEMMA SubscribeLiveRefines ==
  ASSUME IInv, NEW s \in Subs, SubscribeLive(s)
  PROVE  F!JoinLive(s)
<1>1. Len(<<>>) = 0 /\ Enrol(s, <<>>, Live)
  BY EmptySeq DEF SubscribeLive
<1>2. F!JoinAt(s, nextId - 1 - Len(<<>>), Live)
  BY <1>1, EnrolRefines
<1>3. nextId - 1 - Len(<<>>) = Len(log)
  BY <1>1, ReaderFacts
<1>. QED  BY <1>2, <1>3 DEF F!JoinLive, F!Live, Live

\* Subscribing with one joins behind it, or at the horizon if that is later,
\* or at the end of the log if the id is not yet given.
LEMMA SubscribeAfterRefines ==
  ASSUME IInv, NEW s \in Subs, NEW last \in 0..MaxPublish + 1,
         SubscribeAfter(s, last)
  PROVE  F!JoinAfter(s, last)
<1>1. /\ Len(ring) \in Nat /\ nextId \in Nat /\ Len(ring) < nextId
      /\ Len(log) = nextId - 1 /\ last \in Nat
  BY LenProperties, MaxPublishAssumption DEF IInv, TypeOK, RingIsSuffix
<1>2. PICK k \in 0..Len(ring) :
        /\ NewerAfter(last, k)
        /\ Enrol(s, SubSeq(ring, k + 1, Len(ring)), last)
  BY DEF SubscribeAfter
<1> DEFINE backlog == SubSeq(ring, k + 1, Len(ring))
<1>3. Len(backlog) = Len(ring) - k
  BY BacklogOfRing
<1> HIDE DEF backlog
<1>4. \A i \in 1..Len(ring) : ring[i].id = Horizon + i
  <2>1. \A i \in 1..Len(ring) : ring[i] = FrameOf(log, Horizon + i)
    BY DEF IInv, RingIsSuffix, Horizon
  <2>2. \A n : FrameOf(log, n).id = n
    BY DEF FrameOf
  <2>. QED  BY <2>1, <2>2
<1>5. \A i \in 1..Len(ring) : Horizon + i > last <=> i > k
  <2>1. DOMAIN ring = 1..Len(ring)
    BY LenProperties DEF IInv, TypeOK
  <2>. QED  BY <1>2, <1>4, <2>1 DEF NewerAfter
<1>6. Horizon \in Nat /\ Horizon + Len(ring) = Len(log)
  BY <1>1 DEF Horizon
<1>7. Horizon + k = IF last >= Len(log) THEN Len(log) ELSE F!Later(last, Horizon)
  <2>1. CASE last >= Len(log)
    <3>1. k = Len(ring)
      BY <1>1, <1>5, <1>6, <2>1
    <3>. QED  BY <1>6, <2>1, <3>1
  <2>2. CASE last < Len(log) /\ last <= Horizon
    <3>1. k = 0
      BY <1>1, <1>5, <1>6, <2>2
    <3>. QED  BY <1>1, <1>6, <2>2, <3>1 DEF F!Later
  <2>3. CASE last < Len(log) /\ last > Horizon
    <3>1. last - Horizon \in 1..Len(ring) - 1
      BY <1>1, <1>6, <2>3
    <3>2. k <= last - Horizon
      <4>1. ~(Horizon + (last - Horizon) > last)
        BY <1>1, <1>6
      <4>. QED  BY <1>5, <1>6, <3>1, <4>1
    <3>3. k >= last - Horizon
      <4>1. Horizon + (last - Horizon + 1) > last
        BY <1>1, <1>6
      <4>2. last - Horizon + 1 \in 1..Len(ring)
        BY <1>1, <1>6, <3>1
      <4>. QED  BY <1>1, <1>5, <1>6, <4>1, <4>2
    <3>4. Horizon + k = last
      BY <1>1, <1>6, <3>2, <3>3
    <3>. QED  BY <1>1, <1>6, <2>3, <3>4 DEF F!Later
  <2>. QED  BY <1>1, <1>6, <2>1, <2>2, <2>3
<1>8. F!JoinAt(s, nextId - 1 - Len(backlog), last)
  <2>1. Enrol(s, backlog, last)
    BY <1>2 DEF backlog
  <2>2. Len(backlog) \in Nat
    BY <1>1, <1>3
  <2>. QED  BY <2>1, <2>2, EnrolRefines
<1>9. nextId - 1 - Len(backlog) = Horizon + k
  BY <1>1, <1>3 DEF Horizon
<1>10. F!JoinAt(s, IF last >= Len(log) THEN Len(log)
                                      ELSE F!Later(last, Horizon), last)
  BY <1>7, <1>8, <1>9
<1>. QED  BY <1>10 DEF F!JoinAfter, Horizon

\* Yielding a frame hands the reader the next entry of the log.
LEMMA ReceiveRefines ==
  ASSUME IInv, NEW s \in Subs, Receive(s)
  PROVE  F!Deliver(s)
<1>1. /\ nextId \in Nat /\ Len(log) = nextId - 1 /\ first[s] \in 1..nextId
      /\ Len(delivered[s]) \in Nat /\ Len(queue[s]) \in Nat
      /\ phase[s] = "iterating" /\ Sentinel(s) /\ QueueContinues(s)
      /\ queue[s] \in Seq(Frame \cup {Close}) /\ queue[s] # <<>>
      /\ delivered[s] \in Seq(Frame)
      /\ Head(queue[s]) # Close
  BY ReaderFacts DEF ReaderInv, Receive, FrameReady, IInv, TypeOK
<1>2. /\ UNCHANGED <<nextId, ring, log, closed, phase, first, asked>>
      /\ queue'[s] = Tail(queue[s])
      /\ delivered'[s] = Append(delivered[s], Head(queue[s]))
  BY DEF Receive, FrameReady, backplane, IInv, TypeOK
<1>3. /\ Len(queue[s]) >= 1 /\ Len(queue'[s]) = Len(queue[s]) - 1
      /\ Head(queue[s]) = queue[s][1] /\ Head(queue[s]) \in Frame
  BY <1>1, <1>2, EmptySeq, HeadTailProperties
<1>4. /\ Len(delivered'[s]) = Len(delivered[s]) + 1
      /\ \A i \in 1..Len(delivered[s]) : delivered'[s][i] = delivered[s][i]
      /\ delivered'[s][Len(delivered[s]) + 1] = queue[s][1]
  BY <1>1, <1>2, <1>3, AppendProperties
<1>5. closed[s] => Len(queue[s]) >= 2
  BY <1>1, <1>3 DEF Sentinel
<1>6. Pending(s) \in Nat /\ Pending(s) >= 1 /\ Pending(s)' = Pending(s) - 1
  BY <1>1, <1>2, <1>3, <1>5 DEF Pending
<1>7. Cursor(s) = first[s] - 1 + Len(delivered[s]) /\ Cursor(s)' = Cursor(s) + 1
  <2>1. Cursor(s) = first[s] - 1 + Len(delivered[s])
    BY <1>1 DEF Cursor
  <2>2. Cursor(s)' = first[s] - 1 + Len(delivered'[s])
    BY <1>1, <1>2 DEF Cursor
  <2>3. /\ first[s] \in Int /\ Len(delivered[s]) \in Nat
        /\ Len(delivered'[s]) = Len(delivered[s]) + 1
    BY <1>1, <1>4
  <2>. QED  BY <2>1, <2>2, <2>3
<1>8. Status(s) \in {"open", "closing"} /\ Status(s)' = Status(s)
      /\ (Status(s) = "closing" <=> closed[s])
  BY <1>1, <1>2 DEF Status
<1>9. Limit(s)' = Limit(s)
  <2>1. Cursor(s)' + Pending(s)' = Cursor(s) + Pending(s)
    BY <1>1, <1>6, <1>7
  <2>. QED  BY <1>8, <2>1 DEF Limit
<1>10. \/ Status(s) = "open" /\ Cursor(s) < Len(log)
       \/ Status(s) = "closing" /\ Cursor(s) < Limit(s)
  <2>1. CASE Status(s) = "open"
    <3>1. first[s] + Len(delivered[s]) + Pending(s) = nextId
      BY <1>1, <1>8, <2>1 DEF QueueContinues
    <3>. QED  BY <1>1, <1>6, <1>7, <2>1, <3>1
  <2>2. CASE Status(s) = "closing"
    <3>1. Limit(s) = Cursor(s) + Pending(s)
      BY <2>2 DEF Limit
    <3>. QED  BY <1>1, <1>6, <1>7, <2>2, <3>1
  <2>. QED  BY <1>8, <2>1, <2>2
<1>11. Got(s)' = Append(Got(s), log[Cursor(s) + 1])
  <2>1. queue[s][1].event = log[Cursor(s) + 1]
    <3>1. queue[s][1] = FrameOf(log, first[s] + Len(delivered[s]) + 1 - 1)
      BY <1>1, <1>6 DEF QueueContinues
    <3>2. first[s] + Len(delivered[s]) + 1 - 1 = Cursor(s) + 1
      <4>1. first[s] \in Int /\ Len(delivered[s]) \in Nat
        BY <1>1
      <4>. QED  BY <1>7, <4>1
    <3>. QED  BY <3>1, <3>2 DEF FrameOf
  <2>2. Got(s)' = [i \in 1..Len(delivered[s]) + 1 |-> delivered'[s][i].event]
    BY <1>4 DEF Got
  <2>3. Append(Got(s), log[Cursor(s) + 1])
          = [i \in 1..Len(delivered[s]) + 1 |->
               IF i = Len(delivered[s]) + 1 THEN log[Cursor(s) + 1]
                                            ELSE delivered[s][i].event]
    BY <1>1 DEF Got
  <2>4. \A i \in 1..Len(delivered[s]) + 1 :
          delivered'[s][i].event = IF i = Len(delivered[s]) + 1
                                   THEN log[Cursor(s) + 1]
                                   ELSE delivered[s][i].event
    <3>1. Len(delivered[s]) \in Nat
      BY <1>1
    <3>. QED  BY <1>4, <2>1, <3>1
  <2>. QED  BY <2>2, <2>3, <2>4
<1>12. Horizon' = Horizon
  BY <1>2 DEF Horizon
<1>13. ASSUME NEW t \in Subs, t # s
       PROVE  /\ Status(t)' = Status(t) /\ Cursor(t)' = Cursor(t)
              /\ Limit(t)' = Limit(t) /\ Got(t)' = Got(t)
  BY <1>13, OthersKeepTheirPlace
<1>. QED
  BY <1>2, <1>7, <1>8, <1>9, <1>10, <1>11, <1>12, <1>13 DEF F!Deliver, Horizon

\* However a reader ends, it keeps its place and the log its own.
LEMMA EndKeepsPlace ==
  ASSUME IInv, NEW s \in Subs, Finish(s) \/ Disconnect(s)
  PROVE  /\ Status(s) \in {"open", "closing"} /\ Cursor(s)' = Cursor(s)
         /\ Limit(s)' = 0 /\ Got(s)' = Got(s)
         /\ log' = log /\ Horizon' = Horizon /\ asked' = asked
         /\ \A t \in Subs : t # s =>
              /\ Status(t)' = Status(t) /\ Cursor(t)' = Cursor(t)
              /\ Limit(t)' = Limit(t) /\ Got(t)' = Got(t)
<1>1. /\ phase[s] = "iterating" /\ phase'[s] \in {"ended", "left"}
      /\ UNCHANGED <<nextId, ring, log, first, asked, delivered>>
  BY DEF Finish, Disconnect, IInv, TypeOK
<1>2. Status(s) \in {"open", "closing"} /\ Status(s)' # "closing"
  BY <1>1 DEF Status
<1>3. Cursor(s)' = Cursor(s) /\ Got(s)' = Got(s) /\ Limit(s)' = 0
  BY <1>1, <1>2 DEF Cursor, Got, Limit
<1>4. ASSUME NEW t \in Subs, t # s
      PROVE  /\ Status(t)' = Status(t) /\ Cursor(t)' = Cursor(t)
             /\ Limit(t)' = Limit(t) /\ Got(t)' = Got(t)
  BY <1>4, OthersKeepTheirPlace
<1>. QED  BY <1>1, <1>2, <1>3, <1>4 DEF Horizon

\* A reader that reaches its sentinel has been handed all it was owed.
LEMMA FinishRefines ==
  ASSUME IInv, NEW s \in Subs, Finish(s)
  PROVE  F!Finish(s)
<1>1. /\ queue[s] \in Seq(Frame \cup {Close}) /\ queue[s] # <<>>
      /\ Len(queue[s]) \in Nat /\ Head(queue[s]) = Close
      /\ phase[s] = "iterating" /\ phase'[s] = "ended" /\ Sentinel(s)
      /\ first[s] \in Int /\ Len(delivered[s]) \in Nat
  BY ReaderFacts DEF ReaderInv, Finish, IInv, TypeOK
<1>2. queue[s][1] = Close /\ 1 \in 1..Len(queue[s])
  BY <1>1, EmptySeq, HeadTailProperties
<1>3. closed[s] /\ Len(queue[s]) = 1
  BY <1>1, <1>2 DEF Sentinel
<1>4. Status(s) = "closing" /\ Status(s)' = "done"
  BY <1>1, <1>3 DEF Status
<1>5. Cursor(s) = Limit(s)
  <2>1. Pending(s) = 0
    BY <1>3 DEF Pending
  <2>2. Cursor(s) \in Int
    BY <1>1 DEF Cursor
  <2>. QED  BY <1>4, <2>1, <2>2 DEF Limit
<1>. QED  BY <1>4, <1>5, EndKeepsPlace DEF F!Finish, F!Quit, Horizon

\* A reader that goes away leaves the feed.
LEMMA DisconnectRefines ==
  ASSUME IInv, NEW s \in Subs, Disconnect(s)
  PROVE  F!Leave(s)
<1>1. Status(s)' = "gone"
  BY DEF Disconnect, IInv, TypeOK, Status
<1>. QED  BY <1>1, EndKeepsPlace DEF F!Leave, F!Quit, Horizon

\* Every step of the backplane is a step of the feed or a stutter.
LEMMA FeedStep == IInv /\ [Next]_vars => [F!Next]_(F!vars)
<1> SUFFICES ASSUME IInv, [Next]_vars PROVE [F!Next]_(F!vars)
  OBVIOUS
<1>1. ASSUME UNCHANGED <<nextId, ring, subscribers, queue, closed, phase,
                         log, first, asked, delivered>>
      PROVE  UNCHANGED F!vars
  <2>1. ASSUME NEW t \in Subs
        PROVE  /\ Status(t)' = Status(t) /\ Cursor(t)' = Cursor(t)
               /\ Limit(t)' = Limit(t) /\ Got(t)' = Got(t)
    BY <1>1, SameReader
  <2>. QED  BY <1>1, <2>1 DEF F!vars
<1>2. CASE Start
  BY <1>1, <1>2 DEF Start
<1>3. CASE Stop
  BY <1>3, StopRefines DEF F!Next
<1>4. ASSUME NEW e \in Events, Publish(e) PROVE F!Next
  BY <1>4, PublishRefines DEF F!Next
<1>5. ASSUME NEW s \in Subs, SubscribeLive(s) PROVE F!Next
  BY <1>5, SubscribeLiveRefines DEF F!Next
<1>6. ASSUME NEW s \in Subs, NEW last \in 0..MaxPublish + 1,
             SubscribeAfter(s, last)
      PROVE  F!Next
  BY <1>6, SubscribeAfterRefines DEF F!Next
<1>7. ASSUME NEW s \in Subs, Receive(s) PROVE F!Next
  BY <1>7, ReceiveRefines DEF F!Next
<1>8. ASSUME NEW s \in Subs, Finish(s) \/ Disconnect(s) PROVE F!Next
  BY <1>8, FinishRefines, DisconnectRefines DEF F!Next
<1>9. CASE UNCHANGED vars
  BY <1>1, <1>9 DEF vars
<1>. QED
  BY <1>2, <1>3, <1>4, <1>5, <1>6, <1>7, <1>8, <1>9 DEF Next

\* InProcessPubSub and its subscriptions implement the feed: ids are positions
\* in one log, a resuming reader gets what is newer and still replayable, then
\* what is published, until it leaves or has drained what preceded a stop.
THEOREM Refinement == Spec => ImplementsFeed
BY FeedInit, FeedStep, Invariance, PTL DEF Spec, ImplementsFeed, F!Spec
=============================================================================
