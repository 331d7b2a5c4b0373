---------------------------- MODULE PanelProofs ----------------------------
(***************************************************************************)
(* Proofs about Panel: how the connection loop, its requests, its abort    *)
(* controller and the live flag go together, what the list of events       *)
(* holds, and that a resumed stream leaves no hole in it, for every number *)
(* of events, limits, requests in flight and faults.                       *)
(***************************************************************************)
EXTENDS Panel, Ranks, SequenceTheorems, TLAPS

\* c has the fields of a stream and no others.
Shaped(c) == c = [at |-> c.at, last |-> c.last, pipe |-> c.pipe]

\* The loop waits for a snapshot exactly when it has asked for one; the flag is
\* set only while it reads a stream; destroy reaches the controller the loop is
\* going to use.
LoopInv ==
  /\ Loop \in DOMAIN req
  /\ req[Loop].at # "idle" <=> loop = "reconciling"
  /\ LiveIsStreaming
  /\ destroyed => aborted
  /\ Shaped(conn)

\* What Continue does for the loop, and for any other reconciliation.
LEMMA ContinueCases ==
  ASSUME NEW r \in Requests, Continue(r)
  PROVE  /\ r # Loop => UNCHANGED <<loop, conn>>
         /\ r = Loop /\ aborted => loop' = "ended" /\ UNCHANGED conn
         /\ r = Loop /\ ~aborted => loop' = "streaming"
         /\ Shaped(conn) => Shaped(conn')
BY DEF Continue, NoStream, Shaped

\* The panel starts with the request of its loop.
LEMMA LoopInit == Init => LoopInv
BY DEF Init, LoopInv, LiveIsStreaming, Requests, Asked, NoStream, Shaped

\* A reconciliation that comes to its end, applied or not.
LEMMA SettledInv ==
  ASSUME LoopInv, NEW r \in Requests, req[r].at # "idle", Continue(r),
         req' = [req EXCEPT ![r] = Idle],
         UNCHANGED <<live, destroyed, aborted>>
  PROVE  LoopInv'
<1>1. Loop \in DOMAIN req' /\ (destroyed => aborted)' /\ Shaped(conn')
  BY ContinueCases DEF LoopInv
<1>2. CASE r = Loop
  <2>1. loop = "reconciling" /\ ~live
    BY <1>2 DEF LoopInv, LiveIsStreaming
  <2>2. req'[Loop].at = "idle"
    BY <1>2 DEF LoopInv, Idle
  <2>3. loop' # "reconciling"
    BY <1>2, ContinueCases
  <2>. QED  BY <1>1, <2>1, <2>2, <2>3 DEF LoopInv, LiveIsStreaming
<1>3. CASE r # Loop
  <2>1. req'[Loop] = req[Loop] /\ loop' = loop
    BY <1>3, ContinueCases DEF LoopInv
  <2>. QED  BY <1>1, <2>1 DEF LoopInv, LiveIsStreaming
<1>. QED  BY <1>2, <1>3

\* A reconciliation that is begun by the timer or by the host.
LEMMA AskInv ==
  ASSUME LoopInv, NEW r \in Others, Ask(r)
  PROVE  LoopInv'
<1>1. r # Loop
  BY LimitsAssumption
<1>. QED  BY <1>1 DEF Ask, LoopInv, LiveIsStreaming, Shaped

\* The stream is over, for whatever reason.
LEMMA OverInv ==
  ASSUME LoopInv, StreamOver
  PROVE  LoopInv'
BY DEF StreamOver, Offline, NoStream, Shaped, LoopInv, LiveIsStreaming

\* Every step keeps the invariant.
LEMMA LoopStep == LoopInv /\ [Next]_vars => LoopInv'
<1> SUFFICES ASSUME LoopInv, [Next]_vars PROVE LoopInv'
  OBVIOUS
<1>1. ASSUME NEW e \in Events, Commit(e) \/ Publish(e) PROVE LoopInv'
  BY <1>1 DEF Commit, Publish, panel, LoopInv, LiveIsStreaming, Shaped
<1>2. CASE Restart
  BY <1>2 DEF Restart, panel, LoopInv, LiveIsStreaming, Shaped
<1>3. CASE StreamOpens
  BY <1>3 DEF StreamOpens, panel, LoopInv, LiveIsStreaming, Shaped
<1>4. ASSUME NEW r \in Requests, QueryReads(r) PROVE LoopInv'
  BY <1>4 DEF QueryReads, LoopInv, LiveIsStreaming, Shaped
<1>5. ASSUME NEW r \in Requests, Reconcile(r) PROVE LoopInv'
  BY <1>5, SettledInv DEF Reconcile
<1>6. ASSUME NEW r \in Requests, ReconcileFails(r) PROVE LoopInv'
  BY <1>6, SettledInv DEF ReconcileFails
<1>7. ASSUME NEW r \in Others, Poll(r) \/ Refresh(r) PROVE LoopInv'
  BY <1>7, AskInv DEF Poll, Refresh
<1>8. CASE FrameArrives
  BY <1>8 DEF FrameArrives, LoopInv, LiveIsStreaming, Shaped
<1>9. CASE StreamEnds \/ StreamFails \/ StreamAborted
  BY <1>9, OverInv DEF StreamEnds, StreamFails, StreamAborted
<1>10. CASE BackoffEnds
  <2>1. ~live /\ req[Loop].at = "idle"
    BY <1>10 DEF BackoffEnds, LoopInv, LiveIsStreaming
  <2>2. UNCHANGED <<live, destroyed, conn>>
    BY <1>10 DEF BackoffEnds
  <2>3. CASE Again
    <3>1. loop' = "reconciling" /\ req' = [req EXCEPT ![Loop] = Asked]
      BY <1>10, <2>3 DEF BackoffEnds
    <3>2. req'[Loop] = Asked /\ Loop \in DOMAIN req'
      BY <3>1 DEF LoopInv
    <3>. QED  BY <2>1, <2>2, <2>3, <3>1, <3>2 DEF Again, Asked, LoopInv,
           LiveIsStreaming
  <2>4. CASE ~Again
    BY <1>10, <2>1, <2>2, <2>4 DEF BackoffEnds, LoopInv, LiveIsStreaming
  <2>. QED  BY <2>3, <2>4
<1>11. CASE Destroy
  BY <1>11 DEF Destroy, Abort, LoopInv, LiveIsStreaming, Shaped
<1>12. CASE UNCHANGED vars
  BY <1>12 DEF vars, LoopInv, LiveIsStreaming, Shaped
<1>. QED
  BY <1>1, <1>2, <1>3, <1>4, <1>5, <1>6, <1>7, <1>8, <1>9, <1>10, <1>11,
     <1>12 DEF Next, Steps

\* The loop, its request, its controller and the flag agree in every state.
THEOREM LoopInvariance == Spec => []LoopInv
BY LoopInit, LoopStep, PTL DEF Spec

\* Polling is off only while a stream is read (connectLive, the timer).
THEOREM LiveOnlyWhileStreaming == Spec => []LiveIsStreaming
<1>1. LoopInv => LiveIsStreaming
  BY DEF LoopInv
<1>. QED  BY <1>1, LoopInvariance, PTL

\* No step of a destroyed panel asks for a stream.
LEMMA NoStreamOpened ==
  ASSUME LoopInv, [Next]_vars, destroyed
  PROVE  conn'.at = conn.at \/ conn'.at # "asked"
<1>0. aborted /\ Shaped(conn)
  BY DEF LoopInv
<1>1. ASSUME NEW e \in Events, Commit(e) \/ Publish(e)
      PROVE  conn'.at = conn.at \/ conn'.at # "asked"
  BY <1>0, <1>1 DEF Commit, Publish, Shaped
<1>2. CASE Restart
  BY <1>2 DEF Restart
<1>3. CASE StreamOpens
  BY <1>3 DEF StreamOpens
<1>4. ASSUME NEW r \in Requests, QueryReads(r) \/ Reconcile(r) \/ ReconcileFails(r)
      PROVE  conn' = conn
  BY <1>0, <1>4, ContinueCases DEF QueryReads, Reconcile, ReconcileFails
<1>5. ASSUME NEW r \in Others, Poll(r) \/ Refresh(r) PROVE conn' = conn
  BY <1>5 DEF Poll, Refresh, Ask
<1>6. CASE FrameArrives
  BY <1>6 DEF FrameArrives
<1>7. CASE StreamEnds \/ StreamFails \/ StreamAborted
  <2>1. StreamOver
    BY <1>7 DEF StreamEnds, StreamFails, StreamAborted
  <2>2. conn'.at = "none"
    BY <2>1 DEF StreamOver, NoStream
  <2>. QED  BY <2>2
<1>8. CASE BackoffEnds \/ Destroy
  BY <1>8 DEF BackoffEnds, Destroy
<1>9. CASE UNCHANGED vars
  BY <1>9 DEF vars
<1>. QED
  BY <1>1, <1>2, <1>3, <1>4, <1>5, <1>6, <1>7, <1>8, <1>9 DEF Next, Steps

\* A destroyed panel opens no stream, wherever its loop was waiting.
THEOREM DestroyedPanelIsQuiet == Spec => DestroyedOpensNothing
<1>1. LoopInv /\ [Next]_vars =>
        [destroyed => conn'.at = conn.at \/ conn'.at # "asked"]_vars
  BY NoStreamOpened
<1>. QED  BY <1>1, LoopInvariance, PTL DEF Spec, DestroyedOpensNothing
-----------------------------------------------------------------------------
\* The answer of the server, and what the panel makes of it.

\* The sequence s has no element twice.
Distinct(s) == \A i, j \in DOMAIN s : s[i] = s[j] => i = j

\* The sequence s has the element x.
Lists(s, x) == \E i \in DOMAIN s : s[i] = x

\* Events from the newest to the oldest.
Later(S) == {p \in S \X S : p[1] > p[2]}

\* The rank that the query orders by is a rank in this order.
LEMMA NewestRank ==
  ASSUME NEW S \in SUBSET Events
  PROVE  /\ IsFiniteSet(S)
         /\ Orders(Later(S), S)
         /\ \A e \in S : Cardinality({f \in S : f > e}) = Rank(S, Later(S), e)
<1>1. IsFiniteSet(Events) /\ S \subseteq Int
  BY LimitsAssumption, FS_Interval DEF Events
<1>2. IsFiniteSet(S)
  BY <1>1, FS_Subset
<1>3. Orders(Later(S), S)
  BY <1>1 DEF Orders, Later
<1>4. ASSUME NEW e \in S
      PROVE  {f \in S : f > e} = Before(S, Later(S), e)
  BY DEF Before, Later
<1>. QED  BY <1>2, <1>3, <1>4 DEF Rank

\* A set in the order of the answer: every element in one position.
LEMMA NewestFirstLists ==
  ASSUME NEW S \in SUBSET Events
  PROVE  /\ NewestFirst(S) \in Seq(S)
         /\ Len(NewestFirst(S)) = Cardinality(S)
         /\ Distinct(NewestFirst(S))
         /\ \A e \in S : Lists(NewestFirst(S), e)
<1> DEFINE n == Cardinality(S)
           s == NewestFirst(S)
           R == Later(S)
<1>1. n \in Nat
  BY NewestRank, FS_CardinalityType
<1>2. ASSUME NEW i \in 1..n
      PROVE  s[i] \in S /\ Rank(S, R, s[i]) = i - 1
  <2>1. \E e \in S : Rank(S, R, e) = i - 1
    BY <1>1, NewestRank, RankReached
  <2>2. \E e \in S : Cardinality({f \in S : f > e}) = i - 1
    BY <2>1, NewestRank
  <2>3. s[i] = CHOOSE e \in S : Cardinality({f \in S : f > e}) = i - 1
    BY DEF NewestFirst
  <2>4. s[i] \in S /\ Cardinality({f \in S : f > s[i]}) = i - 1
    BY <2>2, <2>3
  <2>. QED  BY <2>4, NewestRank
<1>3. DOMAIN s = 1..n /\ s \in [1..n -> S]
  BY <1>2 DEF NewestFirst
<1>4. s \in Seq(S)
  BY <1>1, <1>3, SeqDef
<1>5. Len(s) = n
  BY <1>1, <1>3, <1>4, LenProperties
<1>6. Distinct(s)
  <2>1. ASSUME NEW i \in 1..n, NEW j \in 1..n, s[i] = s[j]
        PROVE  i = j
    <3>1. i - 1 = j - 1
      BY <1>2, <2>1
    <3>. QED  BY <3>1, <1>1
  <2>. QED  BY <1>3, <2>1 DEF Distinct
<1>7. ASSUME NEW e \in S PROVE Lists(s, e)
  <2>1. Rank(S, R, e) \in 0..(n - 1)
    BY NewestRank, RankBound
  <2>2. Rank(S, R, e) + 1 \in 1..n
    BY <1>1, <2>1
  <2>3. PICK i \in 1..n : i = Rank(S, R, e) + 1
    BY <2>2
  <2>4. Rank(S, R, s[i]) = Rank(S, R, e) /\ s[i] \in S
    BY <1>1, <1>2, <2>1, <2>3
  <2>5. s[i] = e
    BY <2>4, NewestRank, RankUnique
  <2>. QED  BY <1>3, <2>5 DEF Lists
<1>. QED  BY <1>4, <1>5, <1>6, <1>7

\* The answer to a query: at most QueryLimit events, none twice; all that are
\* stored, if the limit allows it.
LEMMA AnswerLists ==
  ASSUME NEW S \in SUBSET Events
  PROVE  LET answer == NewestFirst(Newest(S)) IN
         /\ answer \in Seq(S)
         /\ Len(answer) <= QueryLimit
         /\ Distinct(answer)
         /\ Cardinality(S) <= QueryLimit => \A e \in S : Lists(answer, e)
<1>0. QueryLimit \in Nat
  BY LimitsAssumption
<1>1. Newest(S) = {e \in S : Rank(S, Later(S), e) < QueryLimit}
  BY NewestRank DEF Newest
<1>2. Newest(S) \in SUBSET Events /\ Newest(S) \subseteq S
  BY DEF Newest
<1>3. Cardinality(Newest(S)) <= QueryLimit
  BY <1>0, <1>1, NewestRank, RankedFirst
<1>4. ASSUME Cardinality(S) <= QueryLimit PROVE Newest(S) = S
  <2>1. Cardinality(S) \in Nat
    BY NewestRank, FS_CardinalityType
  <2>2. ASSUME NEW e \in S PROVE Rank(S, Later(S), e) < QueryLimit
    <3>1. Rank(S, Later(S), e) \in 0..(Cardinality(S) - 1)
      BY NewestRank, RankBound
    <3>. QED  BY <1>0, <1>4, <2>1, <3>1
  <2>. QED  BY <1>1, <2>2
<1>5. NewestFirst(Newest(S)) \in Seq(S)
  BY <1>2, NewestFirstLists, SeqMonotonic
<1>. QED  BY <1>2, <1>3, <1>4, <1>5, NewestFirstLists
\* A sequence without repetition is not longer than the set it is taken from.
LEMMA DistinctLength ==
  ASSUME NEW S, IsFiniteSet(S), NEW s \in Seq(S), Distinct(s)
  PROVE  Len(s) <= Cardinality(S)
<1>1. Len(s) \in Nat /\ s \in [1..Len(s) -> S] /\ DOMAIN s = 1..Len(s)
  BY LenProperties
<1>2. s \in Injection(1..Len(s), S)
  BY <1>1, Fun_IsInj DEF Distinct
<1>3. Cardinality(1..Len(s)) = Len(s)
  BY <1>1, FS_Interval
<1>. QED  BY <1>2, <1>3, FS_Injection

\* An event that is not listed yet can be added without a repetition.
LEMMA AppendDistinct ==
  ASSUME NEW S, NEW s \in Seq(S), Distinct(s), NEW e \in S, ~Lists(s, e)
  PROVE  /\ Append(s, e) \in Seq(S)
         /\ Len(Append(s, e)) = Len(s) + 1
         /\ Distinct(Append(s, e))
         /\ \A x : Lists(Append(s, e), x) <=> Lists(s, x) \/ x = e
<1> DEFINE t == Append(s, e)
           n == Len(s)
<1>1. /\ t \in Seq(S) /\ Len(t) = n + 1
      /\ \A i \in 1..n : t[i] = s[i]
      /\ t[n + 1] = e
  BY AppendProperties
<1>2. n \in Nat /\ DOMAIN s = 1..n /\ DOMAIN t = 1..(n + 1)
  BY <1>1, LenProperties
<1>3. Distinct(t)
  <2>1. \A i \in 1..n : t[i] # e
    BY <1>1, <1>2 DEF Lists
  <2>2. \A i, j \in 1..n : t[i] = t[j] => i = j
    BY <1>1, <1>2 DEF Distinct
  <2>3. ASSUME NEW i \in 1..(n + 1), NEW j \in 1..(n + 1), t[i] = t[j]
        PROVE  i = j
    <3> HIDE DEF t, n
    <3>1. CASE i = n + 1
      BY <1>1, <1>2, <2>1, <2>3, <3>1
    <3>2. CASE j = n + 1
      BY <1>1, <1>2, <2>1, <2>3, <3>2
    <3>. QED  BY <1>2, <2>2, <2>3, <3>1, <3>2
  <2>. QED  BY <1>2, <2>3 DEF Distinct
<1>4. ASSUME NEW x PROVE Lists(t, x) <=> Lists(s, x) \/ x = e
  <2> HIDE DEF t, n
  <2>1. 1..(n + 1) = 1..n \cup {n + 1}
    BY <1>2
  <2>. QED  BY <1>1, <1>2, <2>1 DEF Lists
<1>. QED  BY <1>1, <1>3, <1>4

\* What is cut is cut at the front.
LEMMA TrimmedLists ==
  ASSUME NEW s \in Seq(Events), Distinct(s)
  PROVE  /\ Trimmed(s) \in Seq(Events)
         /\ Len(Trimmed(s)) <= MaxShown
         /\ Distinct(Trimmed(s))
         /\ \A x : Lists(Trimmed(s), x) => Lists(s, x)
         /\ Len(s) <= MaxShown => Trimmed(s) = s
<1> DEFINE n == Len(s)
           m == n - MaxShown + 1
           t == SubSeq(s, m, n)
<1>1. n \in Nat /\ MaxShown \in Nat /\ DOMAIN s = 1..n
  BY LenProperties, LimitsAssumption
<1>2. CASE n <= MaxShown
  <2>1. Trimmed(s) = s
    BY <1>1, <1>2 DEF Trimmed
  <2>. QED  BY <1>2, <2>1
<1>3. CASE n > MaxShown
  <2>1. Trimmed(s) = t
    BY <1>3 DEF Trimmed
  <2>2. m \in Int /\ n \in Int /\ m \in 1..(n + 1) /\ n - m + 1 = MaxShown
    BY <1>1, <1>3
  <2>3. \A i \in m..n : s[i] \in Events
    BY <1>1, <2>2, ElementOfSeq
  <2>4. /\ t \in Seq(Events)
        /\ Len(t) = MaxShown
        /\ \A i \in 1..MaxShown : t[i] = s[m + i - 1]
    <3> HIDE DEF m, n
    <3>1. /\ t \in Seq(Events)
          /\ Len(t) = IF m <= n THEN n - m + 1 ELSE 0
          /\ \A i \in 1..(n - m + 1) : t[i] = s[m + i - 1]
      BY <2>2, <2>3, SubSeqProperties
    <3>. QED  BY <1>1, <2>2, <3>1
  <2>5. DOMAIN t = 1..MaxShown
    BY <2>4, LenProperties
  <2>6. \A i \in 1..MaxShown : m + i - 1 \in DOMAIN s
    BY <1>1, <2>2
  <2>7. ASSUME NEW i \in 1..MaxShown, NEW j \in 1..MaxShown, t[i] = t[j]
        PROVE  i = j
    <3>1. m + i - 1 = m + j - 1
      BY <2>4, <2>6, <2>7 DEF Distinct
    <3>. QED  BY <2>2, <3>1
  <2>8. Distinct(t)
    BY <2>5, <2>7 DEF Distinct
  <2>9. ASSUME NEW x, Lists(t, x) PROVE Lists(s, x)
    BY <2>4, <2>5, <2>6, <2>9 DEF Lists
  <2>. QED  BY <1>1, <1>3, <2>1, <2>4, <2>8, <2>9
<1>. QED  BY <1>1, <1>2, <1>3

\* A frame is merged: the event is listed, none twice, and nothing is lost if
\* the list has room.
LEMMA MergeLists ==
  ASSUME events \in Seq(Events), Len(events) <= MaxShown, Distinct(events),
         NEW e \in Events
  PROVE  /\ Merge(e) \in Seq(Events)
         /\ Len(Merge(e)) <= MaxShown
         /\ Distinct(Merge(e))
         /\ \A x : Lists(Merge(e), x) => Lists(events, x) \/ x = e
         /\ Len(events) < MaxShown \/ Lists(events, e) =>
              \A x : Lists(events, x) \/ x = e => Lists(Merge(e), x)
<1>1. e \in Shown <=> Lists(events, e)
  BY DEF Shown, Lists
<1>2. CASE Lists(events, e)
  BY <1>1, <1>2 DEF Merge
<1>3. CASE ~Lists(events, e)
  <2> DEFINE t == Append(events, e)
  <2>1. Merge(e) = Trimmed(t)
    BY <1>1, <1>3 DEF Merge
  <2>2. /\ t \in Seq(Events) /\ Distinct(t) /\ Len(t) = Len(events) + 1
        /\ \A x : Lists(t, x) <=> Lists(events, x) \/ x = e
    BY <1>3, AppendDistinct
  <2> HIDE DEF t
  <2>3. Len(events) < MaxShown => Len(t) <= MaxShown
    BY <2>2, LenProperties, LimitsAssumption
  <2>. QED  BY <1>3, <2>1, <2>2, <2>3, TrimmedLists
<1>. QED  BY <1>2, <1>3

\* The frames a subscription starts with: positions of the feed with the events
\* at them, and all behind the header's id if the ring still has them.
LEMMA BacklogFrames ==
  ASSUME frames \in Seq(Events), NEW last \in Nat
  PROVE  /\ Backlog(last) \in Seq((Nat \ {0}) \X Events)
         /\ \A k \in DOMAIN Backlog(last) :
              /\ Backlog(last)[k][1] \in DOMAIN frames
              /\ Backlog(last)[k][2] = frames[Backlog(last)[k][1]]
         /\ last # 0 /\ last <= Len(frames) /\ last + Retain >= Len(frames) =>
              \A i \in DOMAIN frames : i > last =>
                \E k \in DOMAIN Backlog(last) : Backlog(last)[k][2] = frames[i]
<1> DEFINE n == Len(frames)
           missed == {i \in DOMAIN frames : last # 0 /\ i > last /\ i > n - Retain}
           c == Cardinality(missed)
           from == n - c
           b == [k \in 1..c |-> <<from + k, frames[from + k]>>]
<1>1. Backlog(last) = b
  BY DEF Backlog
<1>2. n \in Nat /\ DOMAIN frames = 1..n /\ Retain \in Nat
  BY LenProperties, LimitsAssumption
<1>3. IsFiniteSet(1..n) /\ Cardinality(1..n) = n
  BY <1>2, FS_Interval
<1>4. missed \in SUBSET (1..n)
  BY <1>2
<1>5. c \in Nat /\ c <= n
  <2> HIDE DEF missed
  <2>1. IsFiniteSet(missed) /\ c <= n
    BY <1>3, <1>4, FS_Subset
  <2>. QED  BY <2>1, FS_CardinalityType
<1>6. \A k \in 1..c : from + k \in 1..n
  <2> HIDE DEF c, n
  <2>. QED  BY <1>2, <1>5
<1>7. \A k \in 1..c : frames[from + k] \in Events
  <2> HIDE DEF c, from
  <2>. QED  BY <1>6, ElementOfSeq
<1>8. /\ DOMAIN b = 1..c
      /\ \A k \in 1..c : b[k][1] = from + k /\ b[k][2] = frames[from + k]
  <2> HIDE DEF c, from
  <2>. QED  OBVIOUS
<1>9. b \in Seq((Nat \ {0}) \X Events)
  <2>1. \A k \in 1..c : from + k \in Nat \ {0}
    <3> HIDE DEF c, from, n
    <3>. QED  BY <1>2, <1>6
  <2>2. b \in [1..c -> (Nat \ {0}) \X Events]
    <3> HIDE DEF c, from
    <3>. QED  BY <1>7, <2>1
  <2> HIDE DEF b, c
  <2>. QED  BY <1>5, <2>2, SeqDef
<1>10. ASSUME last # 0, last <= n, last + Retain >= n,
              NEW i \in 1..n, i > last
       PROVE  \E k \in 1..c : b[k][2] = frames[i]
  <2>1. missed = (last + 1)..n
    <3> HIDE DEF n
    <3>. QED  BY <1>2, <1>10
  <2>2. c = n - last
    <3> HIDE DEF n, missed
    <3>1. Cardinality((last + 1)..n) = n - last
      BY <1>2, <1>10, FS_Interval
    <3>. QED  BY <2>1, <3>1
  <2>3. from = last /\ i - last \in 1..c /\ from + (i - last) = i
    <3> HIDE DEF n, c
    <3>. QED  BY <1>2, <1>10, <2>2
  <2> HIDE DEF b, c, from
  <2>. QED  BY <1>8, <2>3
<1> HIDE DEF b, c, from
<1>11. \A k \in DOMAIN b : b[k][1] \in DOMAIN frames /\ b[k][2] = frames[b[k][1]]
  BY <1>2, <1>6, <1>8
<1>12. last # 0 /\ last <= n /\ last + Retain >= n =>
         \A i \in DOMAIN frames : i > last => \E k \in DOMAIN b : b[k][2] = frames[i]
  BY <1>2, <1>8, <1>10
<1>. QED  BY <1>1, <1>9, <1>11, <1>12
-----------------------------------------------------------------------------
\* The list.

\* Types; nothing is listed twice, neither by the panel nor in an answer that
\* will replace its list, and an answer fits the list.
ListInv ==
  /\ TypeOK
  /\ Distinct(events)
  /\ \A r \in Requests : Distinct(req[r].rows) /\ Len(req[r].rows) <= QueryLimit

\* What a reconciliation is, and what a stream is.
Answers == [at : {"idle", "asked", "answered"}, rows : Seq(Events)]
Streams == [at : {"none", "asked", "open", "ending"}, last : Nat,
            pipe : Seq((Nat \ {0}) \X Events)]

LEMMA EmptyLists ==
  /\ <<>> \in Seq(Events) /\ Len(<<>>) = 0 /\ Distinct(<<>>)
  /\ <<>> \in Seq((Nat \ {0}) \X Events)
  /\ Idle \in Answers /\ Asked \in Answers /\ NoStream \in Streams
BY EmptySeq DEF Distinct, Idle, Asked, NoStream, Answers, Streams

\* A request takes its next state.
LEMMA RequestInv ==
  ASSUME ListInv, NEW r \in Requests, NEW a \in Answers,
         Distinct(a.rows), Len(a.rows) <= QueryLimit,
         req' = [req EXCEPT ![r] = a]
  PROVE  /\ req' \in [Requests -> Answers]
         /\ \A q \in Requests : Distinct(req'[q].rows) /\ Len(req'[q].rows) <= QueryLimit
<1>1. req \in [Requests -> Answers]
  BY DEF ListInv, TypeOK, Answers
<1>2. \A q \in Requests : req'[q] = IF q = r THEN a ELSE req[q]
  BY <1>1
<1>. QED  BY <1>1, <1>2 DEF ListInv

LEMMA ContinueTypes ==
  ASSUME ListInv, NEW r \in Requests, Continue(r)
  PROVE  /\ conn' \in Streams
         /\ loop' \in {"reconciling", "streaming", "backoff", "ended"}
<1>1. conn \in Streams /\ lastEventId \in Nat
  BY DEF ListInv, TypeOK, Streams
<1>2. [NoStream EXCEPT !.at = "asked", !.last = Header] \in Streams
  BY <1>1, EmptyLists DEF Streams, NoStream, Header
<1>. QED  BY <1>1, <1>2 DEF Continue, ListInv, TypeOK

LEMMA ListInit == Init => ListInv
<1> SUFFICES ASSUME Init PROVE ListInv
  OBVIOUS
<1>1. MaxShown \in Nat /\ QueryLimit \in Nat /\ MaxFaults \in Nat
  BY LimitsAssumption
<1>2. /\ req \in [Requests -> Answers]
      /\ \A r \in Requests : req[r].rows = <<>>
  BY EmptyLists DEF Init, Idle, Asked
<1>3. conn \in Streams
  BY EmptyLists DEF Init
<1>4. frames \in Seq(Events) /\ events \in Seq(Events) /\ Len(events) = 0
  BY EmptyLists DEF Init
<1>5. TypeOK
  <2>1. /\ stored \subseteq Events /\ pending \subseteq stored
        /\ lastEventId \in Nat /\ faults \in 0..MaxFaults
        /\ Len(events) <= MaxShown
    BY <1>1, <1>4 DEF Init
  <2>2. /\ live \in BOOLEAN /\ destroyed \in BOOLEAN /\ aborted \in BOOLEAN
        /\ known \in BOOLEAN /\ clean \in BOOLEAN
        /\ loop \in {"reconciling", "streaming", "backoff", "ended"}
    BY DEF Init
  <2>. QED  BY <1>2, <1>3, <1>4, <2>1, <2>2 DEF TypeOK, Answers, Streams
<1>6. Distinct(events)
  BY EmptyLists DEF Init
<1>7. \A r \in Requests : Distinct(req[r].rows) /\ Len(req[r].rows) <= QueryLimit
  BY <1>1, <1>2, EmptyLists
<1>. QED  BY <1>5, <1>6, <1>7 DEF ListInv
\* Faults are counted up to the bound.
LEMMA FaultBound ==
  ASSUME ListInv, Fault
  PROVE  faults' \in 0..MaxFaults
<1>1. MaxFaults \in Nat
  BY LimitsAssumption
<1>2. faults \in 0..MaxFaults /\ faults < MaxFaults /\ faults' = faults + 1
  BY DEF ListInv, TypeOK, Fault
<1>. QED  BY <1>1, <1>2

\* A reconciliation that begins, is answered, or comes to its end.
LEMMA RequestSteps ==
  ASSUME ListInv,
         NEW r \in Requests,
         QueryReads(r) \/ Reconcile(r) \/ ReconcileFails(r) \/ Ask(r)
  PROVE  ListInv'
<1>1. PICK a \in Answers : /\ req' = [req EXCEPT ![r] = a]
                           /\ Distinct(a.rows) /\ Len(a.rows) <= QueryLimit
  <2>0. Len(<<>>) <= QueryLimit
    BY LimitsAssumption, EmptyLists
  <2>1. CASE QueryReads(r)
    <3> DEFINE rows == NewestFirst(Newest(stored))
               a == [at |-> "answered", rows |-> rows]
    <3>1. stored \in SUBSET Events
      BY DEF ListInv, TypeOK
    <3>2. rows \in Seq(Events) /\ Len(rows) <= QueryLimit /\ Distinct(rows)
      BY <3>1, AnswerLists, SeqMonotonic
    <3> HIDE DEF rows
    <3>3. a \in Answers
      BY <3>2 DEF Answers
    <3>. QED  BY <2>1, <3>2, <3>3 DEF QueryReads, rows
  <2>2. CASE Reconcile(r) \/ ReconcileFails(r)
    BY <2>0, <2>2, EmptyLists DEF Reconcile, ReconcileFails, Idle
  <2>3. CASE Ask(r)
    BY <2>0, <2>3, EmptyLists DEF Ask, Asked
  <2>. QED  BY <2>1, <2>2, <2>3
<1>2. /\ req' \in [Requests -> Answers]
      /\ \A q \in Requests : Distinct(req'[q].rows) /\ Len(req'[q].rows) <= QueryLimit
  BY <1>1, RequestInv
<1>3. events' \in Seq(Events) /\ Len(events') <= MaxShown /\ Distinct(events')
  <2>1. CASE Reconcile(r)
    <3>1. req[r].rows \in Seq(Events)
      BY DEF ListInv, TypeOK
    <3>2. Len(req[r].rows) <= MaxShown
      <4>1. Len(req[r].rows) \in Nat
        BY <3>1, LenProperties
      <4>2. Len(req[r].rows) <= QueryLimit
        BY DEF ListInv
      <4>. QED  BY <4>1, <4>2, LimitsAssumption
    <3>. QED  BY <2>1, <3>1, <3>2 DEF Reconcile, ListInv
  <2>2. CASE events' = events
    BY <2>2 DEF ListInv, TypeOK
  <2>. QED  BY <2>1, <2>2 DEF QueryReads, ReconcileFails, Ask
<1>4. conn' \in Streams /\ loop' \in {"reconciling", "streaming", "backoff", "ended"}
  <2>1. CASE Continue(r)
    BY <2>1, ContinueTypes
  <2>2. CASE UNCHANGED <<conn, loop>>
    BY <2>2 DEF ListInv, TypeOK, Streams
  <2>. QED  BY <2>1, <2>2 DEF QueryReads, Reconcile, ReconcileFails, Ask
<1>5. UNCHANGED <<stored, pending, frames, live, lastEventId, destroyed, aborted, known>>
  BY DEF QueryReads, Reconcile, ReconcileFails, Ask, server, history
<1>6. faults' \in 0..MaxFaults /\ clean' \in BOOLEAN
  <2>1. (faults' = faults \/ Fault) /\ (clean' = clean \/ clean' = FALSE)
    BY DEF QueryReads, Reconcile, ReconcileFails, Ask, history
  <2>2. faults \in 0..MaxFaults /\ clean \in BOOLEAN
    BY DEF ListInv, TypeOK
  <2>. QED  BY <2>1, <2>2, FaultBound
<1>7. TypeOK'
  BY <1>2, <1>3, <1>4, <1>5, <1>6 DEF ListInv, TypeOK, Answers, Streams
<1>. QED  BY <1>2, <1>3, <1>7 DEF ListInv

\* A step that leaves the requests and the list alone.
LEMMA ListKept ==
  ASSUME ListInv, UNCHANGED <<events, req>>, TypeOK'
  PROVE  ListInv'
BY DEF ListInv

\* A frame on its way to the panel.
LEMMA PipeTypes ==
  ASSUME ListInv
  PROVE  /\ conn \in Streams /\ conn.last \in Nat
         /\ conn.pipe \in Seq((Nat \ {0}) \X Events)
         /\ \A p \in Seq((Nat \ {0}) \X Events) : [conn EXCEPT !.pipe = p] \in Streams
         /\ \A a \in {"none", "asked", "open", "ending"} :
              [conn EXCEPT !.at = a] \in Streams
         /\ \A a \in {"none", "asked", "open", "ending"},
               p \in Seq((Nat \ {0}) \X Events) :
              [conn EXCEPT !.at = a, !.pipe = p] \in Streams
BY DEF ListInv, TypeOK, Streams

\* A frame arrives.
LEMMA FrameInv ==
  ASSUME ListInv, FrameArrives
  PROVE  ListInv'
<1> DEFINE frame == Head(conn.pipe)
<1>1. conn.pipe \in Seq((Nat \ {0}) \X Events) /\ conn.pipe # <<>>
  BY PipeTypes DEF FrameArrives
<1>2. frame \in (Nat \ {0}) \X Events /\ Tail(conn.pipe) \in Seq((Nat \ {0}) \X Events)
  BY <1>1, HeadTailProperties
<1>3. frame[1] \in Nat /\ frame[2] \in Events
  BY <1>2
<1>4. events' = Merge(frame[2]) /\ lastEventId' = frame[1]
  BY DEF FrameArrives
<1> HIDE DEF frame
<1>5. events' \in Seq(Events) /\ Len(events') <= MaxShown /\ Distinct(events')
  BY <1>3, <1>4, MergeLists DEF ListInv, TypeOK
<1>6. conn' \in Streams
  BY <1>2, PipeTypes DEF FrameArrives
<1>7. live' \in BOOLEAN /\ known' \in BOOLEAN
  BY DEF FrameArrives
<1>8. UNCHANGED <<server, destroyed, aborted, loop, req, faults, clean>>
  BY DEF FrameArrives
<1>9. TypeOK'
  BY <1>3, <1>4, <1>5, <1>6, <1>7, <1>8 DEF ListInv, TypeOK, Streams, server
<1>. QED  BY <1>5, <1>8, <1>9 DEF ListInv
\* Every step keeps the list in order.
LEMMA ListStep == ListInv /\ [Next]_vars => ListInv'
<1> SUFFICES ASSUME ListInv, [Next]_vars PROVE ListInv'
  OBVIOUS
<1>0. /\ MaxFaults \in Nat /\ TypeOK /\ conn \in Streams
      /\ (Fault => faults' \in 0..MaxFaults)
  BY LimitsAssumption, PipeTypes, FaultBound DEF ListInv
<1>1. ASSUME NEW e \in Events, Commit(e) PROVE ListInv'
  <2>1. stored' \subseteq Events /\ pending' \subseteq stored'
    BY <1>0, <1>1 DEF Commit, TypeOK
  <2>. QED  BY <1>0, <1>1, <2>1, ListKept DEF Commit, panel, history, TypeOK
<1>2. ASSUME NEW e \in Events, Publish(e) PROVE ListInv'
  <2>1. frames \in Seq(Events)
    BY <1>0 DEF TypeOK
  <2>2. frames' \in Seq(Events)
    BY <1>2, <2>1, AppendProperties DEF Publish
  <2>3. <<Len(frames) + 1, e>> \in (Nat \ {0}) \X Events
    BY <2>1, LenProperties
  <2>4. Append(conn.pipe, <<Len(frames) + 1, e>>) \in Seq((Nat \ {0}) \X Events)
    BY <2>3, PipeTypes, AppendProperties
  <2>5. conn' \in Streams
    BY <1>2, <2>4, PipeTypes DEF Publish
  <2>. QED  BY <1>0, <1>2, <2>2, <2>5, ListKept DEF Publish, panel, history,
         TypeOK, Streams
<1>3. CASE Restart
  <2>1. frames' \in Seq(Events) /\ pending' = {}
    BY <1>3, EmptyLists DEF Restart
  <2>2. conn' \in Streams
    BY <1>3, PipeTypes DEF Restart
  <2>. QED  BY <1>0, <1>3, <2>1, <2>2, ListKept DEF Restart, panel, TypeOK, Streams
<1>4. CASE StreamOpens
  <2>1. Backlog(conn.last) \in Seq((Nat \ {0}) \X Events)
    BY <1>0, PipeTypes, BacklogFrames DEF TypeOK
  <2>2. conn' \in Streams
    BY <1>4, <2>1, PipeTypes DEF StreamOpens
  <2>3. clean' \in BOOLEAN
    BY <1>4 DEF StreamOpens
  <2>. QED  BY <1>0, <1>4, <2>2, <2>3, ListKept DEF StreamOpens, server, panel,
         TypeOK, Streams
<1>5. ASSUME NEW r \in Requests, QueryReads(r) \/ Reconcile(r) \/ ReconcileFails(r)
      PROVE  ListInv'
  BY <1>5, RequestSteps
<1>6. ASSUME NEW r \in Others, Poll(r) \/ Refresh(r) PROVE ListInv'
  BY <1>6, RequestSteps DEF Poll, Refresh, Requests
<1>7. CASE FrameArrives
  BY <1>7, FrameInv
<1>8. CASE StreamEnds \/ StreamFails \/ StreamAborted
  <2>1. StreamOver /\ faults' \in 0..MaxFaults
    BY <1>0, <1>8 DEF StreamEnds, StreamFails, StreamAborted, TypeOK
  <2>2. conn' \in Streams
    BY <2>1, EmptyLists DEF StreamOver
  <2>3. live' \in BOOLEAN /\ loop' \in {"reconciling", "streaming", "backoff", "ended"}
    BY <2>1 DEF StreamOver, Offline
  <2>. QED  BY <1>0, <2>1, <2>2, <2>3, ListKept DEF StreamOver, server, TypeOK, Streams
<1>9. CASE BackoffEnds
  <2>1. /\ aborted' \in BOOLEAN /\ clean' \in BOOLEAN
        /\ loop' \in {"reconciling", "streaming", "backoff", "ended"}
    BY <1>0, <1>9 DEF BackoffEnds, TypeOK
  <2>2. UNCHANGED <<server, events, live, lastEventId, destroyed, conn, faults, known>>
    BY <1>9 DEF BackoffEnds
  <2>3. \/ UNCHANGED req
        \/ req' = [req EXCEPT ![Loop] = Asked]
    BY <1>9 DEF BackoffEnds
  <2>4. Loop \in Requests /\ Len(Asked.rows) <= QueryLimit /\ Distinct(Asked.rows)
    BY EmptyLists, LimitsAssumption DEF Requests, Asked
  <2>5. /\ req' \in [Requests -> Answers]
        /\ \A q \in Requests : Distinct(req'[q].rows) /\ Len(req'[q].rows) <= QueryLimit
    BY <2>3, <2>4, EmptyLists, RequestInv DEF ListInv, TypeOK, Answers
  <2>6. TypeOK'
    BY <1>0, <2>1, <2>2, <2>5 DEF TypeOK, Answers, server
  <2>. QED  BY <2>2, <2>5, <2>6 DEF ListInv
<1>10. CASE Destroy
  BY <1>0, <1>10, ListKept DEF Destroy, Abort, server, history, TypeOK
<1>11. CASE UNCHANGED vars
  <2>1. TypeOK'
    BY <1>0, <1>11 DEF vars, server, history, TypeOK
  <2>. QED  BY <1>11, <2>1, ListKept DEF vars
<1>. QED
  BY <1>1, <1>2, <1>3, <1>4, <1>5, <1>6, <1>7, <1>8, <1>9, <1>10, <1>11
  DEF Next, Steps
\* The list and every answer have their types and no repetition in every state.
THEOREM ListInvariance == Spec => []ListInv
BY ListInit, ListStep, PTL DEF Spec

\* Every variable keeps its type; the list stays within its limit.
THEOREM TypeCorrect == Spec => []TypeOK
<1>1. ListInv => TypeOK
  BY DEF ListInv
<1>. QED  BY <1>1, ListInvariance, PTL

\* No event is listed twice, whatever snapshots and frames overlap (mergeEvent).
THEOREM NoEventTwice == Spec => []NothingTwice
<1>1. ListInv => NothingTwice
  BY DEF ListInv, Distinct, NothingTwice
<1>. QED  BY <1>1, ListInvariance, PTL
-----------------------------------------------------------------------------
\* The resumed stream.

\* All of s is stored.
Stored(s) == \A i \in DOMAIN s : s[i] \in stored

\* Only a stream that is read has frames under way, and while one is asked for
\* the id it was asked with is the panel's.  On a stream of the present
\* backplane they are frames of the feed, and so is the id, if it is known to be
\* of that backplane.  Whatever is published, listed, answered or under way is
\* stored.  While `clean` holds nobody but the loop reconciles.
StreamInv ==
  /\ conn.at # "none" <=> loop = "streaming"
  /\ conn.at \notin {"open", "ending"} => conn.pipe = <<>>
  /\ conn.at = "asked" => conn.last = lastEventId
  /\ conn.at = "open" =>
       \A k \in DOMAIN conn.pipe : conn.pipe[k][1] \in DOMAIN frames
  /\ known => lastEventId \in DOMAIN frames
  /\ Stored(frames) /\ Stored(events)
  /\ \A r \in Requests : Stored(req[r].rows)
  /\ \A k \in DOMAIN conn.pipe : conn.pipe[k][2] \in stored
  /\ clean => \A r \in Others : req[r].at = "idle"

\* s lists what the feed published up to the panel's id.
Upto(s) == \A i \in 1..lastEventId : Lists(s, frames[i])

\* Why a resumed stream leaves no hole: the snapshot of the loop was read when
\* the feed had come at least as far as the id, so that with the frames behind
\* the id nothing is missing.
CompleteInv ==
  clean /\ Cardinality(stored) <= QueryLimit =>
    /\ known /\ req[Loop].at = "answered" => Upto(req[Loop].rows)
    /\ known /\ conn.at = "asked" => Upto(events)
    /\ ResumedIsComplete

\* All of it is one induction: each part is used to keep the others.
ResumeInv == LoopInv /\ ListInv /\ StreamInv /\ CompleteInv

LEMMA ResumeInit == Init => StreamInv /\ CompleteInv
<1> SUFFICES ASSUME Init PROVE StreamInv /\ CompleteInv
  OBVIOUS
<1>1. \A r \in Requests : req[r].rows = <<>> /\ (r # Loop => req[r].at = "idle")
  BY DEF Init, Idle, Asked
<1>2. Loop \in Requests /\ req[Loop].at = "asked" /\ \A r \in Others : r \in Requests /\ r # Loop
  BY LimitsAssumption DEF Init, Asked, Requests
<1>3. conn.at = "none" /\ conn.pipe = <<>> /\ DOMAIN <<>> = {}
  BY DEF Init, NoStream
<1>4. StreamInv
  BY <1>1, <1>2, <1>3 DEF Init, StreamInv, Stored
<1>5. CompleteInv
  BY <1>2, <1>3 DEF Init, CompleteInv, ResumedIsComplete
<1>. QED  BY <1>4, <1>5
\* Events are never removed, so that a small table was small before.
LEMMA SmallBefore ==
  ASSUME ListInv, ListInv', stored \subseteq stored',
         Cardinality(stored') <= QueryLimit
  PROVE  Cardinality(stored) <= QueryLimit
<1>1. stored' \in SUBSET Events /\ stored \in SUBSET stored'
  BY DEF ListInv, TypeOK
<1>2. IsFiniteSet(stored') /\ IsFiniteSet(stored)
  BY <1>1, NewestRank, FS_Subset
<1>3. Cardinality(stored) <= Cardinality(stored')
  BY <1>1, <1>2, FS_Subset
<1>. QED
  BY <1>2, <1>3, FS_CardinalityType, LimitsAssumption

\* A transaction ends.
LEMMA CommitResumes ==
  ASSUME ResumeInv, ListInv', NEW e \in Events, Commit(e)
  PROVE  StreamInv' /\ CompleteInv'
<1>1. /\ stored \subseteq stored'
      /\ UNCHANGED <<frames, events, lastEventId, loop, req, conn, known, clean>>
  BY DEF Commit, panel, history
<1>2. StreamInv'
  BY <1>1 DEF ResumeInv, StreamInv, Stored
<1>3. CompleteInv'
  BY <1>1, SmallBefore DEF ResumeInv, CompleteInv, Upto, Lists,
     ResumedIsComplete, Shown
<1>. QED  BY <1>2, <1>3

\* A frame is appended to the feed, and to what is under way on an open stream.
LEMMA PublishResumes ==
  ASSUME ResumeInv, ListInv', NEW e \in Events, Publish(e)
  PROVE  StreamInv' /\ CompleteInv'
<1> DEFINE n == Len(frames)
           p == conn.pipe
           q == conn'.pipe
           F == <<n + 1, e>>
<1>1. /\ frames \in Seq(Events) /\ frames' = Append(frames, e)
      /\ n \in Nat /\ DOMAIN frames = 1..n
  BY LenProperties DEF ResumeInv, ListInv, TypeOK, Publish
<1>2. /\ frames'[n + 1] = e /\ DOMAIN frames' = 1..(n + 1)
      /\ \A i \in DOMAIN frames : frames'[i] = frames[i]
  <2>1. Len(frames') = n + 1 /\ frames' \in Seq(Events)
    BY <1>1, AppendProperties
  <2>2. DOMAIN frames' = 1..(n + 1)
    BY <2>1, LenProperties
  <2>. QED  BY <1>1, <2>2, AppendProperties
<1>3. /\ UNCHANGED <<stored, events, lastEventId, loop, req, known, clean>>
      /\ e \in stored
  BY DEF Publish, panel, history, ResumeInv, ListInv, TypeOK
<1>4. conn'.at = conn.at /\ conn'.last = conn.last
  BY PipeTypes DEF Publish, ResumeInv, Streams
<1>5. CASE conn.at # "open"
  <2>1. conn' = conn
    BY <1>5 DEF Publish
  <2>2. \A i \in 1..(n + 1) : i \in 1..n \/ i = n + 1
    BY <1>1
  <2>3. StreamInv'
    BY <1>1, <1>2, <1>3, <1>5, <2>1, <2>2 DEF ResumeInv, StreamInv, Stored
  <2>4. known => \A i \in 1..lastEventId : i \in 1..n
    BY <1>1 DEF ResumeInv, StreamInv
  <2>5. CompleteInv'
    BY <1>1, <1>2, <1>3, <1>5, <2>1, <2>4 DEF ResumeInv, CompleteInv, Upto, Lists,
       ResumedIsComplete
  <2>. QED  BY <2>3, <2>5
<1>6. CASE conn.at = "open"
  <2>1. p \in Seq((Nat \ {0}) \X Events) /\ q = Append(p, F)
    BY <1>6, PipeTypes DEF Publish, ResumeInv, Streams
  <2>2. F \in (Nat \ {0}) \X Events
    BY <1>1
  <2>3. /\ \A k \in DOMAIN p : k \in DOMAIN q /\ q[k] = p[k]
        /\ Len(p) + 1 \in DOMAIN q /\ q[Len(p) + 1] = F
        /\ \A k \in DOMAIN q : k \in DOMAIN p \/ k = Len(p) + 1
    <3>1. Len(q) = Len(p) + 1 /\ q \in Seq((Nat \ {0}) \X Events)
      BY <2>1, <2>2, AppendProperties
    <3>2. Len(p) \in Nat /\ DOMAIN p = 1..Len(p) /\ DOMAIN q = 1..(Len(p) + 1)
      BY <2>1, <3>1, LenProperties
    <3> HIDE DEF p, q
    <3>. QED  BY <2>1, <2>2, <3>2, AppendProperties
  <2>4. F[1] = n + 1 /\ F[2] = e
    OBVIOUS
  <2>5. \A i \in DOMAIN frames : i \in DOMAIN frames'
    BY <1>1, <1>2
  <2>6. n + 1 \in DOMAIN frames'
    BY <1>1, <1>2
  <2>7. \A i \in DOMAIN frames' : i \in DOMAIN frames \/ i = n + 1
    BY <1>1, <1>2
  <2>8. /\ \A k \in DOMAIN q : q[k][1] \in DOMAIN frames'
        /\ \A k \in DOMAIN q : q[k][2] \in stored'
    <3> HIDE DEF q, F
    <3>. QED  BY <1>3, <1>6, <2>3, <2>4, <2>5, <2>6 DEF ResumeInv, StreamInv
  <2>9. StreamInv'
    <3>1. Stored(frames)'
      BY <1>2, <1>3, <2>7 DEF ResumeInv, StreamInv, Stored
    <3> HIDE DEF q, F
    <3>. QED  BY <1>3, <1>4, <1>6, <2>5, <2>8, <3>1 DEF ResumeInv, StreamInv, Stored, q
  <2>10. ASSUME clean, Cardinality(stored) <= QueryLimit,
                NEW i \in DOMAIN frames'
         PROVE  frames'[i] \in Shown \/ \E k \in DOMAIN q : q[k][2] = frames'[i]
    <3> HIDE DEF q, F
    <3>1. CASE i = n + 1
      BY <1>2, <2>3, <2>4, <3>1
    <3>2. CASE i \in DOMAIN frames
      <4>1. frames[i] \in Shown \/ \E k \in DOMAIN p : p[k][2] = frames[i]
        BY <1>6, <2>10, <3>2 DEF ResumeInv, CompleteInv, ResumedIsComplete
      <4>. QED  BY <1>2, <2>3, <3>2, <4>1
    <3>. QED  BY <2>7, <3>1, <3>2
  <2>11. ResumedIsComplete'
    BY <1>3, <2>10 DEF ResumedIsComplete, Shown
  <2>12. req[Loop].at # "answered"
    BY <1>6 DEF ResumeInv, LoopInv, StreamInv
  <2>13. CompleteInv'
    BY <1>3, <1>4, <1>6, <2>11, <2>12 DEF CompleteInv
  <2>. QED  BY <2>9, <2>13
<1>. QED  BY <1>5, <1>6
\* After a restart nothing is known of the feed.
LEMMA RestartResumes ==
  ASSUME ResumeInv, Restart
  PROVE  StreamInv' /\ CompleteInv'
<1>1. /\ frames' = <<>> /\ DOMAIN frames' = {}
      /\ ~known' /\ ~clean'
      /\ UNCHANGED <<stored, events, lastEventId, loop, req>>
  BY DEF Restart, panel
<1>2. /\ conn'.last = conn.last /\ conn'.pipe = conn.pipe
      /\ conn'.at = IF conn.at = "open" THEN "ending" ELSE conn.at
  BY PipeTypes DEF Restart, ResumeInv, Streams
<1>3. StreamInv'
  BY <1>1, <1>2 DEF ResumeInv, StreamInv, Stored
<1>. QED  BY <1>1, <1>3 DEF CompleteInv

\* The subscription: frames up to the id are listed, those behind it are sent.
LEMMA OpenResumes ==
  ASSUME ResumeInv, StreamOpens
  PROVE  StreamInv' /\ CompleteInv'
<1> DEFINE b == Backlog(conn.last)
<1>1. /\ frames \in Seq(Events) /\ conn.last \in Nat /\ Retain \in Nat
      /\ DOMAIN frames = 1..Len(frames)
  BY PipeTypes, LenProperties, LimitsAssumption DEF ResumeInv, ListInv, TypeOK
<1>2. /\ conn'.at = "open" /\ conn'.pipe = b
      /\ conn.at = "asked" /\ conn.last = lastEventId
  <2>1. conn.at = "asked" /\ conn.last = lastEventId
    BY DEF StreamOpens, ResumeInv, StreamInv
  <2>2. conn' = [conn EXCEPT !.at = "open", !.pipe = b]
    BY DEF StreamOpens
  <2>3. conn \in Streams
    BY PipeTypes DEF ResumeInv
  <2> HIDE DEF b
  <2>. QED  BY <2>1, <2>2, <2>3 DEF Streams
<1>3. /\ UNCHANGED <<stored, frames, events, lastEventId, loop, req, known>>
      /\ clean' => clean /\ known /\ lastEventId + Retain >= Len(frames)
  BY DEF StreamOpens, server, panel
<1>4. /\ \A k \in DOMAIN b : b[k][1] \in DOMAIN frames /\ b[k][2] = frames[b[k][1]]
      /\ conn.last # 0 /\ conn.last <= Len(frames)
           /\ conn.last + Retain >= Len(frames) =>
           \A i \in DOMAIN frames : i > conn.last =>
             \E k \in DOMAIN b : b[k][2] = frames[i]
  BY <1>1, BacklogFrames
<1> HIDE DEF b
<1>5. StreamInv'
  BY <1>2, <1>3, <1>4 DEF ResumeInv, StreamInv, Stored
<1>6. ASSUME clean', Cardinality(stored) <= QueryLimit, NEW i \in DOMAIN frames
      PROVE  frames[i] \in Shown \/ \E k \in DOMAIN b : b[k][2] = frames[i]
  <2>1. lastEventId \in 1..Len(frames) /\ lastEventId + Retain >= Len(frames)
    BY <1>1, <1>3, <1>6 DEF ResumeInv, StreamInv
  <2>2. CASE i <= lastEventId
    <3>1. i \in 1..lastEventId
      BY <1>1, <2>1, <2>2
    <3>2. Lists(events, frames[i])
      BY <1>2, <1>3, <1>6, <3>1 DEF ResumeInv, CompleteInv, Upto
    <3>. QED  BY <3>2 DEF Lists, Shown
  <2>3. CASE i > lastEventId
    BY <1>1, <1>2, <1>4, <2>1, <2>3
  <2>. QED  BY <1>1, <2>1, <2>2, <2>3
<1>7. (clean /\ Cardinality(stored) <= QueryLimit => ResumedIsComplete)'
  BY <1>2, <1>3, <1>6 DEF ResumedIsComplete, Shown
<1>8. req'[Loop].at # "answered"
  BY <1>2, <1>3 DEF ResumeInv, LoopInv, StreamInv
<1>9. CompleteInv'
  BY <1>2, <1>7, <1>8 DEF CompleteInv
<1>. QED  BY <1>5, <1>9

\* The query: its answer lists what is published, if it can.
LEMMA QueryResumes ==
  ASSUME ResumeInv, NEW r \in Requests, QueryReads(r)
  PROVE  StreamInv' /\ CompleteInv'
<1> DEFINE rows == NewestFirst(Newest(stored))
<1>1. /\ rows \in Seq(stored)
      /\ Cardinality(stored) <= QueryLimit => \A e \in stored : Lists(rows, e)
  BY AnswerLists DEF ResumeInv, ListInv, TypeOK
<1>2. \A i \in DOMAIN rows : rows[i] \in stored
  BY <1>1, LenProperties
<1>3. /\ UNCHANGED <<stored, frames, events, lastEventId, loop, conn, known, clean>>
      /\ req[r].at = "asked"
      /\ req' = [req EXCEPT ![r] = [at |-> "answered", rows |-> rows]]
  BY DEF QueryReads, server, history
<1> HIDE DEF rows
<1>4. /\ DOMAIN req = Requests
      /\ \A q \in Requests : req'[q] = IF q = r THEN [at |-> "answered", rows |-> rows]
                                                ELSE req[q]
  BY <1>3 DEF ResumeInv, ListInv, TypeOK
<1>5. clean => r = Loop
  BY <1>3 DEF ResumeInv, StreamInv, Requests
<1>6. Loop \in Requests /\ Others \subseteq Requests /\ Loop \notin Others
  BY LimitsAssumption DEF Requests
<1>7. \A q \in Requests : Stored(req[q].rows)'
  BY <1>2, <1>3, <1>4 DEF ResumeInv, StreamInv, Stored
<1>8. clean' => \A q \in Others : req'[q].at = "idle"
  BY <1>3, <1>4, <1>5, <1>6 DEF ResumeInv, StreamInv
<1>9. StreamInv'
  BY <1>3, <1>7, <1>8 DEF ResumeInv, StreamInv, Stored
<1>10. ASSUME clean, Cardinality(stored) <= QueryLimit, known
       PROVE  (Upto(req[Loop].rows))'
  <2>1. req'[Loop].rows = rows
    BY <1>4, <1>5, <1>6, <1>10
  <2>2. \A i \in 1..lastEventId : i \in DOMAIN frames
    BY <1>10, LenProperties DEF ResumeInv, StreamInv, ListInv, TypeOK
  <2>3. \A i \in 1..lastEventId : frames[i] \in stored
    BY <2>2 DEF ResumeInv, StreamInv, Stored
  <2>. QED  BY <1>1, <1>3, <1>10, <2>1, <2>3 DEF Upto
<1>11. CompleteInv'
  BY <1>3, <1>10 DEF ResumeInv, CompleteInv, Upto, ResumedIsComplete, Shown
<1>. QED  BY <1>9, <1>11

\* The snapshot is applied.
LEMMA ReconcileResumes ==
  ASSUME ResumeInv, NEW r \in Requests, Reconcile(r)
  PROVE  StreamInv' /\ CompleteInv'
<1>1. /\ UNCHANGED <<stored, frames, lastEventId, known, clean>>
      /\ req[r].at = "answered" /\ events' = req[r].rows
      /\ req' = [req EXCEPT ![r] = Idle]
      /\ Continue(r)
  BY DEF Reconcile, server, history
<1>2. /\ DOMAIN req = Requests
      /\ \A q \in Requests : req'[q] = IF q = r THEN Idle ELSE req[q]
  BY <1>1 DEF ResumeInv, ListInv, TypeOK
<1>3. Idle.at = "idle" /\ Stored(Idle.rows)'
  BY DEF Idle, Stored
<1>4. Loop \in Requests /\ Others \subseteq Requests /\ Loop \notin Others
  BY LimitsAssumption DEF Requests
<1>5. clean => r = Loop
  BY <1>1 DEF ResumeInv, StreamInv, Requests
<1>6. \/ r # Loop /\ UNCHANGED <<loop, conn>>
      \/ r = Loop /\ loop' = "ended" /\ conn' = conn
      \/ r = Loop /\ loop' = "streaming"
           /\ conn'.at = "asked" /\ conn'.last = lastEventId /\ conn'.pipe = <<>>
  BY <1>1 DEF Continue, NoStream, Header
<1>7. r = Loop => loop = "reconciling" /\ conn.at = "none"
  <2>1. conn.at \in {"none", "asked", "open", "ending"}
    BY PipeTypes DEF ResumeInv, Streams
  <2>. QED  BY <1>1, <2>1 DEF ResumeInv, LoopInv, StreamInv
<1>8. \A q \in Requests : Stored(req[q].rows)'
  BY <1>1, <1>2, <1>3 DEF ResumeInv, StreamInv, Stored
<1>9. Stored(events)' /\ Stored(frames)'
  BY <1>1 DEF ResumeInv, StreamInv, Stored
<1>10. clean' => \A q \in Others : req'[q].at = "idle"
  BY <1>1, <1>2, <1>3, <1>4 DEF ResumeInv, StreamInv
<1>11. StreamInv'
  BY <1>1, <1>6, <1>7, <1>8, <1>9, <1>10 DEF ResumeInv, StreamInv
<1>12. clean => conn'.at \in {"none", "asked"} /\ req'[Loop].at = "idle"
  BY <1>2, <1>3, <1>4, <1>5, <1>6, <1>7
<1>13. ASSUME clean, Cardinality(stored) <= QueryLimit, known
       PROVE  Upto(events)'
  BY <1>1, <1>5, <1>13 DEF ResumeInv, CompleteInv, Upto
<1>14. CompleteInv'
  BY <1>1, <1>12, <1>13 DEF CompleteInv, ResumedIsComplete
<1>. QED  BY <1>11, <1>14

\* Steps that give `clean` up.
LEMMA SpoiltResumes ==
  ASSUME ResumeInv, NEW r \in Requests, ReconcileFails(r) \/ Ask(r)
  PROVE  StreamInv' /\ CompleteInv'
<1>1. /\ UNCHANGED <<stored, frames, events, lastEventId, known>> /\ ~clean'
      /\ req' = [req EXCEPT ![r] = Idle] \/ req' = [req EXCEPT ![r] = Asked]
      /\ UNCHANGED <<loop, conn>> \/ (Continue(r) /\ req[r].at # "idle")
  <2>1. CASE ReconcileFails(r)
    BY <2>1 DEF ReconcileFails, server
  <2>2. CASE Ask(r)
    <3>1. UNCHANGED <<stored, frames, events, lastEventId, known, loop, conn>>
      BY <2>2 DEF Ask, server
    <3>2. req' = [req EXCEPT ![r] = Asked] /\ clean' = FALSE
      BY <2>2 DEF Ask
    <3>. QED  BY <3>1, <3>2
  <2>. QED  BY <2>1, <2>2
<1>2. \A q \in Requests : req'[q] = req[q] \/ req'[q].rows = <<>>
  BY <1>1 DEF ResumeInv, ListInv, TypeOK, Idle, Asked
<1>3. \/ UNCHANGED <<loop, conn>>
      \/ r = Loop /\ loop' = "ended" /\ conn' = conn
      \/ r = Loop /\ loop' = "streaming"
           /\ conn'.at = "asked" /\ conn'.last = lastEventId /\ conn'.pipe = <<>>
  BY <1>1 DEF Continue, NoStream, Header
<1>4. r = Loop /\ req[r].at # "idle" => loop = "reconciling" /\ conn.at = "none"
  <2>1. conn.at \in {"none", "asked", "open", "ending"}
    BY PipeTypes DEF ResumeInv, Streams
  <2>. QED  BY <2>1 DEF ResumeInv, LoopInv, StreamInv
<1>5. \A q \in Requests : Stored(req[q].rows)'
  BY <1>1, <1>2 DEF ResumeInv, StreamInv, Stored
<1>6. Stored(events)' /\ Stored(frames)'
  BY <1>1 DEF ResumeInv, StreamInv, Stored
<1>7. StreamInv'
  BY <1>1, <1>3, <1>4, <1>5, <1>6 DEF ResumeInv, StreamInv
<1>. QED  BY <1>1, <1>7 DEF CompleteInv
\* A frame is merged: what was under way is listed, and a list that cannot hold
\* more than the limit loses nothing by it.
LEMMA FrameResumes ==
  ASSUME ResumeInv, FrameArrives
  PROVE  StreamInv' /\ CompleteInv'
<1> DEFINE p == conn.pipe
           F == Head(conn.pipe)
<1>1. p \in Seq((Nat \ {0}) \X Events) /\ p # <<>>
  BY PipeTypes DEF ResumeInv, FrameArrives
<1>2. /\ 1 \in DOMAIN p /\ F = p[1] /\ F \in (Nat \ {0}) \X Events
      /\ \A k \in DOMAIN Tail(p) : k + 1 \in DOMAIN p /\ Tail(p)[k] = p[k + 1]
      /\ \A k \in DOMAIN p : k # 1 => k - 1 \in DOMAIN Tail(p) /\ Tail(p)[k - 1] = p[k]
  <2>1. /\ DOMAIN p = 1..Len(p) /\ Len(p) \in Nat \ {0}
        /\ F = p[1] /\ F \in (Nat \ {0}) \X Events
    BY <1>1, LenProperties, EmptySeq, HeadTailProperties
  <2>2. /\ DOMAIN Tail(p) = 1..(Len(p) - 1)
        /\ \A k \in 1..(Len(p) - 1) : Tail(p)[k] = p[k + 1]
    <3>1. /\ Tail(p) \in Seq((Nat \ {0}) \X Events) /\ Len(Tail(p)) = Len(p) - 1
          /\ \A k \in 1..Len(Tail(p)) : Tail(p)[k] = p[k + 1]
      BY <1>1, HeadTailProperties
    <3>. QED  BY <3>1, LenProperties
  <2> HIDE DEF p, F
  <2>3. \A k \in DOMAIN p : k # 1 => k - 1 \in 1..(Len(p) - 1)
    BY <2>1
  <2>4. \A k \in DOMAIN p : k # 1 => Tail(p)[k - 1] = p[k]
    BY <2>1, <2>2, <2>3
  <2>. QED  BY <2>1, <2>2, <2>3, <2>4
<1>3. /\ F[1] \in Nat \ {0} /\ F[2] \in Events
  BY <1>2
<1>4. /\ lastEventId' = F[1] /\ events' = Merge(F[2])
      /\ UNCHANGED <<stored, frames, loop, req, clean>>
      /\ loop = "streaming"
      /\ known' => conn.at = "open"
  BY DEF FrameArrives, server
<1>5. conn'.at = conn.at /\ conn'.last = conn.last /\ conn'.pipe = Tail(p)
  <2>1. conn \in Streams
    BY PipeTypes DEF ResumeInv
  <2>. QED  BY <2>1 DEF FrameArrives, Streams
<1>6. /\ events \in Seq(Events) /\ Len(events) <= MaxShown /\ Distinct(events)
      /\ stored \in SUBSET Events
  BY DEF ResumeInv, ListInv, TypeOK
<1> HIDE DEF p, F
<1>7. F[2] \in stored /\ (conn.at = "open" => F[1] \in DOMAIN frames)
  BY <1>2 DEF ResumeInv, StreamInv, p
<1>8. \A x : Lists(events', x) => Lists(events, x) \/ x = F[2]
  BY <1>3, <1>4, <1>6, MergeLists
<1>9. Stored(events)'
  <2>1. \A x : Lists(events', x) => x \in stored
    BY <1>7, <1>8 DEF ResumeInv, StreamInv, Stored, Lists
  <2>. QED  BY <1>4, <2>1 DEF Stored, Lists
<1>10. conn.at \in {"open", "ending"}
  BY <1>1 DEF ResumeInv, StreamInv, p
<1>11. StreamInv'
  <2>1. (conn.at = "open" =>
          \A k \in DOMAIN conn.pipe : conn.pipe[k][1] \in DOMAIN frames)'
    BY <1>2, <1>4, <1>5 DEF ResumeInv, StreamInv, p
  <2>2. (\A k \in DOMAIN conn.pipe : conn.pipe[k][2] \in stored)'
    BY <1>2, <1>4, <1>5 DEF ResumeInv, StreamInv, p
  <2>3. /\ Stored(frames)'
        /\ (\A r \in Requests : Stored(req[r].rows))'
    BY <1>4 DEF ResumeInv, StreamInv, Stored
  <2>4. (known => lastEventId \in DOMAIN frames)'
    BY <1>4, <1>7
  <2>. QED  BY <1>4, <1>5, <1>9, <1>10, <2>1, <2>2, <2>3, <2>4 DEF ResumeInv, StreamInv
<1>12. ASSUME Cardinality(stored) <= QueryLimit
       PROVE  \A x : Lists(events, x) \/ x = F[2] => Lists(events', x)
  <2>1. IsFiniteSet(stored)
    BY <1>6, NewestRank
  <2>2. events \in Seq(stored)
    BY <1>6, LenProperties, SeqDef DEF ResumeInv, StreamInv, Stored
  <2>3. ~Lists(events, F[2]) => Len(events) < MaxShown
    <3> SUFFICES ASSUME ~Lists(events, F[2]) PROVE Len(events) < MaxShown
      OBVIOUS
    <3>1. Append(events, F[2]) \in Seq(stored) /\ Distinct(Append(events, F[2]))
          /\ Len(Append(events, F[2])) = Len(events) + 1
      BY <1>6, <1>7, <2>2, AppendDistinct
    <3>2. Len(events) + 1 <= Cardinality(stored)
      BY <2>1, <3>1, DistinctLength
    <3>. QED  BY <1>6, <1>12, <2>1, <3>2, FS_CardinalityType, LenProperties,
           LimitsAssumption
  <2>. QED  BY <1>3, <1>4, <1>6, <2>3, MergeLists
<1>13. ASSUME clean, Cardinality(stored) <= QueryLimit, conn.at = "open",
              NEW i \in DOMAIN frames
       PROVE  \/ Lists(events', frames[i])
              \/ \E k \in DOMAIN Tail(p) : Tail(p)[k][2] = frames[i]
  <2>1. \/ Lists(events, frames[i])
        \/ \E k \in DOMAIN p : p[k][2] = frames[i]
    BY <1>13 DEF ResumeInv, CompleteInv, ResumedIsComplete, Lists, Shown, p
  <2>2. CASE Lists(events, frames[i])
    BY <1>12, <1>13, <2>2
  <2>3. ASSUME NEW k \in DOMAIN p, p[k][2] = frames[i], k = 1
        PROVE  Lists(events', frames[i])
    BY <1>2, <1>12, <1>13, <2>3
  <2>4. ASSUME NEW k \in DOMAIN p, p[k][2] = frames[i], k # 1
        PROVE  \E j \in DOMAIN Tail(p) : Tail(p)[j][2] = frames[i]
    BY <1>2, <2>4
  <2>. QED  BY <2>1, <2>2, <2>3, <2>4
<1>14. (clean /\ Cardinality(stored) <= QueryLimit => ResumedIsComplete)'
  BY <1>4, <1>5, <1>13 DEF ResumedIsComplete, Lists, Shown
<1>15. req'[Loop].at # "answered" /\ conn'.at # "asked"
  BY <1>4, <1>5, <1>10 DEF ResumeInv, LoopInv
<1>16. CompleteInv'
  BY <1>14, <1>15 DEF CompleteInv
<1>. QED  BY <1>11, <1>16

\* The stream is over.
LEMMA OverResumes ==
  ASSUME ResumeInv, StreamOver
  PROVE  StreamInv' /\ CompleteInv'
<1>1. /\ UNCHANGED <<stored, frames, events, lastEventId, req, known, clean>>
      /\ loop = "streaming" /\ loop' # "streaming"
      /\ conn'.at = "none" /\ conn'.pipe = <<>> /\ DOMAIN <<>> = {}
  BY DEF StreamOver, server, NoStream
<1>2. StreamInv'
  BY <1>1 DEF ResumeInv, StreamInv, Stored
<1>3. req'[Loop].at # "answered"
  BY <1>1 DEF ResumeInv, LoopInv
<1>. QED  BY <1>1, <1>2, <1>3 DEF CompleteInv, ResumedIsComplete

\* The backoff is over, and a snapshot is asked for.
LEMMA BackoffResumes ==
  ASSUME ResumeInv, BackoffEnds
  PROVE  StreamInv' /\ CompleteInv'
<1>1. /\ UNCHANGED <<stored, frames, events, lastEventId, conn, known>>
      /\ loop = "backoff" /\ loop' # "streaming"
      /\ \/ UNCHANGED <<req, clean>>
         \/ /\ req' = [req EXCEPT ![Loop] = Asked]
            /\ clean' = (\A r \in Others : req[r].at = "idle")
  BY DEF BackoffEnds, server
<1>2. conn.at = "none"
  BY <1>1 DEF ResumeInv, StreamInv
<1>3. Loop \in Requests /\ Others \subseteq Requests /\ Loop \notin Others
  BY LimitsAssumption DEF Requests
<1>4. req'[Loop].at # "answered"
  <2>1. req[Loop].at = "idle" /\ Loop \in DOMAIN req
    BY <1>1 DEF ResumeInv, LoopInv
  <2>2. Asked.at = "asked"
    BY DEF Asked
  <2>3. req'[Loop] = req[Loop] \/ req'[Loop] = Asked
    BY <1>1, <2>1
  <2>. QED  BY <2>1, <2>2, <2>3
<1>5. \A r \in Others : req'[r] = req[r]
  BY <1>1, <1>3 DEF ResumeInv, ListInv, TypeOK
<1>6. (\A r \in Requests : Stored(req[r].rows))'
  <2>1. \A r \in Requests : req'[r] = req[r] \/ req'[r] = Asked
    BY <1>1 DEF ResumeInv, ListInv, TypeOK
  <2>2. Stored(Asked.rows)
    BY DEF Asked, Stored
  <2>. QED  BY <1>1, <2>1, <2>2 DEF ResumeInv, StreamInv, Stored
<1>7. (clean => \A r \in Others : req[r].at = "idle")'
  BY <1>1, <1>5 DEF ResumeInv, StreamInv
<1>8. StreamInv'
  BY <1>1, <1>2, <1>6, <1>7 DEF ResumeInv, StreamInv, Stored
<1>9. CompleteInv'
  BY <1>1, <1>2, <1>4 DEF CompleteInv, ResumedIsComplete
<1>. QED  BY <1>8, <1>9

\* Every step keeps the invariant.
LEMMA ResumeStep == ResumeInv /\ [Next]_vars => ResumeInv'
<1> SUFFICES ASSUME ResumeInv, [Next]_vars PROVE ResumeInv'
  OBVIOUS
<1>0. LoopInv' /\ ListInv'
  BY LoopStep, ListStep DEF ResumeInv
<1> SUFFICES StreamInv' /\ CompleteInv'
  BY <1>0 DEF ResumeInv
<1>1. ASSUME NEW e \in Events, Commit(e) \/ Publish(e)
      PROVE  StreamInv' /\ CompleteInv'
  BY <1>0, <1>1, CommitResumes, PublishResumes
<1>2. CASE Restart
  BY <1>2, RestartResumes
<1>3. CASE StreamOpens
  BY <1>3, OpenResumes
<1>4. ASSUME NEW r \in Requests, QueryReads(r) \/ Reconcile(r) \/ ReconcileFails(r)
      PROVE  StreamInv' /\ CompleteInv'
  BY <1>4, QueryResumes, ReconcileResumes, SpoiltResumes
<1>5. ASSUME NEW r \in Others, Poll(r) \/ Refresh(r)
      PROVE  StreamInv' /\ CompleteInv'
  BY <1>5, SpoiltResumes DEF Poll, Refresh, Requests
<1>6. CASE FrameArrives
  BY <1>6, FrameResumes
<1>7. CASE StreamEnds \/ StreamFails \/ StreamAborted
  BY <1>7, OverResumes DEF StreamEnds, StreamFails, StreamAborted
<1>8. CASE BackoffEnds
  BY <1>8, BackoffResumes
<1>9. CASE Destroy \/ UNCHANGED vars
  <2>1. UNCHANGED <<stored, frames, events, lastEventId, loop, req, conn, known, clean>>
    BY <1>9 DEF Destroy, vars, server, history
  <2>. QED  BY <2>1 DEF ResumeInv, StreamInv, CompleteInv, Stored, Upto, Lists,
         ResumedIsComplete, Shown
<1>. QED
  BY <1>0, <1>1, <1>2, <1>3, <1>4, <1>5, <1>6, <1>7, <1>8, <1>9
  DEF Next, Steps

\* Snapshot, id, replay ring and stream fit together in every state.
THEOREM ResumeInvariance == Spec => []ResumeInv
<1>1. Init => ResumeInv
  BY LoopInit, ListInit, ResumeInit DEF ResumeInv
<1>. QED  BY <1>1, ResumeStep, PTL DEF Spec

\* A reconnection leaves no hole: what was published while the panel was away is
\* in its snapshot or replayed by the stream (connectLive).
THEOREM NoHoleAfterResume == Spec => []ResumedIsComplete
<1>1. ResumeInv => ResumedIsComplete
  BY DEF ResumeInv, CompleteInv, ResumedIsComplete
<1>. QED  BY <1>1, ResumeInvariance, PTL
=============================================================================
