----------------------------- MODULE LanesProofs -----------------------------
(***************************************************************************)
(* Proofs about Lanes: for every kind of events, every window and sessions *)
(* of every length, pairing loses no event, an answer goes to the oldest   *)
(* call that waits for it, a completed session was answered, and every     *)
(* event is shown.                                                         *)
(***************************************************************************)
EXTENDS Lanes, Ranks, SequenceTheorems, TLAPS

\* Calls and answers are told apart by their types.
LEMMA TypesDiffer == OpenTypes \cap CloseTypes = {}
BY DEF OpenTypes, CloseTypes, Answer

\* An event has its number, a time, and a type that pairToolCalls looks at.
LEMMA EventFields ==
  ASSUME NEW n, NEW e \in Event(n)
  PROVE  e.n = n /\ e.at \in Int /\ e.type \in OpenTypes \cup CloseTypes \cup {"other"}
BY KindsAssumption, BoundsAssumption DEF Event

\* splice takes one element out and keeps the order of the others.
LEMMA RemoveAtProperties ==
  ASSUME NEW S, NEW s \in Seq(S), NEW i \in 1..Len(s)
  PROVE  /\ RemoveAt(s, i) \in Seq(S)
         /\ DOMAIN RemoveAt(s, i) = 1..(Len(s) - 1)
         /\ \A j \in 1..(Len(s) - 1) :
              RemoveAt(s, i)[j] = IF j < i THEN s[j] ELSE s[j + 1]
<1> DEFINE n == Len(s)
           a == SubSeq(s, 1, i - 1)
           b == SubSeq(s, i + 1, n)
<1>1. n \in Nat /\ DOMAIN s = 1..n /\ i \in 1..n
  BY LenProperties
<1>2. /\ a \in Seq(S) /\ Len(a) = i - 1
      /\ \A j \in 1..(i - 1) : a[j] = s[j]
  <2>1. 1 \in Int /\ i - 1 \in Int /\ \A j \in 1..(i - 1) : s[j] \in S
    BY <1>1, ElementOfSeq
  <2>2. /\ a \in Seq(S) /\ Len(a) = IF 1 <= i - 1 THEN i - 1 - 1 + 1 ELSE 0
        /\ \A j \in 1..(i - 1 - 1 + 1) : a[j] = s[1 + j - 1]
    BY <2>1, SubSeqProperties
  <2> HIDE DEF a
  <2>. QED  BY <1>1, <2>2
<1>3. /\ b \in Seq(S) /\ Len(b) = n - i
      /\ \A j \in 1..(n - i) : b[j] = s[i + j]
  <2>1. i + 1 \in Int /\ n \in Int /\ \A j \in (i + 1)..n : s[j] \in S
    BY <1>1, ElementOfSeq
  <2>2. /\ b \in Seq(S) /\ Len(b) = IF i + 1 <= n THEN n - (i + 1) + 1 ELSE 0
        /\ \A j \in 1..(n - (i + 1) + 1) : b[j] = s[(i + 1) + j - 1]
    BY <2>1, SubSeqProperties
  <2> HIDE DEF b, n
  <2>. QED  BY <1>1, <2>2
<1> HIDE DEF a, b
<1>4. RemoveAt(s, i) = a \o b
  BY DEF RemoveAt, a, b
<1>5. /\ a \o b \in Seq(S) /\ Len(a \o b) = n - 1
      /\ \A j \in 1..(n - 1) : (a \o b)[j] = IF j <= i - 1 THEN a[j] ELSE b[j - (i - 1)]
  <2>1. /\ a \o b \in Seq(S) /\ Len(a \o b) = Len(a) + Len(b)
        /\ \A j \in 1..(Len(a) + Len(b)) :
             (a \o b)[j] = IF j <= Len(a) THEN a[j] ELSE b[j - Len(a)]
    BY <1>2, <1>3, ConcatProperties
  <2>2. Len(a) + Len(b) = n - 1 /\ Len(a) = i - 1
    BY <1>1, <1>2, <1>3
  <2>. QED  BY <2>1, <2>2
<1>6. DOMAIN (a \o b) = 1..(n - 1)
  BY <1>5, LenProperties
<1>7. ASSUME NEW j \in 1..(n - 1)
      PROVE  (a \o b)[j] = IF j < i THEN s[j] ELSE s[j + 1]
  <2> HIDE DEF n
  <2>1. CASE j < i
    <3>1. j <= i - 1 /\ j \in 1..(i - 1)
      BY <1>1, <2>1
    <3>. QED  BY <1>2, <1>5, <2>1, <3>1
  <2>2. CASE ~(j < i)
    <3>1. ~(j <= i - 1) /\ j - (i - 1) \in 1..(n - i) /\ i + (j - (i - 1)) = j + 1
      BY <1>1, <2>2
    <3>. QED  BY <1>3, <1>5, <2>2, <3>1
  <2>. QED  BY <2>1, <2>2
<1>. QED  BY <1>4, <1>5, <1>6, <1>7

\* Sorting by start is a permutation of the blocks.
LEMMA ByStartPermutes ==
  ASSUME NEW S, NEW blocks \in Seq(S), \A i \in DOMAIN blocks : Start(blocks[i]) \in Int
  PROVE  /\ ByStart(blocks) \in Seq(S)
         /\ DOMAIN ByStart(blocks) = DOMAIN blocks
         /\ \E f \in [DOMAIN blocks -> DOMAIN blocks] :
              /\ \A k \in DOMAIN blocks : ByStart(blocks)[k] = blocks[f[k]]
              /\ \A j, k \in DOMAIN blocks : f[j] = f[k] => j = k
              /\ \A i \in DOMAIN blocks : \E k \in DOMAIN blocks : f[k] = i
<1> DEFINE D == DOMAIN blocks
           n == Len(blocks)
           before(i, j) == \/ Start(blocks[i]) < Start(blocks[j])
                           \/ Start(blocks[i]) = Start(blocks[j]) /\ i < j
           R == {p \in D \X D : before(p[1], p[2])}
           f == [k \in D |-> CHOOSE i \in D : Cardinality({j \in D : before(j, i)}) = k - 1]
<1>1. n \in Nat /\ D = 1..n /\ IsFiniteSet(D) /\ Cardinality(D) = n
  <2>1. n \in Nat /\ D = 1..n
    BY LenProperties
  <2> HIDE DEF D, n
  <2>2. IsFiniteSet(1..n) /\ Cardinality(1..n) = n
    BY <2>1, FS_Interval
  <2>. QED  BY <2>1, <2>2
<1>2. Orders(R, D)
  <2>1. \A i, j \in D : <<i, j>> \in R <=> before(i, j)
    OBVIOUS
  <2> HIDE DEF R
  <2>. QED  BY <1>1, <2>1 DEF Orders
<1>3. \A i \in D : Cardinality({j \in D : before(j, i)}) = Rank(D, R, i)
  <2>1. \A i \in D : {j \in D : before(j, i)} = Before(D, R, i)
    BY DEF Before
  <2>. QED  BY <2>1 DEF Rank
<1>4. ByStart(blocks) = [k \in D |-> blocks[f[k]]]
  BY DEF ByStart
<1> HIDE DEF R, before
<1>5. ASSUME NEW k \in D
      PROVE  f[k] \in D /\ Rank(D, R, f[k]) = k - 1
  <2>1. k - 1 \in 0..(Cardinality(D) - 1)
    <3> HIDE DEF D
    <3>. QED  BY <1>1
  <2>2. \E i \in D : Rank(D, R, i) = k - 1
    <3> HIDE DEF D
    <3>. QED  BY <1>1, <1>2, <2>1, RankReached
  <2>3. \E i \in D : Cardinality({j \in D : before(j, i)}) = k - 1
    BY <1>3, <2>2
  <2>4. f[k] \in D /\ Cardinality({j \in D : before(j, f[k])}) = k - 1
    BY <2>3
  <2>. QED  BY <1>3, <2>4
<1> HIDE DEF f
<1>6. f \in [D -> D]
  BY <1>5, <1>1 DEF f
<1> HIDE DEF D
<1>7. ASSUME NEW j \in D, NEW k \in D, f[j] = f[k] PROVE j = k
  <2>1. j - 1 = k - 1
    BY <1>5, <1>7
  <2>. QED  BY <1>1, <2>1
<1>8. ASSUME NEW i \in D PROVE \E k \in D : f[k] = i
  <2>1. Rank(D, R, i) \in 0..(n - 1)
    BY <1>1, <1>2, RankBound
  <2>2. PICK k \in D : k = Rank(D, R, i) + 1
    BY <1>1, <2>1
  <2>3. Rank(D, R, f[k]) = Rank(D, R, i) /\ f[k] \in D
    BY <1>1, <1>5, <2>1, <2>2
  <2>4. f[k] = i
    BY <1>1, <1>2, <2>3, RankUnique
  <2>. QED  BY <2>4
<1>9. \A i \in D : blocks[i] \in S
  BY <1>1, ElementOfSeq DEF D
<1>10. ByStart(blocks) \in Seq(S) /\ DOMAIN ByStart(blocks) = D
  <2>1. ByStart(blocks) \in [1..n -> S]
    BY <1>1, <1>4, <1>6, <1>9
  <2>. QED  BY <1>1, <2>1, SeqDef
<1>11. \A k \in D : ByStart(blocks)[k] = blocks[f[k]]
  BY <1>4
<1>. QED  BY <1>6, <1>7, <1>8, <1>10, <1>11 DEF D
-----------------------------------------------------------------------------
\* The invariant.

\* The events read, numbered in order, and blocks made of them.
InputInv ==
  /\ TypeOK
  /\ input \in Seq(Read)
  /\ calls \in Seq(Seq(Read))

\* The calls still open are kept in the order they were read; a block of two is
\* a call and its answer, a block of one is an answer until the loop is over.
BlockInv ==
  /\ \A i, j \in DOMAIN open : i < j => open[i].n < open[j].n
  /\ \A i \in DOMAIN calls :
       /\ Len(calls[i]) = 2 => /\ calls[i][1].type \in OpenTypes
                               /\ calls[i][2].type \in CloseTypes
       /\ Len(calls[i]) = 1 /\ ~built => calls[i][1].type \in CloseTypes
  /\ \A i \in DOMAIN loose : loose[i].type \notin OpenTypes \cup CloseTypes
  /\ built => open = <<>>

\* Every event is in one place.
PlaceInv == \A e \in Read : \E p \in Places(e) : \A q \in Places(e) : q = p

LanesInv == InputInv /\ BlockInv /\ PlaceInv /\ FirstComeFirstServed

\* The number of an event is its position, so that two events differ in it.
LEMMA ReadNumbers ==
  ASSUME InputInv
  PROVE  /\ DOMAIN input = 1..Len(input) /\ Len(input) \in Nat
         /\ \A e \in Read : e.n \in 1..Len(input) /\ input[e.n] = e
         /\ \A e \in Read : /\ e.at \in Int
                            /\ e.type \in OpenTypes \cup CloseTypes \cup {"other"}
<1>1. DOMAIN input = 1..Len(input) /\ Len(input) \in Nat
  BY LenProperties DEF InputInv
<1>2. \A i \in DOMAIN input : input[i].n = i
  BY EventFields DEF InputInv, TypeOK
<1>3. \A e \in Read : \E i \in DOMAIN input : e = input[i]
  BY DEF Read
<1>4. \A e \in Read : e.n \in 1..Len(input) /\ input[e.n] = e
  BY <1>1, <1>2, <1>3
<1>5. \A e \in Read : e \in Event(e.n)
  BY <1>1, <1>4 DEF InputInv, TypeOK
<1>. QED  BY <1>1, <1>4, <1>5, EventFields

\* What a block is.
LEMMA Blocks ==
  ASSUME InputInv, NEW i \in DOMAIN calls
  PROVE  /\ calls[i] \in Seq(Read) /\ Len(calls[i]) \in {1, 2}
         /\ DOMAIN calls[i] = 1..Len(calls[i])
         /\ Len(calls[i]) = 1 => calls[i][1] \in Read /\ EventsOf(calls[i]) = {calls[i][1]}
         /\ Len(calls[i]) = 2 => /\ calls[i][1] \in Read /\ calls[i][2] \in Read
                                 /\ EventsOf(calls[i]) = {calls[i][1], calls[i][2]}
<1>1. calls[i] \in Seq(Read) /\ Len(calls[i]) \in {1, 2}
  BY DEF InputInv, TypeOK
<1>2. DOMAIN calls[i] = 1..Len(calls[i])
  BY <1>1, LenProperties
<1>3. \A k \in DOMAIN calls[i] : calls[i][k] \in Read
  BY <1>1, <1>2, ElementOfSeq
<1>4. CASE Len(calls[i]) = 1
  <2>1. DOMAIN calls[i] = {1}
    BY <1>2, <1>4
  <2>. QED  BY <1>1, <1>2, <1>3, <1>4, <2>1 DEF EventsOf
<1>5. CASE Len(calls[i]) = 2
  <2>1. DOMAIN calls[i] = {1, 2}
    BY <1>2, <1>5
  <2>. QED  BY <1>1, <1>2, <1>3, <1>5, <2>1 DEF EventsOf
<1>. QED  BY <1>1, <1>4, <1>5

\* p is a place of e in the open calls os, the loose events ls and the blocks bs.
IsPlace(p, e, os, ls, bs) ==
  \/ \E i \in DOMAIN os : p = <<"open", i>> /\ os[i] = e
  \/ \E i \in DOMAIN ls : p = <<"loose", i>> /\ ls[i] = e
  \/ \E i \in DOMAIN bs : p = <<"calls", i>> /\ e \in EventsOf(bs[i])

\* The places of an event, one by one.
LEMMA PlacesAre ==
  ASSUME NEW e, NEW p
  PROVE  p \in Places(e) <=> IsPlace(p, e, open, loose, calls)
BY DEF Places, IsPlace

\* One place each is what the invariant says.
LEMMA PlacesCounted == PlaceInv => OnePlaceEach
<1> SUFFICES ASSUME PlaceInv, NEW e \in Read
             PROVE  Cardinality(Places(e)) = 1
  BY DEF OnePlaceEach
<1>1. \E p : Places(e) = {p}
  BY DEF PlaceInv
<1>. QED  BY <1>1, FS_Singleton

\* An open call is in no block, and whatever was called is open or answered.
LEMMA OpenOrAnswered ==
  ASSUME LanesInv, ~built, NEW c \in Read, c.type \in OpenTypes
  PROVE  (\E i \in DOMAIN open : open[i] = c) <=> ~\E b \in Paired : b[1] = c
<1>1. PICK p \in Places(c) : \A q \in Places(c) : q = p
  BY DEF LanesInv, PlaceInv
<1>2. ASSUME NEW i \in DOMAIN open, open[i] = c, NEW b \in Paired, b[1] = c
      PROVE  FALSE
  <2>1. PICK k \in DOMAIN calls : b = calls[k] /\ Len(calls[k]) = 2
    BY <1>2 DEF Paired
  <2>2. c \in EventsOf(calls[k])
    BY <1>2, <2>1, Blocks DEF LanesInv
  <2>3. <<"open", i>> \in Places(c) /\ <<"calls", k>> \in Places(c)
    BY <1>2, <2>2, PlacesAre DEF IsPlace
  <2>4. <<"open", i>> = <<"calls", k>>
    BY <1>1, <2>3
  <2>. QED  BY <2>4
<1>3. ASSUME ~\E i \in DOMAIN open : open[i] = c
      PROVE  \E b \in Paired : b[1] = c
  <2>1. ~\E i \in DOMAIN loose : loose[i] = c
    BY DEF LanesInv, BlockInv
  <2>2. PICK k \in DOMAIN calls : c \in EventsOf(calls[k])
    BY <1>1, <1>3, <2>1, PlacesAre DEF IsPlace
  <2>3. c.type \notin CloseTypes
    BY TypesDiffer
  <2>4. Len(calls[k]) = 2 /\ c = calls[k][1]
    BY <2>2, <2>3, Blocks DEF LanesInv, BlockInv
  <2>. QED  BY <2>4 DEF Paired
<1>. QED  BY <1>2, <1>3
-----------------------------------------------------------------------------
\* Steps: what every event that is read brings with it.

\* The places of the events after a step.
LEMMA PlacesNext ==
  ASSUME \A e \in Read' : \E p : \A q : IsPlace(q, e, open', loose', calls') <=> q = p
  PROVE  PlaceInv'
<1>1. \A e, q : q \in Places(e)' <=> IsPlace(q, e, open', loose', calls')
  BY DEF Places, IsPlace, EventsOf
<1>. QED  BY <1>1 DEF PlaceInv

\* e is the next event of the session.
Arrives(e) ==
  /\ e \in Event(Len(input) + 1)
  /\ input # <<>> => Last(input).at <= e.at
  /\ Reads(e)

\* It is new, and comes after all others.
LEMMA ArrivesNew ==
  ASSUME InputInv, NEW e, Arrives(e)
  PROVE  /\ Read' = Read \cup {e} /\ e \notin Read
         /\ e.n = Len(input) + 1 /\ \A c \in Read : c.n < e.n
         /\ input' \in Seq(Read')
         /\ \A i \in DOMAIN input' :
              /\ input'[i] \in Event(i)
              /\ i > 1 => input'[i - 1].at <= input'[i].at
         /\ Len(input') = Len(input) + 1
         /\ ~built /\ ~built'
         /\ \A p : p \notin Places(e)
<1> DEFINE n == Len(input)
<1>1. /\ n \in Nat /\ DOMAIN input = 1..n
      /\ \A c \in Read : c.n \in 1..n
      /\ e.n = n + 1
  BY ReadNumbers, EventFields DEF Arrives
<1>2. input' = Append(input, e) /\ ~built /\ built' = built
  BY DEF Arrives, Reads
<1>3. /\ DOMAIN input' = 1..(n + 1) /\ Len(input') = n + 1
      /\ \A i \in 1..n : input'[i] = input[i]
      /\ input'[n + 1] = e
  <2>1. input \in Seq(Read \cup {e})
    BY SeqMonotonic DEF InputInv
  <2>2. /\ Append(input, e) \in Seq(Read \cup {e})
        /\ Len(Append(input, e)) = Len(input)+1
        /\ \A i \in 1.. Len(input) : Append(input, e)[i] = input[i]
        /\ Append(input, e)[Len(input)+1] = e
    BY <2>1, AppendProperties
  <2>. QED  BY <1>2, <2>2, LenProperties
<1> HIDE DEF n
<1>4. 1..(n + 1) = 1..n \cup {n + 1}
  BY <1>1
<1>5. Read' = Read \cup {e}
  BY <1>1, <1>3, <1>4 DEF Read
<1>6. e \notin Read /\ \A c \in Read : c.n < e.n
  BY <1>1
<1>7. input' \in Seq(Read')
  <2>1. input' \in [1..(n + 1) -> Read']
    <3>1. input' = Append(input, e) /\ input \in Seq(Read \cup {e})
      BY <1>2, SeqMonotonic DEF InputInv
    <3>2. input' \in Seq(Read \cup {e})
      BY <3>1, AppendProperties
    <3>. QED  BY <1>3, <1>5, <3>2, LenProperties
  <2>. QED  BY <1>1, <2>1, SeqDef
<1>8. ASSUME NEW i \in DOMAIN input'
      PROVE  input'[i] \in Event(i) /\ (i > 1 => input'[i - 1].at <= input'[i].at)
  <2>1. CASE i = n + 1
    <3>1. input'[i] \in Event(i)
      BY <1>3, <2>1 DEF Arrives, n
    <3>2. ASSUME i > 1 PROVE input'[i - 1].at <= input'[i].at
      <4>1. n \in 1..n /\ i - 1 = n /\ input # <<>>
        BY <1>1, <2>1, <3>2
      <4>2. Last(input) = input'[i - 1]
        BY <1>3, <4>1 DEF Last, n
      <4>. QED  BY <1>3, <2>1, <4>1, <4>2 DEF Arrives
    <3>. QED  BY <3>1, <3>2
  <2>2. CASE i \in 1..n
    <3>1. i > 1 => i - 1 \in 1..n
      BY <1>1, <2>2
    <3>. QED  BY <1>1, <1>3, <2>2, <3>1 DEF InputInv, TypeOK
  <2>. QED  BY <1>3, <1>4, <2>1, <2>2
<1>9. \A p : p \notin Places(e)
  <2>1. \A i \in DOMAIN open : open[i] \in Read
    BY LenProperties, ElementOfSeq DEF InputInv, TypeOK
  <2>2. \A i \in DOMAIN loose : loose[i] \in Read
    BY LenProperties, ElementOfSeq DEF InputInv, TypeOK
  <2>3. \A i \in DOMAIN calls : EventsOf(calls[i]) \subseteq Read
    BY Blocks
  <2>. QED  BY <1>6, <2>1, <2>2, <2>3, PlacesAre DEF IsPlace
<1>10. e.n = Len(input) + 1 /\ Len(input') = Len(input) + 1
  BY <1>1, <1>3 DEF n
<1>. QED  BY <1>2, <1>5, <1>6, <1>7, <1>8, <1>9, <1>10

\* Who waited for an event is settled when it is read.
LEMMA WaitingKept ==
  ASSUME InputInv, NEW e, Arrives(e),
         Paired \subseteq Paired', \A b \in Paired' : b \in Paired \/ b[2] = e,
         NEW x \in Read
  PROVE  Waiting(x)' = Waiting(x)
<1>1. /\ Read' = Read \cup {e} /\ e.n \in Int
      /\ x.n < e.n /\ x.n \in Int
  BY ArrivesNew, ReadNumbers
<1>2. ~(e.n < x.n)
  BY <1>1
<1>3. ASSUME NEW c
      PROVE  (\E b \in Paired' : b[1] = c /\ b[2].n < x.n)
               <=> \E b \in Paired : b[1] = c /\ b[2].n < x.n
  BY <1>2
<1>4. \A c : c \in Waiting(x)' <=> c \in Waiting(x)
  BY <1>1, <1>2, <1>3 DEF Waiting
<1>. QED  BY <1>4

\* For the event that is read wait the open calls that it may be the answer to.
LEMMA WaitingNew ==
  ASSUME LanesInv, NEW e, Arrives(e),
         Paired \subseteq Paired', \A b \in Paired' : b \in Paired \/ b[2] = e,
         NEW c
  PROVE  c \in Waiting(e)' <=> \E i \in DOMAIN open : open[i] = c /\ Takes(e, c)
<1>1. /\ InputInv /\ ~built /\ Read' = Read \cup {e} /\ e.n \in Int /\ e.at \in Int
      /\ \A x \in Read : x.n < e.n /\ x.at \in Int
  BY ArrivesNew, ReadNumbers, EventFields DEF LanesInv, Arrives
<1>2. ~(e.n < e.n)
  BY <1>1
<1>3. \A b \in Paired : b[2] \in Read
  BY <1>1, Blocks DEF Paired
<1>4. (\E b \in Paired' : b[1] = c /\ b[2].n < e.n) <=> \E b \in Paired : b[1] = c
  BY <1>1, <1>2, <1>3
<1>5. \A i \in DOMAIN open : open[i] \in Read /\ open[i].type \in OpenTypes
  BY <1>1, LenProperties, ElementOfSeq DEF InputInv, TypeOK
<1>6. ASSUME NEW x \in Read
      PROVE  Takes(e, x) <=> /\ x.tool = e.tool /\ e.at - x.at \in 0..Window
                             /\ e.type \in {Answer[x.type], "error"}
  BY <1>1, BoundsAssumption DEF Takes, Near
<1>7. c \in Waiting(e)' <=>
        /\ c \in Read /\ c.type \in OpenTypes /\ Takes(e, c)
        /\ ~\E b \in Paired : b[1] = c
  BY <1>1, <1>2, <1>4, <1>6 DEF Waiting
<1>. QED  BY <1>1, <1>5, <1>7, OpenOrAnswered
\* An element is added to a list of events or of blocks.
LEMMA Added ==
  ASSUME NEW S, NEW s \in Seq(S), NEW x, NEW t, t = Append(s, x)
  PROVE  /\ DOMAIN s = 1..Len(s) /\ Len(s) \in Nat
         /\ DOMAIN t = DOMAIN s \cup {Len(s) + 1} /\ Len(s) + 1 \notin DOMAIN s
         /\ \A i \in DOMAIN s : t[i] = s[i]
         /\ t[Len(s) + 1] = x
<1>1. s \in Seq(S \cup {x})
  BY SeqMonotonic
<1>2. /\ t \in Seq(S \cup {x}) /\ Len(t) = Len(s) + 1
      /\ \A i \in 1..Len(s) : t[i] = s[i]
      /\ t[Len(s) + 1] = x
  BY <1>1, AppendProperties
<1>3. DOMAIN s = 1..Len(s) /\ Len(s) \in Nat /\ DOMAIN t = 1..(Len(s) + 1)
  BY <1>2, LenProperties
<1>. QED  BY <1>2, <1>3

\* What was read remains read.
LEMMA Longer ==
  ASSUME InputInv, NEW e, Arrives(e)
  PROVE  /\ \A s \in Seq(Read) : s \in Seq(Read') /\ Append(s, e) \in Seq(Read')
         /\ \A s \in Seq(Seq(Read)), b \in Seq(Read') :
              s \in Seq(Seq(Read')) /\ Append(s, b) \in Seq(Seq(Read'))
<1>1. Read \subseteq Read' /\ e \in Read'
  BY ArrivesNew
<1>2. \A s \in Seq(Read) : s \in Seq(Read')
  BY <1>1, SeqMonotonic
<1>3. Seq(Read) \subseteq Seq(Read')
  BY <1>2
<1>4. \A s \in Seq(Seq(Read)) : s \in Seq(Seq(Read'))
  BY <1>3, SeqMonotonic
<1>. QED  BY <1>1, <1>2, <1>4, AppendProperties

\* The types after a step that reads e.
LEMMA InputStep ==
  ASSUME InputInv, NEW e, Arrives(e),
         open' \in Seq(Read'), loose' \in Seq(Read'), calls' \in Seq(Seq(Read')),
         \A i \in DOMAIN open' : open'[i].type \in OpenTypes,
         \A i \in DOMAIN calls' : Len(calls'[i]) \in {1, 2}
  PROVE  InputInv'
<1>1. \A i \in DOMAIN calls' : calls'[i] \in Seq(Read')
  BY LenProperties, ElementOfSeq
<1>2. built' \in BOOLEAN
  BY DEF InputInv, TypeOK, Arrives, Reads
<1>3. TypeOK'
  BY <1>1, <1>2, ArrivesNew DEF TypeOK
<1>. QED  BY <1>3, ArrivesNew DEF InputInv

\* The event that is read has one place, and the others keep theirs.
LEMMA PlaceStep ==
  ASSUME InputInv, PlaceInv, NEW e, Arrives(e),
         \E w : \A q : IsPlace(q, e, open', loose', calls') <=> q = w,
         \A x \in Read : \A q : IsPlace(q, x, open', loose', calls') <=> q \in Places(x)
  PROVE  PlaceInv'
<1>1. ASSUME NEW x \in Read'
      PROVE  \E p : \A q : IsPlace(q, x, open', loose', calls') <=> q = p
  <2>1. CASE x = e
    BY <2>1
  <2>2. CASE x \in Read
    <3>1. PICK p : \A q : q \in Places(x) <=> q = p
      BY <2>2 DEF PlaceInv
    <3>2. \A q : IsPlace(q, x, open', loose', calls') <=> q = p
      BY <2>2, <3>1
    <3>. QED  BY <3>2
  <2>. QED  BY <2>1, <2>2, ArrivesNew
<1>. QED  BY <1>1, PlacesNext

\* Nobody is answered: what waited for the events read waits for them.
LEMMA ServedStep ==
  ASSUME InputInv, FirstComeFirstServed, NEW e, Arrives(e),
         Paired' = Paired,
         \A x \in Alone' : x \in Alone \/ (x = e /\ (e.type \in CloseTypes => Waiting(e)' = {}))
  PROVE  FirstComeFirstServed'
<1>1. \A x \in Read : Waiting(x)' = Waiting(x)
  BY WaitingKept
<1>2. /\ \A b \in Paired : b[1] \in Read /\ b[2] \in Read
      /\ \A x \in Alone : x \in Read
  BY Blocks DEF Paired, Alone
<1>3. ASSUME NEW b \in Paired'
      PROVE  b[1] \in Waiting(b[2])' /\ \A c \in Waiting(b[2])' : b[1].n <= c.n
  BY <1>1, <1>2, <1>3 DEF FirstComeFirstServed
<1>4. ASSUME NEW x \in Alone', x.type \in CloseTypes PROVE Waiting(x)' = {}
  <2>1. CASE x \in Alone
    BY <1>1, <1>2, <1>4, <2>1 DEF FirstComeFirstServed
  <2>. QED  BY <1>4, <2>1
<1>. QED  BY <1>3, <1>4 DEF FirstComeFirstServed

\* A call is opened.
LEMMA OpensInv ==
  ASSUME LanesInv, NEW e, Arrives(e), Opens(e)
  PROVE  LanesInv'
<1>0. /\ InputInv /\ BlockInv /\ PlaceInv /\ FirstComeFirstServed /\ TypeOK
      /\ open' = Append(open, e) /\ UNCHANGED <<calls, loose>>
      /\ e.type \in OpenTypes
  BY DEF LanesInv, Opens, InputInv
<1>1. /\ DOMAIN open = 1..Len(open) /\ Len(open) \in Nat
      /\ DOMAIN open' = DOMAIN open \cup {Len(open) + 1} /\ Len(open) + 1 \notin DOMAIN open
      /\ \A i \in DOMAIN open : open'[i] = open[i] /\ open[i] \in Read
      /\ open'[Len(open) + 1] = e
  <2>1. open \in Seq(Read)
    BY <1>0 DEF TypeOK
  <2>. QED  BY <1>0, <2>1, Added, ElementOfSeq
<1>2. InputInv'
  <2>1. open' \in Seq(Read') /\ loose' \in Seq(Read') /\ calls' \in Seq(Seq(Read'))
    BY <1>0, Longer, EmptySeq DEF TypeOK, InputInv
  <2>2. /\ \A i \in DOMAIN open' : open'[i].type \in OpenTypes
        /\ \A i \in DOMAIN calls' : Len(calls'[i]) \in {1, 2}
    BY <1>0, <1>1 DEF TypeOK
  <2>. QED  BY <1>0, <2>1, <2>2, InputStep
<1>3. BlockInv'
  <2>1. ASSUME NEW i \in DOMAIN open', NEW j \in DOMAIN open', i < j
        PROVE  open'[i].n < open'[j].n
    <3>1. i \in DOMAIN open
      BY <1>1, <2>1
    <3>2. CASE j \in DOMAIN open
      BY <1>0, <1>1, <2>1, <3>1, <3>2 DEF BlockInv
    <3>3. CASE j = Len(open) + 1
      BY <1>0, <1>1, <3>1, <3>3, ArrivesNew
    <3>. QED  BY <1>1, <3>2, <3>3
  <2>2. ~built /\ ~built'
    BY <1>0, ArrivesNew
  <2>. QED  BY <1>0, <2>1, <2>2 DEF BlockInv
<1>4. PlaceInv'
  <2>1. ASSUME NEW x \in Read, NEW p
        PROVE  IsPlace(p, x, open', loose', calls') <=> p \in Places(x)
    <3>1. x # e
      BY <1>0, <2>1, ArrivesNew
    <3>. QED  BY <1>0, <1>1, <3>1, PlacesAre DEF IsPlace
  <2> DEFINE w == <<"open", Len(open) + 1>>
  <2>2. ASSUME NEW p
        PROVE  IsPlace(p, e, open', loose', calls') <=> p = w
    <3>1. p \notin Places(e)
      BY <1>0, ArrivesNew
    <3>2. \A i \in DOMAIN open : open'[i] # e
      BY <1>0, <1>1, ArrivesNew
    <3>. QED  BY <1>0, <1>1, <3>1, <3>2, PlacesAre DEF IsPlace
  <2> HIDE DEF w
  <2>3. \E v : \A q : IsPlace(q, e, open', loose', calls') <=> q = v
    BY <2>2
  <2>. QED  BY <1>0, <2>1, <2>3, PlaceStep
<1>5. FirstComeFirstServed'
  <2>1. Paired' = Paired /\ Alone' = Alone
    BY <1>0 DEF Paired, Alone
  <2>. QED  BY <1>0, <2>1, ServedStep
<1>. QED  BY <1>2, <1>3, <1>4, <1>5 DEF LanesInv
\* An event is neither call nor answer.
LEMMA LooseInv ==
  ASSUME LanesInv, NEW e, Arrives(e), Loose(e)
  PROVE  LanesInv'
<1>0. /\ InputInv /\ BlockInv /\ PlaceInv /\ FirstComeFirstServed /\ TypeOK
      /\ loose' = Append(loose, e) /\ UNCHANGED <<open, calls>>
      /\ e.type \notin OpenTypes \cup CloseTypes
  BY DEF LanesInv, Loose, InputInv
<1>1. /\ DOMAIN loose = 1..Len(loose) /\ Len(loose) \in Nat
      /\ DOMAIN loose' = DOMAIN loose \cup {Len(loose) + 1} /\ Len(loose) + 1 \notin DOMAIN loose
      /\ \A i \in DOMAIN loose : loose'[i] = loose[i] /\ loose[i] \in Read
      /\ loose'[Len(loose) + 1] = e
  <2>1. loose \in Seq(Read)
    BY <1>0 DEF TypeOK
  <2>. QED  BY <1>0, <2>1, Added, ElementOfSeq
<1>2. InputInv'
  <2>1. open' \in Seq(Read') /\ loose' \in Seq(Read') /\ calls' \in Seq(Seq(Read'))
    BY <1>0, Longer, EmptySeq DEF TypeOK, InputInv
  <2>2. /\ \A i \in DOMAIN open' : open'[i].type \in OpenTypes
        /\ \A i \in DOMAIN calls' : Len(calls'[i]) \in {1, 2}
    BY <1>0 DEF TypeOK
  <2>. QED  BY <1>0, <2>1, <2>2, InputStep
<1>3. BlockInv'
  <2>1. ~built /\ ~built'
    BY <1>0, ArrivesNew
  <2>. QED  BY <1>0, <1>1, <2>1 DEF BlockInv
<1>4. PlaceInv'
  <2>1. ASSUME NEW x \in Read, NEW p
        PROVE  IsPlace(p, x, open', loose', calls') <=> p \in Places(x)
    <3>1. x # e
      BY <1>0, <2>1, ArrivesNew
    <3>. QED  BY <1>0, <1>1, <3>1, PlacesAre DEF IsPlace
  <2> DEFINE w == <<"loose", Len(loose) + 1>>
  <2>2. ASSUME NEW p
        PROVE  IsPlace(p, e, open', loose', calls') <=> p = w
    <3>1. p \notin Places(e)
      BY <1>0, ArrivesNew
    <3>2. \A i \in DOMAIN loose : loose'[i] # e
      BY <1>0, <1>1, ArrivesNew
    <3>. QED  BY <1>0, <1>1, <3>1, <3>2, PlacesAre DEF IsPlace
  <2> HIDE DEF w
  <2>3. \E v : \A q : IsPlace(q, e, open', loose', calls') <=> q = v
    BY <2>2
  <2>. QED  BY <1>0, <2>1, <2>3, PlaceStep
<1>5. FirstComeFirstServed'
  <2>1. Paired' = Paired /\ Alone' = Alone
    BY <1>0 DEF Paired, Alone
  <2>. QED  BY <1>0, <2>1, ServedStep
<1>. QED  BY <1>2, <1>3, <1>4, <1>5 DEF LanesInv

\* A block is added behind the others.
LEMMA BlockAdded ==
  ASSUME InputInv, NEW b, calls' = Append(calls, b)
  PROVE  /\ DOMAIN calls' = DOMAIN calls \cup {Len(calls) + 1}
         /\ Len(calls) + 1 \notin DOMAIN calls
         /\ \A i \in DOMAIN calls : calls'[i] = calls[i]
         /\ calls'[Len(calls) + 1] = b
         /\ Len(b) = 2 => Paired' = Paired \cup {b} /\ Alone' = Alone
         /\ Len(b) = 1 => Paired' = Paired /\ Alone' = Alone \cup {b[1]}
<1>1. /\ DOMAIN calls' = DOMAIN calls \cup {Len(calls) + 1}
      /\ Len(calls) + 1 \notin DOMAIN calls
      /\ \A i \in DOMAIN calls : calls'[i] = calls[i]
      /\ calls'[Len(calls) + 1] = b
  <2>1. calls \in Seq(Seq(Read))
    BY DEF InputInv
  <2>. QED  BY <2>1, Added
<1>2. ASSUME Len(b) = 2 PROVE Paired' = Paired \cup {b} /\ Alone' = Alone
  <2>1. {i \in DOMAIN calls' : Len(calls'[i]) = 1} = {i \in DOMAIN calls : Len(calls[i]) = 1}
    BY <1>1, <1>2
  <2>2. Alone' = Alone
    BY <1>1, <2>1 DEF Alone
  <2>. QED  BY <1>1, <1>2, <2>2 DEF Paired
<1>3. Len(b) = 1 => Paired' = Paired /\ Alone' = Alone \cup {b[1]}
  BY <1>1 DEF Paired, Alone
<1>. QED  BY <1>1, <1>2, <1>3

\* An answer finds no call.
LEMMA OrphanInv ==
  ASSUME LanesInv, NEW e, Arrives(e), Orphan(e)
  PROVE  LanesInv'
<1>0. /\ InputInv /\ BlockInv /\ PlaceInv /\ FirstComeFirstServed /\ TypeOK
      /\ calls' = Append(calls, <<e>>) /\ UNCHANGED <<open, loose>>
      /\ e.type \in CloseTypes /\ \A i \in DOMAIN open : ~Takes(e, open[i])
  BY DEF LanesInv, Orphan, InputInv
<1>1. /\ DOMAIN calls' = DOMAIN calls \cup {Len(calls) + 1}
      /\ Len(calls) + 1 \notin DOMAIN calls
      /\ \A i \in DOMAIN calls : calls'[i] = calls[i]
      /\ calls'[Len(calls) + 1] = <<e>>
      /\ Paired' = Paired /\ Alone' = Alone \cup {e}
  <2>1. Len(<<e>>) = 1 /\ <<e>>[1] = e
    OBVIOUS
  <2>. QED  BY <1>0, <2>1, BlockAdded
<1>2. <<e>> \in Seq(Read') /\ Len(<<e>>) = 1 /\ <<e>>[1] = e /\ EventsOf(<<e>>) = {e}
  <2>1. e \in Read'
    BY <1>0, ArrivesNew
  <2>. QED  BY <2>1 DEF EventsOf
<1>3. InputInv'
  <2>1. open' \in Seq(Read') /\ loose' \in Seq(Read') /\ calls' \in Seq(Seq(Read'))
    BY <1>0, <1>2, Longer DEF TypeOK, InputInv
  <2>2. /\ \A i \in DOMAIN open' : open'[i].type \in OpenTypes
        /\ \A i \in DOMAIN calls' : Len(calls'[i]) \in {1, 2}
    BY <1>0, <1>1, <1>2 DEF TypeOK
  <2>. QED  BY <1>0, <2>1, <2>2, InputStep
<1>4. BlockInv'
  <2>1. ~built /\ ~built'
    BY <1>0, ArrivesNew
  <2>. QED  BY <1>0, <1>1, <1>2, <2>1 DEF BlockInv
<1>5. PlaceInv'
  <2>1. ASSUME NEW x \in Read, NEW p
        PROVE  IsPlace(p, x, open', loose', calls') <=> p \in Places(x)
    <3>1. x # e
      BY <1>0, <2>1, ArrivesNew
    <3>. QED  BY <1>0, <1>1, <1>2, <3>1, PlacesAre DEF IsPlace
  <2> DEFINE w == <<"calls", Len(calls) + 1>>
  <2>2. ASSUME NEW p
        PROVE  IsPlace(p, e, open', loose', calls') <=> p = w
    <3>1. p \notin Places(e)
      BY <1>0, ArrivesNew
    <3>2. \A i \in DOMAIN calls : e \notin EventsOf(calls'[i])
      <4>1. \A i \in DOMAIN calls : EventsOf(calls[i]) \subseteq Read
        BY <1>0, Blocks
      <4>. QED  BY <1>0, <1>1, <4>1, ArrivesNew
    <3>. QED  BY <1>0, <1>1, <1>2, <3>1, <3>2, PlacesAre DEF IsPlace
  <2> HIDE DEF w
  <2>3. \A x \in Read : \A q : IsPlace(q, x, open', loose', calls') <=> q \in Places(x)
    BY <2>1
  <2>4. \E v : \A q : IsPlace(q, e, open', loose', calls') <=> q = v
    BY <2>2
  <2>. QED  BY <1>0, <2>3, <2>4, PlaceStep
<1>6. FirstComeFirstServed'
  <2>1. Waiting(e)' = {}
    <3>1. \A c : c \notin Waiting(e)'
      BY <1>0, <1>1, WaitingNew
    <3>. QED  BY <3>1
  <2>. QED  BY <1>0, <1>1, <2>1, ServedStep
<1>. QED  BY <1>3, <1>4, <1>5, <1>6 DEF LanesInv

\* findIndex finds the first.
LEMMA ChoiceIsFirst ==
  ASSUME NEW n \in Nat, NEW S \in SUBSET (1..n), S # {}
  PROVE  Choice(S) \in S /\ \A j \in S : Choice(S) <= j
<1>1. IsFiniteSet(S)
  <2>1. IsFiniteSet(1..n)
    <3>1. 1 \in Int /\ n \in Int
      OBVIOUS
    <3>. QED  BY <3>1, FS_Interval
  <2>. QED  BY <2>1, FS_Subset
<1>2. \E i \in S : \A j \in S : i <= j
  <2>1. S \in SUBSET Int
    OBVIOUS
  <2>. QED  BY <1>1, <2>1, LeastNumber
<1>. QED  BY <1>2 DEF Choice

\* An answer takes the first call that it may be the answer to.
LEMMA ClosesInv ==
  ASSUME LanesInv, NEW e, Arrives(e), Closes(e)
  PROVE  LanesInv'
<1> DEFINE mine == {i \in DOMAIN open : Takes(e, open[i])}
           n == Len(open)
<1>0. /\ InputInv /\ BlockInv /\ PlaceInv /\ FirstComeFirstServed /\ TypeOK
      /\ UNCHANGED loose /\ e.type \in CloseTypes
  BY DEF LanesInv, Closes, InputInv
<1>1. PICK i \in mine : i = Choice(mine) /\ \A j \in mine : i <= j
  <2>1. n \in Nat /\ mine \in SUBSET (1..n) /\ mine # {}
    BY <1>0, LenProperties DEF TypeOK, Closes
  <2> HIDE DEF mine, n
  <2>. QED  BY <2>1, ChoiceIsFirst
<1>2. calls' = Append(calls, <<open[i], e>>) /\ open' = RemoveAt(open, i)
  BY <1>1 DEF Closes, Taken
<1>3. PICK c : c = open[i]
  OBVIOUS
<1>4. /\ open \in Seq(Read) /\ n \in Nat /\ DOMAIN open = 1..n
      /\ i \in 1..n /\ Takes(e, c)
      /\ \A j \in 1..n : open[j] \in Read
  BY <1>0, <1>1, <1>3, LenProperties, ElementOfSeq DEF TypeOK
<1>5. c \in Read /\ c.type \in OpenTypes
  BY <1>0, <1>3, <1>4 DEF TypeOK
<1>6. /\ open' \in Seq(Read) /\ DOMAIN open' = 1..(n - 1)
      /\ \A j \in 1..(n - 1) : open'[j] = IF j < i THEN open[j] ELSE open[j + 1]
  BY <1>2, <1>4, RemoveAtProperties
<1> DEFINE b == <<c, e>>
<1>7. /\ b \in Seq(Read') /\ Len(b) = 2 /\ b[1] = c /\ b[2] = e
      /\ EventsOf(b) = {c, e}
  <2>1. e \in Read' /\ c \in Read'
    BY <1>0, <1>5, ArrivesNew
  <2>. QED  BY <2>1 DEF EventsOf
<1> HIDE DEF b
<1>8. /\ DOMAIN calls' = DOMAIN calls \cup {Len(calls) + 1}
      /\ Len(calls) + 1 \notin DOMAIN calls
      /\ \A k \in DOMAIN calls : calls'[k] = calls[k]
      /\ calls'[Len(calls) + 1] = b
      /\ Paired' = Paired \cup {b} /\ Alone' = Alone
      /\ calls' = Append(calls, b)
  <2>1. calls' = Append(calls, b)
    BY <1>2, <1>3 DEF b
  <2>. QED  BY <1>0, <1>7, <2>1, BlockAdded
<1> HIDE DEF mine, n
<1>9. InputInv'
  <2>1. open' \in Seq(Read') /\ loose' \in Seq(Read') /\ calls' \in Seq(Seq(Read'))
    BY <1>0, <1>6, <1>7, <1>8, Longer DEF TypeOK, InputInv
  <2>2. \A j \in DOMAIN open' : open'[j].type \in OpenTypes
    <3>1. \A j \in 1..(n - 1) : j \in 1..n /\ j + 1 \in 1..n
      BY <1>4
    <3>. QED  BY <1>0, <1>4, <1>6, <3>1 DEF TypeOK
  <2>3. \A k \in DOMAIN calls' : Len(calls'[k]) \in {1, 2}
    BY <1>0, <1>7, <1>8 DEF TypeOK
  <2>. QED  BY <1>0, <2>1, <2>2, <2>3, InputStep
<1>10. BlockInv'
  <2>1. ~built /\ ~built'
    BY <1>0, ArrivesNew
  <2>2. ASSUME NEW j \in 1..(n - 1), NEW k \in 1..(n - 1), j < k
        PROVE  open'[j].n < open'[k].n
    <3> DEFINE old(m) == IF m < i THEN m ELSE m + 1
    <3>1. old(j) \in 1..n /\ old(k) \in 1..n /\ old(j) < old(k)
      BY <1>4, <2>2
    <3>2. open'[j] = open[old(j)] /\ open'[k] = open[old(k)]
      BY <1>6
    <3> HIDE DEF old
    <3>. QED  BY <1>0, <1>4, <3>1, <3>2 DEF BlockInv
  <2>. QED  BY <1>0, <1>5, <1>6, <1>7, <1>8, <2>1, <2>2 DEF BlockInv
<1>11. FirstComeFirstServed'
  <2>0. Paired \subseteq Paired' /\ \A q \in Paired' : q \in Paired \/ q[2] = e
    BY <1>7, <1>8
  <2>1. \A x \in Read : Waiting(x)' = Waiting(x)
    BY <1>0, <2>0, WaitingKept
  <2>2. \A x : x \in Waiting(e)' <=> \E j \in DOMAIN open : open[j] = x /\ Takes(e, x)
    BY <2>0, WaitingNew
  <2>3. c \in Waiting(e)'
    BY <1>3, <1>4, <2>2
  <2>4. ASSUME NEW x \in Waiting(e)' PROVE c.n <= x.n
    <3>1. PICK j \in DOMAIN open : open[j] = x /\ Takes(e, x)
      BY <2>2, <2>4
    <3>2. i <= j
      BY <1>1, <3>1 DEF mine
    <3>3. i = j \/ c.n < x.n
      BY <1>0, <1>3, <1>4, <3>1, <3>2 DEF BlockInv
    <3>4. c.n \in Int /\ x.n \in Int
      BY <1>0, <1>4, <1>5, <3>1, ReadNumbers
    <3>. QED  BY <1>3, <3>1, <3>3, <3>4
  <2>5. /\ \A q \in Paired : q[1] \in Read /\ q[2] \in Read
        /\ \A x \in Alone : x \in Read
    BY <1>0, Blocks DEF Paired, Alone
  <2>6. ASSUME NEW q \in Paired'
        PROVE  q[1] \in Waiting(q[2])' /\ \A x \in Waiting(q[2])' : q[1].n <= x.n
    <3>1. CASE q \in Paired
      BY <1>0, <2>1, <2>5, <3>1 DEF FirstComeFirstServed
    <3>2. CASE q = b
      BY <1>7, <2>3, <2>4, <3>2
    <3>. QED  BY <1>8, <3>1, <3>2
  <2>7. ASSUME NEW x \in Alone', x.type \in CloseTypes PROVE Waiting(x)' = {}
    BY <1>0, <1>8, <2>1, <2>5, <2>7 DEF FirstComeFirstServed
  <2>. QED  BY <2>6, <2>7 DEF FirstComeFirstServed
<1>12. PlaceInv'
  <2> DEFINE w == <<"calls", Len(calls) + 1>>
             old(m) == IF m < i THEN m ELSE m + 1
  <2>1. /\ \A x \in Read : \E p : \A q : q \in Places(x) <=> q = p
        /\ <<"open", i>> \in Places(c)
        /\ \A q : q \notin Places(e)
        /\ c # e
    <3>1. <<"open", i>> \in Places(c)
      BY <1>3, <1>4, PlacesAre DEF IsPlace
    <3>2. (\A q : q \notin Places(e)) /\ e \notin Read
      BY <1>0, ArrivesNew
    <3>3. \A x \in Read : \E p : \A q : q \in Places(x) <=> q = p
      BY <1>0 DEF PlaceInv
    <3>4. c # e
      BY <1>5, <3>2
    <3>. QED  BY <3>1, <3>2, <3>3, <3>4
  <2>2. /\ \A j \in 1..(n - 1) : old(j) \in 1..n /\ old(j) # i
        /\ \A j \in 1..(n - 1) : open'[j] = open[old(j)]
        /\ \A j, k \in 1..(n - 1) : old(j) = old(k) => j = k
        /\ \A k \in 1..n : k # i => \E j \in 1..(n - 1) : old(j) = k
    <3>1. /\ \A j \in 1..(n - 1) : old(j) \in 1..n /\ old(j) # i
          /\ \A j, k \in 1..(n - 1) : old(j) = old(k) => j = k
      BY <1>4
    <3>2. ASSUME NEW k \in 1..n, k # i PROVE \E j \in 1..(n - 1) : old(j) = k
      <4>1. CASE k < i
        <5>1. k \in 1..(n - 1) /\ old(k) = k
          BY <1>4, <4>1
        <5>. QED  BY <5>1
      <4>2. CASE k > i
        <5>1. k - 1 \in 1..(n - 1) /\ old(k - 1) = k
          BY <1>4, <4>2
        <5>. QED  BY <5>1
      <4>. QED  BY <1>4, <3>2, <4>1, <4>2
    <3>. QED  BY <1>6, <3>1, <3>2
  <2> HIDE DEF w, old
  <2>3. ASSUME NEW x, NEW q
        PROVE  IsPlace(q, x, open', loose', calls') <=>
                 \/ \E j \in 1..(n - 1) : q = <<"open", j>> /\ open[old(j)] = x
                 \/ \E j \in DOMAIN loose : q = <<"loose", j>> /\ loose[j] = x
                 \/ \E k \in DOMAIN calls : q = <<"calls", k>> /\ x \in EventsOf(calls[k])
                 \/ q = w /\ x \in {c, e}
    BY <1>0, <1>6, <1>7, <1>8, <2>2, SMTT(30) DEF IsPlace, w
  \* The answer, and the call it answers, are in the new block.
  <2>4. ASSUME NEW x, x = e \/ x = c
        PROVE  \A q : IsPlace(q, x, open', loose', calls') <=> q = w
    <3>1. ASSUME NEW j \in 1..(n - 1), open[old(j)] = x PROVE FALSE
      <4>1. <<"open", old(j)>> \in Places(x)
        BY <1>4, <2>2, <3>1, PlacesAre DEF IsPlace
      <4>2. <<"open", old(j)>> = <<"open", i>>
        BY <1>5, <2>1, <2>4, <4>1
      <4>. QED  BY <2>2, <4>2
    <3>2. ASSUME NEW j \in DOMAIN loose, loose[j] = x PROVE FALSE
      <4>1. <<"loose", j>> \in Places(x)
        BY <3>2, PlacesAre DEF IsPlace
      <4>2. <<"loose", j>> = <<"open", i>>
        BY <1>5, <2>1, <2>4, <4>1
      <4>. QED  BY <4>2
    <3>3. ASSUME NEW k \in DOMAIN calls, x \in EventsOf(calls[k]) PROVE FALSE
      <4>1. <<"calls", k>> \in Places(x)
        BY <3>3, PlacesAre DEF IsPlace
      <4>2. <<"calls", k>> = <<"open", i>>
        BY <1>5, <2>1, <2>4, <4>1
      <4>. QED  BY <4>2
    <3>. QED  BY <2>3, <2>4, <3>1, <3>2, <3>3
  \* Another event stays where it is, or moves up with the open calls.
  <2>5. ASSUME NEW x \in Read, x # c
        PROVE  \E p : \A q : IsPlace(q, x, open', loose', calls') <=> q = p
    <3>1. PICK p : \A q : q \in Places(x) <=> q = p
      BY <2>1
    <3>2. x # e
      BY <1>0, ArrivesNew
    <3>3. p \in Places(x)
      BY <3>1
    <3>4. CASE \E k \in 1..n : p = <<"open", k>> /\ open[k] = x
      <4>1. PICK k \in 1..n : p = <<"open", k>> /\ open[k] = x
        BY <3>4
      <4>2. k # i
        BY <1>3, <2>5, <4>1
      <4>3. PICK j \in 1..(n - 1) : old(j) = k
        BY <2>2, <4>2
      <4>4. ASSUME NEW q, IsPlace(q, x, open', loose', calls')
            PROVE  q = <<"open", j>>
        <5>1. CASE \E m \in 1..(n - 1) : q = <<"open", m>> /\ open[old(m)] = x
          <6>1. PICK m \in 1..(n - 1) : q = <<"open", m>> /\ open[old(m)] = x
            BY <5>1
          <6>2. <<"open", old(m)>> \in Places(x)
            BY <1>4, <2>2, <6>1, PlacesAre DEF IsPlace
          <6>3. old(m) = k
            BY <3>1, <4>1, <6>2
          <6>. QED  BY <2>2, <4>3, <6>1, <6>3
        <5>2. CASE ~\E m \in 1..(n - 1) : q = <<"open", m>> /\ open[old(m)] = x
          <6>1. q \in Places(x)
            BY <2>3, <2>5, <3>2, <4>4, <5>2, PlacesAre DEF IsPlace
          <6>2. q = <<"open", k>>
            BY <3>1, <4>1, <6>1
          <6>3. q # w
            BY <6>2 DEF w
          <6>. QED  BY <2>3, <2>5, <3>2, <4>4, <5>2, <6>2
        <5>. QED  BY <5>1, <5>2
      <4>5. IsPlace(<<"open", j>>, x, open', loose', calls')
        BY <2>3, <4>1, <4>3
      <4>. QED  BY <4>4, <4>5
    <3>5. CASE ~\E k \in 1..n : p = <<"open", k>> /\ open[k] = x
      <4>1. ASSUME NEW m \in 1..n PROVE open[m] # x
        <5>1. open[m] = x => <<"open", m>> \in Places(x)
          BY <1>4, <4>1, PlacesAre DEF IsPlace
        <5>. QED  BY <3>1, <3>5, <5>1
      <4>2. ASSUME NEW q
            PROVE  IsPlace(q, x, open', loose', calls') <=> q \in Places(x)
        <5>1. \A j \in 1..(n - 1) : open[old(j)] # x
          BY <2>2, <4>1
        <5>2. x \notin {c, e}
          BY <2>5, <3>2
        <5>3. IsPlace(q, x, open', loose', calls') <=>
                 \/ \E j \in DOMAIN loose : q = <<"loose", j>> /\ loose[j] = x
                 \/ \E k \in DOMAIN calls : q = <<"calls", k>> /\ x \in EventsOf(calls[k])
          BY <2>3, <5>1, <5>2
        <5>4. q \in Places(x) <=>
                 \/ \E j \in DOMAIN loose : q = <<"loose", j>> /\ loose[j] = x
                 \/ \E k \in DOMAIN calls : q = <<"calls", k>> /\ x \in EventsOf(calls[k])
          BY <1>4, <4>1, PlacesAre DEF IsPlace
        <5>. QED  BY <5>3, <5>4
      <4>. QED  BY <3>1, <4>2
    <3>. QED  BY <3>4, <3>5
  <2>6. ASSUME NEW x \in Read'
        PROVE  \E p : \A q : IsPlace(q, x, open', loose', calls') <=> q = p
    <3>1. CASE x = e \/ x = c
      BY <2>4, <3>1
    <3>2. CASE x \in Read /\ x # c
      BY <2>5, <3>2
    <3>. QED  BY <1>0, <3>1, <3>2, ArrivesNew
  <2>. QED  BY <2>6, PlacesNext
<1>. QED  BY <1>9, <1>10, <1>11, <1>12 DEF LanesInv
\* The blocks when the loop is over: those there are, and one of each open call.
LEMMA Gathered ==
  ASSUME InputInv
  PROVE  LET n == Len(calls)
             m == Len(open)
             all == calls \o [i \in DOMAIN open |-> <<open[i]>>]
         IN  /\ all \in Seq(Seq(Read))
             /\ n \in Nat /\ m \in Nat /\ DOMAIN calls = 1..n /\ DOMAIN open = 1..m
             /\ DOMAIN all = 1..(n + m)
             /\ \A k \in 1..n : all[k] = calls[k]
             /\ \A k \in 1..m : all[n + k] = <<open[k]>>
             /\ \A i \in 1..m : open[i] \in Read
<1> DEFINE n == Len(calls)
           m == Len(open)
           rest == [i \in DOMAIN open |-> <<open[i]>>]
           all == calls \o rest
<1>1. /\ n \in Nat /\ m \in Nat /\ DOMAIN calls = 1..n /\ DOMAIN open = 1..m
      /\ calls \in Seq(Seq(Read)) /\ open \in Seq(Read)
      /\ \A i \in 1..m : open[i] \in Read
  BY LenProperties, ElementOfSeq DEF InputInv, TypeOK
<1>2. rest \in Seq(Seq(Read)) /\ Len(rest) = m /\ DOMAIN rest = 1..m
  <2>1. rest \in [1..m -> Seq(Read)]
    BY <1>1
  <2>2. rest \in Seq(Seq(Read))
    BY <1>1, <2>1, SeqDef
  <2>3. DOMAIN rest = 1..m
    BY <1>1
  <2> HIDE DEF rest, m
  <2>4. Len(rest) = m
    BY <1>1, <2>2, <2>3, LenProperties
  <2>. QED  BY <2>2, <2>3, <2>4
<1>3. \A k \in 1..m : rest[k] = <<open[k]>>
  BY <1>1
<1> HIDE DEF rest
<1>4. /\ all \in Seq(Seq(Read)) /\ Len(all) = n + m
      /\ \A k \in 1..(n + m) : all[k] = IF k <= n THEN calls[k] ELSE rest[k - n]
  BY <1>1, <1>2, ConcatProperties
<1>5. DOMAIN all = 1..(n + m)
  BY <1>4, LenProperties
<1> HIDE DEF all, n, m
<1>6. \A k \in 1..n : all[k] = calls[k]
  <2>1. \A k \in 1..n : k \in 1..(n + m) /\ k <= n
    BY <1>1
  <2>. QED  BY <1>4, <2>1
<1>7. \A k \in 1..m : all[n + k] = <<open[k]>>
  <2>1. \A k \in 1..m : n + k \in 1..(n + m) /\ ~(n + k <= n) /\ (n + k) - n = k
    BY <1>1
  <2>. QED  BY <1>3, <1>4, <2>1
<1>. QED  BY <1>1, <1>4, <1>5, <1>6, <1>7 DEF all, n, m, rest

\* The loop is over: the blocks are sorted, and a call that is still open is one.
LEMMA BuildInv ==
  ASSUME LanesInv, Build
  PROVE  LanesInv'
<1> DEFINE n == Len(calls)
           m == Len(open)
           all == calls \o [i \in DOMAIN open |-> <<open[i]>>]
<1>0. /\ InputInv /\ BlockInv /\ PlaceInv /\ FirstComeFirstServed /\ TypeOK
      /\ ~built /\ built' = TRUE /\ calls' = ByStart(all) /\ open' = <<>>
      /\ input' = input /\ loose' = loose
  BY DEF LanesInv, Build, InputInv
<1>1. /\ all \in Seq(Seq(Read))
      /\ n \in Nat /\ m \in Nat /\ DOMAIN calls = 1..n /\ DOMAIN open = 1..m
      /\ DOMAIN all = 1..(n + m)
      /\ \A k \in 1..n : all[k] = calls[k]
      /\ \A k \in 1..m : all[n + k] = <<open[k]>>
      /\ \A i \in 1..m : open[i] \in Read
  BY <1>0, Gathered
<1> HIDE DEF all, n, m
<1>2. \A k \in 1..(n + m) : k \in 1..n \/ \E i \in 1..m : k = n + i
  <2>1. \A k \in 1..(n + m) : k \in 1..n \/ (k - n \in 1..m /\ k = n + (k - n))
    BY <1>1
  <2>. QED  BY <2>1
<1>3. \A k \in 1..n : calls[k] \in Seq(Read) /\ Len(calls[k]) \in {1, 2}
  BY <1>0, <1>1, Blocks
<1>4. \A i \in 1..m : /\ <<open[i]>> \in Seq(Read) /\ Len(<<open[i]>>) = 1
                      /\ <<open[i]>>[1] = open[i] /\ EventsOf(<<open[i]>>) = {open[i]}
  BY <1>1 DEF EventsOf
<1>5. ASSUME NEW k \in 1..(n + m)
      PROVE  all[k] \in Seq(Read) /\ Len(all[k]) \in {1, 2}
  <2>1. CASE k \in 1..n
    BY <1>1, <1>3, <2>1
  <2>2. CASE \E i \in 1..m : k = n + i
    <3>1. PICK i \in 1..m : k = n + i
      BY <2>2
    <3>2. all[k] = <<open[i]>>
      BY <1>1, <3>1
    <3>3. <<open[i]>> \in Seq(Read) /\ Len(<<open[i]>>) = 1
      BY <1>4
    <3>. QED  BY <3>2, <3>3
  <2>. QED  BY <1>2, <2>1, <2>2
<1>6. \A k \in DOMAIN all : Start(all[k]) \in Int
  <2>1. ASSUME NEW k \in 1..(n + m) PROVE Start(all[k]) \in Int
    <3>1. 1 \in 1..Len(all[k])
      BY <1>5
    <3>2. all[k][1] \in Read
      BY <1>5, <3>1, ElementOfSeq
    <3>3. all[k][1].at \in Int
      BY <1>0, <3>2, ReadNumbers
    <3>4. Start(all[k]) = all[k][1].at
      BY <1>5, <3>1 DEF Start
    <3>. QED  BY <3>3, <3>4
  <2>. QED  BY <1>1, <2>1
<1>7. PICK f \in [1..(n + m) -> 1..(n + m)] :
        /\ \A k \in 1..(n + m) : calls'[k] = all[f[k]]
        /\ \A j, k \in 1..(n + m) : f[j] = f[k] => j = k
        /\ \A i \in 1..(n + m) : \E k \in 1..(n + m) : f[k] = i
  <2>1. PICK f \in [DOMAIN all -> DOMAIN all] :
          /\ \A k \in DOMAIN all : ByStart(all)[k] = all[f[k]]
          /\ \A j, k \in DOMAIN all : f[j] = f[k] => j = k
          /\ \A i \in DOMAIN all : \E k \in DOMAIN all : f[k] = i
    BY <1>1, <1>6, ByStartPermutes
  <2>2. f \in [1..(n + m) -> 1..(n + m)]
    BY <1>1, <2>1
  <2>3. /\ \A k \in 1..(n + m) : calls'[k] = all[f[k]]
        /\ \A j, k \in 1..(n + m) : f[j] = f[k] => j = k
        /\ \A i \in 1..(n + m) : \E k \in 1..(n + m) : f[k] = i
    BY <1>0, <1>1, <2>1
  <2>. QED  BY <2>2, <2>3
<1>8. calls' \in Seq(Seq(Read)) /\ DOMAIN calls' = 1..(n + m)
  BY <1>0, <1>1, <1>6, ByStartPermutes
<1>9. Read' = Read
  BY <1>0 DEF Read
<1>10. Paired' = Paired
  <2>1. ASSUME NEW b \in Paired PROVE b \in Paired'
    <3>1. PICK i \in 1..n : b = calls[i] /\ Len(calls[i]) = 2
      BY <1>1 DEF Paired
    <3>2. i \in 1..(n + m)
      BY <1>1
    <3>3. PICK k \in 1..(n + m) : f[k] = i
      BY <1>7, <3>2
    <3>4. calls'[k] = b
      BY <1>1, <1>7, <3>1, <3>3
    <3>. QED  BY <1>8, <3>1, <3>4 DEF Paired
  <2>2. ASSUME NEW b \in Paired' PROVE b \in Paired
    <3>1. PICK k \in 1..(n + m) : b = calls'[k] /\ Len(b) = 2
      BY <1>8 DEF Paired
    <3>2. f[k] \in 1..(n + m) /\ b = all[f[k]]
      BY <1>7, <3>1
    <3>3. f[k] \in 1..n
      <4>1. ASSUME NEW i \in 1..m, f[k] = n + i PROVE FALSE
        <5>1. all[f[k]] = <<open[i]>>
          BY <1>1, <4>1
        <5>2. Len(all[f[k]]) = 1
          BY <1>4, <5>1
        <5>3. Len(b) = 1
          BY <3>2, <5>2
        <5>4. Len(b) = 2
          BY <3>1
        <5>. QED  BY <5>3, <5>4
      <4>. QED  BY <1>2, <3>2, <4>1
    <3>. QED  BY <1>1, <3>1, <3>2, <3>3 DEF Paired
  <2>. QED  BY <2>1, <2>2
<1>11. \A x \in Alone' : x \in Alone \/ \E i \in 1..m : x = open[i]
  <2>1. ASSUME NEW x \in Alone' PROVE x \in Alone \/ \E i \in 1..m : x = open[i]
    <3>1. PICK k \in 1..(n + m) : x = calls'[k][1] /\ Len(calls'[k]) = 1
      BY <1>8 DEF Alone
    <3>2. f[k] \in 1..(n + m) /\ x = all[f[k]][1] /\ Len(all[f[k]]) = 1
      BY <1>7, <3>1
    <3>3. CASE f[k] \in 1..n
      BY <1>1, <3>2, <3>3 DEF Alone
    <3>4. CASE \E i \in 1..m : f[k] = n + i
      <4>1. PICK i \in 1..m : f[k] = n + i
        BY <3>4
      <4>2. all[f[k]] = <<open[i]>>
        BY <1>1, <4>1
      <4>3. x = open[i]
        BY <1>4, <3>2, <4>2
      <4>. QED  BY <4>3
    <3>. QED  BY <1>2, <3>2, <3>3, <3>4
  <2>. QED  BY <2>1
<1>12. InputInv'
  <2>1. \A k \in DOMAIN calls' : calls'[k] \in Seq(Read) /\ Len(calls'[k]) \in {1, 2}
    BY <1>5, <1>7, <1>8
  <2>2. TypeOK'
    BY <1>0, <1>9, <2>1, EmptySeq DEF TypeOK
  <2>. QED  BY <1>0, <1>8, <1>9, <2>2 DEF InputInv
<1>13. BlockInv'
  <2>1. ASSUME NEW k \in DOMAIN calls', Len(calls'[k]) = 2
        PROVE  calls'[k][1].type \in OpenTypes /\ calls'[k][2].type \in CloseTypes
    <3>1. calls'[k] \in Paired
      BY <1>10, <2>1 DEF Paired
    <3>. QED  BY <1>0, <3>1 DEF BlockInv, Paired
  <2>. QED  BY <1>0, <2>1 DEF BlockInv
<1>14. FirstComeFirstServed'
  <2>1. \A x : Waiting(x)' = Waiting(x)
    BY <1>9, <1>10 DEF Waiting
  <2>2. \A i \in 1..m : open[i].type \notin CloseTypes
    BY <1>0, <1>1, TypesDiffer DEF TypeOK
  <2>. QED  BY <1>0, <1>10, <1>11, <2>1, <2>2 DEF FirstComeFirstServed
<1>15. PlaceInv'
  <2>1. ASSUME NEW x \in Read
        PROVE  \E p : \A q : IsPlace(q, x, open', loose', calls') <=> q = p
    <3>1. PICK p : \A q : q \in Places(x) <=> q = p
      BY <1>0 DEF PlaceInv
    <3>2. ASSUME NEW q
          PROVE  IsPlace(q, x, open', loose', calls') <=>
                   \/ \E j \in DOMAIN loose : q = <<"loose", j>> /\ loose[j] = x
                   \/ \E k \in 1..(n + m) : q = <<"calls", k>> /\ x \in EventsOf(all[f[k]])
      BY <1>0, <1>7, <1>8 DEF IsPlace
    <3>3. ASSUME NEW k \in 1..(n + m), x \in EventsOf(all[f[k]])
          PROVE  \/ f[k] \in 1..n /\ p = <<"calls", f[k]>>
                 \/ \E i \in 1..m : f[k] = n + i /\ p = <<"open", i>>
      <4>1. f[k] \in 1..(n + m)
        BY <1>7
      <4>2. CASE f[k] \in 1..n
        <5>1. <<"calls", f[k]>> \in Places(x)
          BY <1>1, <3>3, <4>2, PlacesAre DEF IsPlace
        <5>. QED  BY <3>1, <4>2, <5>1
      <4>3. CASE \E i \in 1..m : f[k] = n + i
        <5>1. PICK i \in 1..m : f[k] = n + i
          BY <4>3
        <5>2. x = open[i]
          <6>1. EventsOf(all[f[k]]) = {open[i]}
            BY <1>1, <1>4, <5>1
          <6>. QED  BY <3>3, <6>1
        <5>3. <<"open", i>> \in Places(x)
          BY <1>1, <5>2, PlacesAre DEF IsPlace
        <5>. QED  BY <3>1, <5>1, <5>3
      <4>. QED  BY <1>2, <4>1, <4>2, <4>3
    <3>4. ASSUME NEW j \in 1..(n + m), x \in EventsOf(all[f[j]]),
                 NEW k \in 1..(n + m), x \in EventsOf(all[f[k]])
          PROVE  j = k
      <4>1. f[j] = f[k]
        <5>1. CASE f[j] \in 1..n /\ p = <<"calls", f[j]>>
          BY <3>3, <3>4, <5>1
        <5>2. CASE \E i \in 1..m : f[j] = n + i /\ p = <<"open", i>>
          BY <3>3, <3>4, <5>2
        <5>. QED  BY <3>3, <3>4, <5>1, <5>2
      <4>. QED  BY <1>7, <4>1
    <3>5. CASE \E j \in DOMAIN loose : p = <<"loose", j>> /\ loose[j] = x
      <4>1. \A k \in 1..(n + m) : x \notin EventsOf(all[f[k]])
        BY <3>3, <3>5
      <4>2. \A j \in DOMAIN loose : loose[j] = x => <<"loose", j>> = p
        BY <3>1, PlacesAre DEF IsPlace
      <4>3. ASSUME NEW q, IsPlace(q, x, open', loose', calls') PROVE q = p
        BY <3>2, <4>1, <4>2, <4>3
      <4>4. IsPlace(p, x, open', loose', calls')
        BY <3>2, <3>5
      <4>. QED  BY <4>3, <4>4
    <3>6. CASE ~\E j \in DOMAIN loose : p = <<"loose", j>> /\ loose[j] = x
      <4>1. \A j \in DOMAIN loose : loose[j] # x
        <5>1. \A j \in DOMAIN loose : loose[j] = x => <<"loose", j>> = p
          BY <3>1, PlacesAre DEF IsPlace
        <5>. QED  BY <3>6, <5>1
      <4>2. \E k \in 1..(n + m) : x \in EventsOf(all[k])
        <5>1. \/ \E i \in 1..m : open[i] = x
              \/ \E k \in 1..n : x \in EventsOf(calls[k])
          BY <1>1, <3>1, <3>6, PlacesAre DEF IsPlace
        <5>2. \A i \in 1..m : n + i \in 1..(n + m)
          BY <1>1
        <5>3. \A k \in 1..n : k \in 1..(n + m)
          BY <1>1
        <5>. QED  BY <1>1, <1>4, <5>1, <5>2, <5>3
      <4>3. PICK k \in 1..(n + m) : x \in EventsOf(all[f[k]])
        BY <1>7, <4>2
      <4>4. ASSUME NEW q, IsPlace(q, x, open', loose', calls') PROVE q = <<"calls", k>>
        BY <3>2, <3>4, <4>1, <4>3, <4>4
      <4>5. IsPlace(<<"calls", k>>, x, open', loose', calls')
        BY <3>2, <4>3
      <4>. QED  BY <4>4, <4>5
    <3>. QED  BY <3>5, <3>6
  <2>. QED  BY <1>9, <2>1, PlacesNext
<1>. QED  BY <1>12, <1>13, <1>14, <1>15 DEF LanesInv
-----------------------------------------------------------------------------
\* At first no event is read.
LEMMA LanesInit == Init => LanesInv
<1> SUFFICES ASSUME Init PROVE LanesInv
  OBVIOUS
<1>1. /\ input = <<>> /\ open = <<>> /\ calls = <<>> /\ loose = <<>> /\ built = FALSE
      /\ Read = {}
  BY DEF Init, Read
<1>2. InputInv
  <2>1. input \in Seq(Read) /\ open \in Seq(Read) /\ loose \in Seq(Read)
        /\ calls \in Seq(Seq(Read))
    BY <1>1, EmptySeq
  <2>2. DOMAIN input = {} /\ DOMAIN open = {} /\ DOMAIN calls = {}
    BY <1>1
  <2>. QED  BY <1>1, <2>1, <2>2 DEF InputInv, TypeOK
<1>3. Paired = {} /\ Alone = {}
  BY <1>1 DEF Paired, Alone
<1>. QED  BY <1>1, <1>2, <1>3 DEF LanesInv, BlockInv, PlaceInv, FirstComeFirstServed

\* Every step keeps the invariant.
LEMMA LanesStep == LanesInv /\ [Next]_vars => LanesInv'
<1> SUFFICES ASSUME LanesInv, [Next]_vars PROVE LanesInv'
  OBVIOUS
<1>1. ASSUME NEW e \in Event(Len(input) + 1),
             input # <<>> => Last(input).at <= e.at,
             Reads(e),
             Opens(e) \/ Closes(e) \/ Orphan(e) \/ Loose(e)
      PROVE  LanesInv'
  <2>1. Arrives(e)
    BY <1>1 DEF Arrives
  <2>2. CASE Opens(e)
    BY <2>1, <2>2, OpensInv
  <2>3. CASE Closes(e)
    BY <2>1, <2>3, ClosesInv
  <2>4. CASE Orphan(e)
    BY <2>1, <2>4, OrphanInv
  <2>5. CASE Loose(e)
    BY <2>1, <2>5, LooseInv
  <2>. QED  BY <1>1, <2>2, <2>3, <2>4, <2>5
<1>2. CASE Build
  BY <1>2, BuildInv
<1>3. CASE UNCHANGED vars
  <2>1. /\ input' = input /\ open' = open /\ calls' = calls
        /\ loose' = loose /\ built' = built
    BY <1>3 DEF vars
  <2>2. Read' = Read
    BY <2>1 DEF Read
  <2>3. InputInv' /\ BlockInv'
    <3>1. InputInv /\ BlockInv
      BY DEF LanesInv
    <3>. QED  BY <2>1, <2>2, <3>1 DEF InputInv, TypeOK, BlockInv
  <2>4. PlaceInv'
    <3>1. \A e : Places(e)' = Places(e)
      BY <2>1 DEF Places, EventsOf
    <3>. QED  BY <2>2, <3>1 DEF LanesInv, PlaceInv
  <2>5. FirstComeFirstServed'
    <3>1. Paired' = Paired /\ Alone' = Alone
      BY <2>1 DEF Paired, Alone
    <3>2. \A e : Waiting(e)' = Waiting(e)
      BY <2>2, <3>1 DEF Waiting
    <3>. QED  BY <3>1, <3>2 DEF LanesInv, FirstComeFirstServed
  <2>. QED  BY <2>3, <2>4, <2>5 DEF LanesInv
<1>. QED  BY <1>1, <1>2, <1>3 DEF Next

\* The invariant holds of every session.
THEOREM LanesInvariance == Spec => []LanesInv
<1>. QED  BY LanesInit, LanesStep, PTL DEF Spec

\* The types of pairToolCalls: blocks of one event or of a call and its answer.
THEOREM TypeCorrect == Spec => []TypeOK
<1>1. LanesInv => TypeOK
  BY DEF LanesInv, InputInv
<1>. QED  BY <1>1, LanesInvariance, PTL

\* No event is lost or taken twice, by a call, an answer or the end of the loop.
THEOREM NoEventLost == Spec => []OnePlaceEach
<1>1. LanesInv => OnePlaceEach
  BY PlacesCounted DEF LanesInv
<1>. QED  BY <1>1, LanesInvariance, PTL

\* An answer goes to the oldest call that waits for it.
THEOREM OldestCallFirst == Spec => []FirstComeFirstServed
<1>1. LanesInv => FirstComeFirstServed
  BY DEF LanesInv
<1>. QED  BY <1>1, LanesInvariance, PTL

\* A session shown as completed has an answer to each of its calls.
LEMMA AnsweredInv == LanesInv => CompletedIsAnswered
<1> SUFFICES ASSUME LanesInv, built, Status = "completed",
                    NEW c \in Read, c.type \in OpenTypes
             PROVE  \E e \in Read : e.n > c.n /\ e.type = Answer[c.type] /\ e.tool = c.tool
                                    /\ e.at - c.at \in 0..Window
  BY DEF CompletedIsAnswered
<1>1. /\ \A e \in Read : e.type # "error"
      /\ \A i \in DOMAIN calls : Len(calls[i]) = 1 => Head(calls[i]).type \notin OpenTypes
  BY DEF Status
<1>2. PICK k \in DOMAIN calls : c \in EventsOf(calls[k])
  <2>1. PICK p : p \in Places(c)
    BY DEF LanesInv, PlaceInv
  <2>2. open = <<>> /\ \A i \in DOMAIN loose : loose[i] # c
    BY DEF LanesInv, BlockInv
  <2>. QED  BY <2>1, <2>2, PlacesAre DEF IsPlace
<1>3. Len(calls[k]) = 2 /\ c = calls[k][1] /\ calls[k][2] \in Read
  <2>1. Len(calls[k]) # 1
    <3>1. Len(calls[k]) = 1 => c = calls[k][1] /\ calls[k] \in Seq(Read)
      BY <1>2, Blocks DEF LanesInv
    <3>2. Len(calls[k]) = 1 => Head(calls[k]) = c
      BY <3>1
    <3>. QED  BY <1>1, <3>2
  <2>2. c.type \notin CloseTypes
    BY TypesDiffer
  <2>. QED  BY <1>2, <2>1, <2>2, Blocks DEF LanesInv, BlockInv
<1>4. c \in Waiting(calls[k][2])
  <2>1. calls[k] \in Paired
    BY <1>3 DEF Paired
  <2>. QED  BY <1>3, <2>1 DEF LanesInv, FirstComeFirstServed
<1>5. calls[k][2].n > c.n
  <2>1. calls[k][2].n \in Int /\ c.n \in Int
    BY <1>3, ReadNumbers DEF LanesInv
  <2>. QED  BY <1>4, <2>1 DEF Waiting
<1>. QED  BY <1>1, <1>3, <1>4, <1>5 DEF Waiting

\* A completed session was answered within the window (sessionStatus).
THEOREM CompletedWasAnswered == Spec => []CompletedIsAnswered
<1>. QED  BY AnsweredInv, LanesInvariance, PTL

\* Every event is shown, in a task or beside it.
LEMMA ShownInv == LanesInv => NothingHidden
<1> SUFFICES ASSUME LanesInv, built, NEW e \in Read,
                    ~\E i \in DOMAIN loose : loose[i] = e
             PROVE  \E i \in Direct \cup Tasks \cup UNION {Children(t) : t \in Tasks} :
                      e \in EventsOf(calls[i])
  BY DEF NothingHidden
<1>1. PICK p : p \in Places(e)
  BY DEF LanesInv, PlaceInv
<1>2. open = <<>>
  BY DEF LanesInv, BlockInv
<1>3. PICK k \in DOMAIN calls : e \in EventsOf(calls[k])
  BY <1>1, <1>2, PlacesAre DEF IsPlace
<1>4. k \in Direct \cup Tasks \cup UNION {Children(t) : t \in Tasks}
  BY DEF Direct
<1>. QED  BY <1>3, <1>4

\* No event is left out between the tasks and the direct calls (buildLanes).
THEOREM EveryEventShown == Spec => []NothingHidden
<1>. QED  BY ShownInv, LanesInvariance, PTL
=============================================================================
