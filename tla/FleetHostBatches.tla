-------------------------- MODULE FleetHostBatches --------------------------
(***************************************************************************)
(* Proof about FleetHost: batches are stored and published whole, for any  *)
(* posts, bodies, interleavings of handlers, failures and restarts.        *)
(***************************************************************************)
EXTENDS FleetHostProofs

\* BatchesAreWhole of one post: in the database, and on the backplane of n.
Stored(p) == {row \in db : row.post = p}
Places(p, n) == {i \in DOMAIN log[n] : log[n][i].post = p}

StoredWhole(p) ==
  /\ Stored(p) \in {{}, ToSet(RowsOf(p))}
  /\ Stored(p) # {} => FALSE \notin ToSet(post[p].body)
  /\ post[p].at \in {"committed", "done"} => Stored(p) # {}
  /\ post[p].at \notin {"committed", "done", "failed"} => Stored(p) = {}

Published(p, n) == post[p].at = "done" /\ n = post[p].store

PlacedWhole(p, n) ==
  IF Published(p, n)
  THEN \E i \in Places(p, n) :
         /\ Places(p, n) = i..(i + Len(RowsOf(p)) - 1)
         /\ SubSeq(log[n], i, i + Len(RowsOf(p)) - 1) = RowsOf(p)
  ELSE Places(p, n) = {}

\* Where it is checked, a body has events, and all of them are valid.
Checked(p) ==
  /\ post[p].at \in {"resolved", "writing", "committed"} => post[p].body # <<>>
  /\ post[p].at \in {"writing", "committed"} => Valid(p)

WholeInv ==
  \A p \in Posts :
    Checked(p) /\ StoredWhole(p) /\ \A n \in Incarnations : PlacedWhole(p, n)

BatchInv == HInv /\ WholeInv

\* It says what BatchesAreWhole does.
LEMMA WholeBatches == WholeInv => BatchesAreWhole
BY DEF WholeInv, StoredWhole, Stored, PlacedWhole, Published, Places,
   BatchesAreWhole

LEMMA WholeInit ==
  ASSUME Init
  PROVE  WholeInv
<1>1. ASSUME NEW p \in Posts
      PROVE  Checked(p) /\ StoredWhole(p)
  BY <1>1 DEF Init, NewPost, Checked, StoredWhole, Stored
<1>2. ASSUME NEW p \in Posts, NEW n \in Incarnations
      PROVE  PlacedWhole(p, n)
  BY <1>2 DEF Init, NewPost, PlacedWhole, Published, Places
<1>. QED  BY <1>1, <1>2 DEF WholeInv

\* A body is a sequence, and its rows are as many.
LEMMA BodyType ==
  ASSUME TypeOK, NEW p \in Posts
  PROVE  /\ post[p].body \in Seq(BOOLEAN)
         /\ Len(post[p].body) \in Nat /\ DOMAIN post[p].body = 1..Len(post[p].body)
         /\ post[p].body # <<>> => Len(post[p].body) > 0
<1>1. post[p].body \in Seq(BOOLEAN)
  <2>1. post[p].body \in Bodies \cup {<<>>}
    BY DEF TypeOK, Handler
  <2>2. <<>> \in Seq(BOOLEAN)
    OBVIOUS
  <2>. QED  BY <2>1, <2>2, BoundsAssumption
<1>. QED  BY <1>1, LenProperties, EmptySeq

\* A post that is not touched stays whole where its rows are not.
LEMMA Untouched ==
  ASSUME NEW p \in Posts, WholeInv, post'[p] = post[p]
  PROVE  /\ Checked(p)'
         /\ Stored(p)' = Stored(p) => StoredWhole(p)'
         /\ \A n \in Incarnations : log'[n] = log[n] => PlacedWhole(p, n)'
<1>1. RowsOf(p)' = RowsOf(p)
  BY DEF RowsOf
<1>2. Checked(p)'
  BY DEF WholeInv, Checked, Valid
<1>3. Stored(p)' = Stored(p) => StoredWhole(p)'
  BY <1>1 DEF WholeInv, StoredWhole
<1>4. ASSUME NEW n \in Incarnations, log'[n] = log[n]
      PROVE  PlacedWhole(p, n)'
  <2>1. Places(p, n)' = Places(p, n) /\ Published(p, n)' = Published(p, n)
    BY <1>4 DEF Places, Published
  <2>2. PlacedWhole(p, n)
    BY DEF WholeInv
  <2>. QED  BY <1>1, <1>4, <2>1, <2>2 DEF PlacedWhole
<1>. QED  BY <1>2, <1>3, <1>4

\* A step that neither commits nor publishes.
LEMMA Quiet ==
  ASSUME WholeInv, NEW p \in Posts, UNCHANGED <<db, log>>,
         \A q \in Posts \ {p} : post'[q] = post[q],
         post'[p].at \notin {"committed", "done"},
         \/ post[p].at \notin {"committed", "done", "failed"}
         \/ /\ post[p].at # "done" /\ post'[p].at = "failed"
            /\ post'[p].body = post[p].body /\ post'[p].tenant = post[p].tenant,
         Checked(p)'
  PROVE  WholeInv'
<1>1. ASSUME NEW q \in Posts \ {p}
      PROVE  /\ Checked(q)' /\ StoredWhole(q)'
             /\ \A n \in Incarnations : PlacedWhole(q, n)'
  BY <1>1, Untouched DEF Stored
<1>2. StoredWhole(p)'
  <2>1. Stored(p)' = Stored(p)
    BY DEF Stored
  <2>2. CASE post[p].at \notin {"committed", "done", "failed"}
    BY <2>1, <2>2 DEF WholeInv, StoredWhole
  <2>3. CASE /\ post[p].at # "done" /\ post'[p].at = "failed"
             /\ post'[p].body = post[p].body /\ post'[p].tenant = post[p].tenant
    <3>1. RowsOf(p)' = RowsOf(p)
      BY <2>3 DEF RowsOf
    <3>. QED  BY <2>1, <2>3, <3>1 DEF WholeInv, StoredWhole
  <2>. QED  BY <2>2, <2>3
<1>3. ASSUME NEW n \in Incarnations PROVE PlacedWhole(p, n)'
  BY <1>3 DEF WholeInv, PlacedWhole, Published, Places
<1>. QED  BY <1>1, <1>2, <1>3 DEF WholeInv

\* The rows of a post are of that post.
LEMMA RowsOfPost ==
  ASSUME NEW p \in Posts
  PROVE  /\ DOMAIN RowsOf(p) = DOMAIN post[p].body
         /\ \A i \in DOMAIN RowsOf(p) : RowsOf(p)[i].post = p
         /\ \A row \in ToSet(RowsOf(p)) : row.post = p
<1>1. DOMAIN RowsOf(p) = DOMAIN post[p].body
  BY DEF RowsOf
<1>2. ASSUME NEW i \in DOMAIN RowsOf(p) PROVE RowsOf(p)[i].post = p
  BY <1>1 DEF RowsOf
<1>. QED  BY <1>1, <1>2 DEF ToSet

\* The commit adds the rows of its own batch, all of them valid.
LEMMA Commits ==
  ASSUME BatchInv, NEW p \in Posts, PostCommits(p)
  PROVE  WholeInv'
<1>1. /\ post[p] \in Handler /\ post \in [Posts -> Handler]
      /\ post[p].at = "writing" /\ log' = log
      /\ post'[p] = [post[p] EXCEPT !.at = "committed"]
      /\ db' = db \cup ToSet(RowsOf(p))
      /\ \A q \in Posts \ {p} : post'[q] = post[q]
  BY DEF BatchInv, HInv, TypeOK, PostCommits
<1>2. /\ post'[p].at = "committed" /\ post'[p].body = post[p].body
      /\ RowsOf(p)' = RowsOf(p)
  BY <1>1 DEF Handler, RowsOf
<1>3. \A row \in ToSet(RowsOf(p)) : row.post = p
  BY RowsOfPost
<1>4. ASSUME NEW q \in Posts \ {p}
      PROVE  /\ Checked(q)' /\ StoredWhole(q)'
             /\ \A n \in Incarnations : PlacedWhole(q, n)'
  <2>1. Stored(q)' = Stored(q)
    BY <1>1, <1>3 DEF Stored
  <2>. QED  BY <1>1, <2>1, Untouched DEF BatchInv
<1>5. Stored(p)' = ToSet(RowsOf(p))
  <2>1. Stored(p) = {}
    BY <1>1 DEF BatchInv, WholeInv, StoredWhole
  <2>. QED  BY <1>1, <1>3, <2>1 DEF Stored
<1>6. ToSet(RowsOf(p)) # {}
  <2>1. 1 \in DOMAIN post[p].body
    BY <1>1, BodyType DEF BatchInv, HInv, WholeInv, Checked
  <2>. QED  BY <2>1 DEF ToSet, RowsOf
<1>7. FALSE \notin ToSet(post[p].body)
  BY <1>1 DEF BatchInv, WholeInv, Checked, Valid, ToSet
<1>8. Checked(p)' /\ StoredWhole(p)'
  <2>1. Checked(p)'
    BY <1>1, <1>2 DEF BatchInv, WholeInv, Checked, Valid
  <2>2. StoredWhole(p)'
    BY <1>2, <1>5, <1>6, <1>7 DEF StoredWhole
  <2>. QED  BY <2>1, <2>2
<1>9. ASSUME NEW n \in Incarnations PROVE PlacedWhole(p, n)'
  BY <1>1, <1>2, <1>9 DEF BatchInv, WholeInv, PlacedWhole, Published, Places
<1>. QED  BY <1>4, <1>8, <1>9 DEF WholeInv

\* The rows of p at the end of a log: where they stand, and that the segments
\* that were there are still there.
LEMMA Segments ==
  ASSUME NEW S, NEW s \in Seq(S), NEW t \in Seq(S)
  PROVE  /\ Len(s \o t) = Len(s) + Len(t) /\ Len(s) \in Nat /\ Len(t) \in Nat
         /\ DOMAIN (s \o t) = 1..(Len(s) + Len(t)) /\ DOMAIN s = 1..Len(s)
         /\ \A i \in 1..Len(s) : (s \o t)[i] = s[i]
         /\ \A i \in (Len(s) + 1)..(Len(s) + Len(t)) :
              (s \o t)[i] = t[i - Len(s)] /\ i - Len(s) \in 1..Len(t)
         /\ SubSeq(s \o t, Len(s) + 1, Len(s) + Len(t)) = t
         /\ \A i, j \in 1..Len(s) : SubSeq(s \o t, i, j) = SubSeq(s, i, j)
<1> DEFINE u == s \o t
<1>1. /\ u \in Seq(S) /\ Len(u) = Len(s) + Len(t)
      /\ \A i \in 1..(Len(s) + Len(t)) :
           u[i] = IF i <= Len(s) THEN s[i] ELSE t[i - Len(s)]
  BY ConcatProperties
<1>2. Len(s) \in Nat /\ Len(t) \in Nat /\ DOMAIN s = 1..Len(s)
      /\ DOMAIN u = 1..Len(u)
  BY <1>1, LenProperties
<1> HIDE DEF u
<1>3. \A i \in 1..Len(s) : u[i] = s[i]
  BY <1>1, <1>2
<1>4. \A i \in (Len(s) + 1)..(Len(s) + Len(t)) :
        u[i] = t[i - Len(s)] /\ i - Len(s) \in 1..Len(t)
  BY <1>1, <1>2
<1>5. SubSeq(u, Len(s) + 1, Len(s) + Len(t)) = t
  <2> DEFINE v == SubSeq(u, Len(s) + 1, Len(s) + Len(t))
  <2>1. \A i \in (Len(s) + 1)..(Len(s) + Len(t)) : u[i] \in S
    BY <1>1, <1>2, ElementOfSeq
  <2>2. /\ v \in Seq(S)
        /\ Len(v) = IF Len(s) + 1 <= Len(s) + Len(t)
                    THEN Len(s) + Len(t) - (Len(s) + 1) + 1 ELSE 0
        /\ \A i \in 1..(Len(s) + Len(t) - (Len(s) + 1) + 1) :
             v[i] = u[Len(s) + 1 + i - 1]
    BY <1>2, <2>1, SubSeqProperties
  <2> HIDE DEF v
  <2>3. Len(v) = Len(t)
    BY <1>2, <2>2
  <2>4. ASSUME NEW i \in 1..Len(v) PROVE v[i] = t[i]
    <3>1. /\ i \in 1..(Len(s) + Len(t) - (Len(s) + 1) + 1)
          /\ Len(s) + 1 + i - 1 = Len(s) + i
          /\ Len(s) + i \in (Len(s) + 1)..(Len(s) + Len(t))
          /\ Len(s) + i - Len(s) = i
      BY <1>2, <2>3, <2>4
    <3>. QED  BY <1>4, <2>2, <3>1
  <2>5. v = t
    BY <2>2, <2>3, <2>4, SeqEqual
  <2>. QED  BY <2>5 DEF v
<1>6. ASSUME NEW i \in 1..Len(s), NEW j \in 1..Len(s)
      PROVE  SubSeq(u, i, j) = SubSeq(s, i, j)
  <2>1. /\ i \in Int /\ j \in Int
        /\ \A k \in i..j : k \in 1..Len(s) /\ u[k] = s[k] /\ s[k] \in S
    BY <1>2, <1>3, ElementOfSeq
  <2>2. /\ SubSeq(u, i, j) \in Seq(S) /\ SubSeq(s, i, j) \in Seq(S)
        /\ Len(SubSeq(u, i, j)) = Len(SubSeq(s, i, j))
        /\ Len(SubSeq(s, i, j)) = IF i <= j THEN j - i + 1 ELSE 0
        /\ \A k \in 1..(j - i + 1) : SubSeq(u, i, j)[k] = u[i + k - 1]
                                  /\ SubSeq(s, i, j)[k] = s[i + k - 1]
    BY <2>1, SubSeqProperties
  <2>3. ASSUME NEW k \in 1..Len(SubSeq(u, i, j))
        PROVE  SubSeq(u, i, j)[k] = SubSeq(s, i, j)[k]
    <3>1. k \in 1..(j - i + 1) /\ i + k - 1 \in i..j
      BY <2>1, <2>2, <2>3
    <3>. QED  BY <2>1, <2>2, <3>1
  <2>. QED  BY <2>2, <2>3, SeqEqual
<1>. QED  BY <1>1, <1>2, <1>3, <1>4, <1>5, <1>6 DEF u

\* Publishing appends its batch to one log, and touches no other batch.
LEMMA Publishes ==
  ASSUME BatchInv, NEW p \in Posts, PostPublishes(p)
  PROVE  WholeInv'
<1>0. post[p].store \in Incarnations
  BY BoundsAssumption DEF BatchInv, HInv, TypeOK, PostInv, PostPublishes,
     Handler, None, Incarnations
<1> SUFFICES ASSUME NEW m \in Incarnations, m = post[p].store
             PROVE  WholeInv'
  BY <1>0
<1> DEFINE old == log[m]
           rows == RowsOf(p)
<1>1. /\ post[p] \in Handler /\ post[p].at = "committed" /\ db' = db
      /\ post' = [post EXCEPT ![p] = [post[p] EXCEPT !.at = "done"]]
      /\ post \in [Posts -> Handler]
      /\ post[p].tenant \in Tenants
      /\ log \in [Incarnations -> Seq(Row)]
      /\ log' = [log EXCEPT ![m] = old \o rows]
  BY DEF BatchInv, HInv, TypeOK, PostInv, PostPublishes
<1>2. /\ post'[p].at = "done" /\ post'[p].body = post[p].body
      /\ post'[p].store = m /\ RowsOf(p)' = rows
      /\ \A q \in Posts \ {p} : post'[q] = post[q]
  BY <1>1 DEF Handler, RowsOf
<1>3. /\ rows \in Seq(Row) /\ old \in Seq(Row) /\ Len(rows) \in Nat /\ Len(rows) > 0
      /\ DOMAIN rows = 1..Len(rows)
  BY <1>1, RowsType, BodyType DEF BatchInv, HInv, WholeInv, Checked
<1>4. /\ Len(old) \in Nat /\ DOMAIN old = 1..Len(old)
      /\ DOMAIN (log'[m]) = 1..(Len(old) + Len(rows))
      /\ \A i \in 1..Len(old) : log'[m][i] = old[i]
      /\ \A i \in (Len(old) + 1)..(Len(old) + Len(rows)) : log'[m][i].post = p
      /\ SubSeq(log'[m], Len(old) + 1, Len(old) + Len(rows)) = rows
      /\ \A i, j \in 1..Len(old) : SubSeq(log'[m], i, j) = SubSeq(old, i, j)
  <2>1. log'[m] = old \o rows
    BY <1>1
  <2>2. \A i \in 1..Len(rows) : rows[i].post = p
    BY <1>3, RowsOfPost
  <2> HIDE DEF old, rows
  <2>. QED  BY <1>3, <2>1, <2>2, Segments
<1>5. \A n \in Incarnations \ {m} : log'[n] = log[n]
  BY <1>1
<1>6. ASSUME NEW q \in Posts \ {p}
      PROVE  /\ Checked(q)' /\ StoredWhole(q)'
             /\ \A n \in Incarnations : PlacedWhole(q, n)'
  <2>1. Checked(q)' /\ StoredWhole(q)'
    BY <1>1, <1>2, Untouched DEF BatchInv, Stored
  <2>2. ASSUME NEW n \in Incarnations \ {m} PROVE PlacedWhole(q, n)'
    BY <1>2, <1>5, Untouched DEF BatchInv
  <2>3. Places(q, m)' = Places(q, m)
    <3> DEFINE now == log'[m]
    <3>1. /\ DOMAIN now = 1..(Len(old) + Len(rows)) /\ DOMAIN old = 1..Len(old)
          /\ \A i \in 1..Len(old) : now[i] = old[i]
          /\ \A i \in (Len(old) + 1)..(Len(old) + Len(rows)) : now[i].post # q
      BY <1>4
    <3> HIDE DEF now, rows
    <3>2. {i \in DOMAIN now : now[i].post = q} = {i \in DOMAIN old : old[i].post = q}
      <4> HIDE DEF old
      <4>. QED  BY <1>3, <1>4, <3>1
    <3>. QED  BY <3>2 DEF Places, now
  <2>4. /\ RowsOf(q)' = RowsOf(q) /\ (Published(q, m)' <=> Published(q, m))
        /\ PlacedWhole(q, m)
    BY <1>1, <1>2 DEF RowsOf, Published, BatchInv, WholeInv
  <2>5. PlacedWhole(q, m)'
    <3>1. CASE ~Published(q, m)
      BY <2>3, <2>4, <3>1 DEF PlacedWhole
    <3>2. CASE Published(q, m)
      <4>1. PICK i \in Places(q, m) :
              /\ Places(q, m) = i..(i + Len(RowsOf(q)) - 1)
              /\ SubSeq(old, i, i + Len(RowsOf(q)) - 1) = RowsOf(q)
        BY <2>4, <3>2 DEF PlacedWhole
      <4>2. Places(q, m) \subseteq 1..Len(old)
        BY <1>4 DEF Places
      <4>3. Len(RowsOf(q)) \in Nat
        BY BodyType DEF BatchInv, HInv, RowsOf
      <4>4. i \in 1..Len(old) /\ i + Len(RowsOf(q)) - 1 \in 1..Len(old)
        BY <1>4, <4>1, <4>2, <4>3
      <4>5. SubSeq(log'[m], i, i + Len(RowsOf(q)) - 1) = RowsOf(q)
        BY <1>4, <4>1, <4>4
      <4>. QED  BY <2>3, <2>4, <3>2, <4>1, <4>5 DEF PlacedWhole
    <3>. QED  BY <3>1, <3>2
  <2>. QED  BY <2>1, <2>2, <2>5
<1>7. Checked(p)' /\ StoredWhole(p)'
  BY <1>1, <1>2 DEF BatchInv, WholeInv, Checked, StoredWhole, Stored
<1>8. \A n \in Incarnations : Places(p, n) = {}
  BY <1>1 DEF BatchInv, WholeInv, PlacedWhole, Published
<1>9. ASSUME NEW n \in Incarnations \ {m} PROVE PlacedWhole(p, n)'
  BY <1>2, <1>5, <1>8 DEF PlacedWhole, Published, Places
<1>10. PlacedWhole(p, m)'
  <2>1. Places(p, m)' = (Len(old) + 1)..(Len(old) + Len(rows))
    <3>1. \A i \in 1..Len(old) : old[i].post # p
      BY <1>1, <1>4, <1>8 DEF Places
    <3> DEFINE now == log'[m]
    <3>2. /\ DOMAIN now = 1..(Len(old) + Len(rows)) /\ DOMAIN old = 1..Len(old)
          /\ \A i \in 1..Len(old) : now[i].post # p
          /\ \A i \in (Len(old) + 1)..(Len(old) + Len(rows)) : now[i].post = p
      BY <1>4, <3>1
    <3> HIDE DEF now, rows
    <3>3. {i \in DOMAIN now : now[i].post = p}
            = (Len(old) + 1)..(Len(old) + Len(rows))
      <4> HIDE DEF old
      <4>. QED  BY <1>3, <1>4, <3>2
    <3>. QED  BY <3>3 DEF Places, now
  <2>2. Published(p, m)'
    BY <1>2 DEF Published
  <2>3. /\ Len(old) + 1 \in Places(p, m)'
        /\ Len(old) + 1 + Len(rows) - 1 = Len(old) + Len(rows)
    BY <1>3, <1>4, <2>1
  <2>. QED  BY <1>2, <1>4, <2>1, <2>2, <2>3 DEF PlacedWhole
<1>. QED  BY <1>6, <1>7, <1>9, <1>10 DEF WholeInv

\* A step of a POST handler keeps every batch whole.
LEMMA PostWhole ==
  ASSUME BatchInv, NEW p \in Posts,
         \/ \E body \in Bodies : PostArrives(p, body)
         \/ PostUnavailable(p) \/ PostResolves(p) \/ PostRefused(p)
         \/ PostWrites(p) \/ PostCommits(p) \/ PostPublishes(p) \/ PostFails(p)
  PROVE  WholeInv'
<1>0. /\ post \in [Posts -> Handler] /\ post[p] \in Handler
      /\ WholeInv /\ Checked(p)
  BY DEF BatchInv, HInv, TypeOK, WholeInv
<1>1. ASSUME NEW h \in Handler, post' = [post EXCEPT ![p] = h],
             UNCHANGED <<db, log>>, h.at \notin {"committed", "done"},
             \/ post[p].at \notin {"committed", "done", "failed"}
             \/ /\ post[p].at # "done" /\ h.at = "failed"
                /\ h.body = post[p].body /\ h.tenant = post[p].tenant,
             h.at = "resolved" => h.body # <<>>,
             h.at = "writing" =>
               h.body # <<>> /\ \A i \in DOMAIN h.body : h.body[i]
      PROVE  WholeInv'
  <2>1. post'[p] = h /\ \A q \in Posts \ {p} : post'[q] = post[q]
    BY <1>0, <1>1
  <2>2. Checked(p)'
    BY <1>1, <2>1 DEF Checked, Valid
  <2>. QED  BY <1>0, <1>1, <2>1, <2>2, Quiet
<1>2. ASSUME NEW body \in Bodies, PostArrives(p, body) PROVE WholeInv'
  <2> DEFINE h == [NewPost EXCEPT !.at = "reading", !.store = store,
                                  !.body = body]
  <2>1. h \in Handler /\ h.at = "reading"
    BY DEF NewPost, BatchInv, HInv, TypeOK, Handler
  <2>2. /\ post' = [post EXCEPT ![p] = h] /\ UNCHANGED <<db, log>>
        /\ post[p].at = "new"
    BY <1>2 DEF PostArrives
  <2> HIDE DEF h
  <2>. QED  BY <1>1, <2>1, <2>2
<1>3. ASSUME NEW at \in {"refused", "writing", "failed"},
             post' = [post EXCEPT ![p].at = at], UNCHANGED <<db, log>>,
             \/ post[p].at \in {"new", "reading", "resolved", "writing"}
             \/ post[p].at = "committed" /\ at = "failed",
             at = "writing" => post[p].body # <<>> /\ Valid(p)
      PROVE  WholeInv'
  <2> DEFINE h == [post[p] EXCEPT !.at = at]
  <2>1. /\ h \in Handler /\ h.at = at /\ h.body = post[p].body
        /\ h.tenant = post[p].tenant
    BY <1>0 DEF Handler
  <2>2. post' = [post EXCEPT ![p] = h]
    BY <1>3
  <2> HIDE DEF h
  <2>. QED  BY <1>1, <1>3, <2>1, <2>2 DEF Valid
<1>4. CASE PostUnavailable(p) \/ PostRefused(p) \/ PostFails(p)
  BY <1>3, <1>4 DEF PostUnavailable, PostRefused, PostFails
<1>5. CASE PostWrites(p)
  BY <1>0, <1>3, <1>5 DEF PostWrites, Checked
<1>6. CASE PostResolves(p)
  <2> DEFINE h == [post[p] EXCEPT !.at = "resolved", !.tenant = ResolvedTenant(p)]
  <2>1. ResolvedTenant(p) \in Tenants \cup {NoTenant}
    BY CallerAssumption DEF ResolvedTenant
  <2>2. h \in Handler /\ h.at = "resolved" /\ h.body = post[p].body
    BY <1>0, <2>1 DEF Handler
  <2>3. /\ post' = [post EXCEPT ![p] = h] /\ UNCHANGED <<db, log>>
        /\ post[p].at = "reading" /\ post[p].body # <<>>
    BY <1>0, <1>6 DEF PostResolves
  <2> HIDE DEF h
  <2>. QED  BY <1>1, <2>2, <2>3
<1>. QED  BY <1>2, <1>4, <1>5, <1>6, Commits, Publishes

LEMMA WholeStep == BatchInv /\ [Next]_vars => WholeInv'
<1> SUFFICES ASSUME BatchInv, [Next]_vars PROVE WholeInv'
  OBVIOUS
<1>1. ASSUME UNCHANGED <<post, db, log>> PROVE WholeInv'
  <2>1. WholeInv
    BY DEF BatchInv
  <2>. QED  BY <1>1, <2>1, Untouched DEF WholeInv, Stored
<1>2. CASE \E p \in Posts :
             \/ \E body \in Bodies : PostArrives(p, body)
             \/ PostUnavailable(p) \/ PostResolves(p) \/ PostRefused(p)
             \/ PostWrites(p) \/ PostCommits(p) \/ PostPublishes(p) \/ PostFails(p)
  BY <1>2, PostWhole
<1>. QED  BY <1>1, <1>2 DEF Next, vars, StartBegins, StartRefused, StartEnds,
       HookFails, StopBegins, StopEnds, StopIdle, Hook, StreamAsked,
       StreamSubscribes, StreamDelivers, StreamEnds, StreamBreaks, Stream

\* A batch is stored whole or not at all, and never when one of its events is
\* invalid; it is published once, together and in order (ingest,
\* store.py:185-199), whatever the other handlers and the host do.
THEOREM BatchesStayWhole == Spec => []BatchesAreWhole
<1>1. Init => BatchInv
  BY InvInit, WholeInit DEF BatchInv
<1>2. BatchInv /\ [Next]_vars => BatchInv'
  BY InvStep, WholeStep DEF BatchInv
<1>3. BatchInv => BatchesAreWhole
  BY WholeBatches DEF BatchInv
<1>. QED  BY <1>1, <1>2, <1>3, PTL DEF Spec
=============================================================================
