--------------------------- MODULE FleetHostProofs ---------------------------
(***************************************************************************)
(* Proofs about FleetHost: for any posts, clients, tenants and bodies, any *)
(* ring size and any number of restarts, typing and the safety of its      *)
(* streams.                                                                *)
(***************************************************************************)
EXTENDS FleetHost, SequenceTheorems, TLAPS

\* Frame f is not newer than position k of incarnation n.
NotAfter(f, n, k) == f[1] < n \/ (f[1] = n /\ f[2] <= k)

\* While there is a store its resolver is the configured one, and a stop in
\* progress has stopped its backplane.
HostInv ==
  /\ store # None \/ life = "starting" => resolver = Configured
  /\ life = "stopping" => store \in stopped
  /\ \A n \in Incarnations : horizon[n] <= Len(log[n])

\* A handler at work has a store, then a tenant, then its rows in the database.
PostInv ==
  \A p \in Posts :
    /\ post[p].at \in {"reading", "resolved", "writing", "committed"} =>
         post[p].store # None
    /\ post[p].at \in {"resolved", "writing", "committed"} =>
         post[p].tenant \in Tenants
    /\ post[p].at = "committed" => ToSet(RowsOf(p)) \subseteq db

\* A connection is its caller's; its incarnation is the host's newest, unless
\* that was stopped or replaced; it stands within the log, and nothing its
\* client received is ahead of it.
ConnInv(c) ==
  conn[c].at # "away" =>
    /\ conn[c].store # None
    /\ conn[c].tenant = OwnTenant(c)
    /\ conn[c].store # store => conn[c].store \in stopped \cup replaced
    /\ store # None => conn[c].store <= store
    /\ conn[c].at = "asked" =>
         /\ conn[c].last = LastSeen(c)
         /\ \A i \in DOMAIN got[c] :
              NotAfter(got[c][i], conn[c].store, conn[c].last)
    /\ conn[c].at # "asked" =>
         /\ conn[c].from <= conn[c].cursor
         /\ conn[c].cursor <= Len(log[conn[c].store])
         /\ \A i \in DOMAIN got[c] :
              NotAfter(got[c][i], conn[c].store, conn[c].cursor)
    /\ conn[c].at = "closing" => conn[c].limit <= Len(log[conn[c].store])

\* What a client received is published, its own, of no incarnation newer than
\* the store, and never newer than what it received last.
GotInv(c) ==
  \A i \in DOMAIN got[c] :
    /\ got[c][i][1] <= opened
    /\ store # None => got[c][i][1] <= store
    /\ got[c][i][2] <= Len(log[got[c][i][1]])
    /\ log[got[c][i][1]][got[c][i][2]].tenant = OwnTenant(c)
    /\ NotAfter(got[c][i], Last(got[c])[1], Last(got[c])[2])

\* StreamsAreComplete, NeverTwice and StopReachesRegistered of one client.
Complete(c) ==
  conn[c].at \in {"open", "closing"} =>
    {f \in ToSet(got[c]) : f[1] = conn[c].store /\ f[2] > conn[c].from}
      = {<<conn[c].store, i>> :
           i \in {k \in (conn[c].from + 1)..conn[c].cursor :
                    log[conn[c].store][k].tenant = conn[c].tenant}}

Ordered(c) ==
  \A i \in 1..(Len(got[c]) - 1) :
    \/ got[c][i][1] < got[c][i + 1][1]
    \/ got[c][i][1] = got[c][i + 1][1] /\ got[c][i][2] < got[c][i + 1][2]

Reached(c) ==
  conn[c].at = "open" /\ conn[c].store \in stopped => conn[c].late

ClientInv(c) ==
  ConnInv(c) /\ GotInv(c) /\ Complete(c) /\ Ordered(c) /\ Reached(c)

HInv ==
  /\ TypeOK
  /\ HostInv
  /\ PostInv
  /\ LiveIsDurable
  /\ \A c \in Clients : ClientInv(c)

(***************************************************************************)
(* Typing.                                                                 *)
(***************************************************************************)

\* The rows of a batch whose tenant is known are rows.
LEMMA RowsType ==
  ASSUME TypeOK, NEW p \in Posts, post[p].tenant \in Tenants
  PROVE  /\ RowsOf(p) \in Seq(Row)
         /\ Len(RowsOf(p)) = Len(post[p].body)
         /\ DOMAIN RowsOf(p) = 1..Len(post[p].body)
<1>1. post[p].body \in Seq(BOOLEAN)
  <2>1. post[p].body \in Bodies \cup {<<>>}
    BY DEF TypeOK, Handler
  <2>2. <<>> \in Seq(BOOLEAN)
    OBVIOUS
  <2>. QED  BY <2>1, <2>2, BoundsAssumption
<1>2. Len(post[p].body) \in Nat /\ DOMAIN post[p].body = 1..Len(post[p].body)
  BY <1>1, LenProperties
<1>3. RowsOf(p) \in [1..Len(post[p].body) -> Row]
  BY <1>2 DEF RowsOf, Row
<1>. QED  BY <1>2, <1>3 DEF RowsOf

\* A handler that moves on is a handler.
LEMMA HandlerMoves ==
  ASSUME TypeOK, NEW p \in Posts,
         NEW at \in {"new", "reading", "resolved", "writing", "committed",
                     "done", "refused", "failed"},
         post' = [post EXCEPT ![p].at = at], opened' = opened
  PROVE  post' \in [Posts -> Handler]'
<1>1. post[p] \in Handler /\ post' = [post EXCEPT ![p] = [post[p] EXCEPT !.at = at]]
  BY DEF TypeOK
<1>2. [post[p] EXCEPT !.at = at] \in Handler
  BY <1>1 DEF Handler
<1>3. Handler' = Handler
  BY DEF Handler
<1>. QED  BY <1>1, <1>2, <1>3 DEF TypeOK

\* The host starts well typed.
LEMMA TypeInit ==
  ASSUME Init
  PROVE  TypeOK
<1>1. post \in [Posts -> Handler]
  BY DEF Init, NewPost, None, Handler
<1>2. conn \in [Clients -> Connection]
  BY DEF Init, Away, None, Connection
<1>3. /\ log \in [Incarnations -> Seq(Row)] /\ horizon \in [Incarnations -> Nat]
      /\ got \in [Clients -> Seq(Incarnations \X (Nat \ {0}))]
  BY DEF Init
<1>4. /\ life \in {"idle", "starting", "stopping"} /\ opened \in 0..MaxStarts
      /\ store \in 0..opened /\ db \subseteq Row
      /\ stopped \subseteq 1..opened /\ replaced \subseteq 1..opened
  BY BoundsAssumption DEF Init, None
<1>5. resolver \in BOOLEAN
  BY Zenon DEF Init
<1>. QED  BY <1>1, <1>2, <1>3, <1>4, <1>5 DEF TypeOK

\* Stopping the backplane of the store leaves connections connections.
LEMMA StopType ==
  ASSUME TypeOK, store # None, StopBackplane(store)
  PROVE  /\ stopped' \subseteq 1..opened
         /\ horizon' \in [Incarnations -> Nat]
         /\ conn' \in [Clients -> Connection]
<1>1. store \in Incarnations /\ store \in 1..opened
  BY BoundsAssumption DEF TypeOK, None, Incarnations
<1>2. Len(log[store]) \in Nat
  BY <1>1 DEF TypeOK
<1>3. ASSUME NEW c \in Clients
      PROVE  [conn[c] EXCEPT !.at = "closing", !.limit = Len(log[store])]
               \in Connection
  BY <1>2 DEF TypeOK, Connection
<1>. QED  BY <1>1, <1>2, <1>3 DEF StopBackplane, TypeOK

\* More incarnations, more handlers and connections.
LEMMA Widens ==
  ASSUME opened \in Nat, opened' \in Nat, opened <= opened'
  PROVE  Handler \subseteq Handler' /\ Connection \subseteq Connection'
<1>1. 0..opened \subseteq 0..opened'
  OBVIOUS
<1>. QED  BY <1>1 DEF Handler, Connection

\* A step that does not open a store keeps the sets of both.
LEMMA SameWidth ==
  ASSUME opened' = opened
  PROVE  Handler' = Handler /\ Connection' = Connection
BY DEF Handler, Connection

\* No hook of the host changes the type of a variable.
LEMMA HookType ==
  ASSUME TypeOK, \/ StartBegins \/ StartRefused \/ StartEnds \/ HookFails
                 \/ StopBegins \/ StopEnds \/ StopIdle
  PROVE  TypeOK'
<1>1. CASE StartBegins
  <2>1. /\ opened \in Nat /\ opened' \in Nat /\ opened <= opened'
        /\ opened' \in 0..MaxStarts
    BY <1>1, BoundsAssumption DEF StartBegins, TypeOK
  <2>2. post' \in [Posts -> Handler'] /\ conn' \in [Clients -> Connection']
    BY <1>1, <2>1, Widens DEF StartBegins, Hook, TypeOK
  <2>3. /\ store' \in 0..opened' /\ stopped' \subseteq 1..opened'
        /\ replaced' \subseteq 1..opened'
    BY <1>1, BoundsAssumption DEF StartBegins, TypeOK
  <2>4. resolver' \in BOOLEAN
    BY <1>1, BoundsAssumption, Zenon DEF StartBegins
  <2>. QED  BY <1>1, <2>1, <2>2, <2>3, <2>4 DEF StartBegins, Hook, TypeOK
<1>2. CASE StartRefused
  <2>1. resolver' \in BOOLEAN
    BY <1>2, BoundsAssumption DEF StartRefused, TypeOK
  <2>. QED  BY <1>2, <2>1, SameWidth DEF StartRefused, Hook, TypeOK
<1>3. CASE StartEnds
  <2>1. store' \in 0..opened /\ replaced' \subseteq 1..opened
    BY <1>3 DEF StartEnds, TypeOK, None
  <2>. QED  BY <1>3, <2>1, SameWidth DEF StartEnds, Hook, TypeOK
<1>4. CASE HookFails
  BY <1>4, SameWidth DEF HookFails, Hook, TypeOK
<1>5. CASE StopBegins
  <2>1. store # None /\ StopBackplane(store)
    BY <1>5 DEF StopBegins
  <2>. QED  BY <1>5, <2>1, StopType, SameWidth DEF StopBegins, Hook, TypeOK
<1>6. CASE StopEnds
  <2>1. resolver' \in BOOLEAN
    BY <1>6, Zenon DEF StopEnds
  <2>2. store' \in 0..opened
    BY <1>6 DEF StopEnds, TypeOK, None
  <2>. QED  BY <1>6, <2>1, <2>2, SameWidth DEF StopEnds, Hook, TypeOK
<1>7. CASE StopIdle
  <2>1. resolver' \in BOOLEAN
    BY <1>7, Zenon DEF StopIdle
  <2>. QED  BY <1>7, <2>1, SameWidth DEF StopIdle, Hook, TypeOK
<1>. QED  BY <1>1, <1>2, <1>3, <1>4, <1>5, <1>6, <1>7

\* Nor does a step of a POST handler.
LEMMA PostType ==
  ASSUME TypeOK, PostInv, NEW p \in Posts,
         \/ \E body \in Bodies : PostArrives(p, body)
         \/ PostUnavailable(p) \/ PostResolves(p) \/ PostRefused(p)
         \/ PostWrites(p) \/ PostCommits(p) \/ PostPublishes(p) \/ PostFails(p)
  PROVE  TypeOK'
<1>1. ASSUME NEW body \in Bodies, PostArrives(p, body) PROVE TypeOK'
  <2>1. [NewPost EXCEPT !.at = "reading", !.store = store, !.body = body]
          \in Handler
    BY DEF NewPost, TypeOK, Handler
  <2>2. post' \in [Posts -> Handler]
    BY <1>1, <2>1 DEF PostArrives, TypeOK
  <2>. QED  BY <1>1, <2>2, SameWidth DEF PostArrives, Outside, host, TypeOK
<1>2. ASSUME NEW at \in {"new", "reading", "resolved", "writing", "committed",
                         "done", "refused", "failed"},
             post' = [post EXCEPT ![p].at = at], UNCHANGED <<db, log>>, Outside
      PROVE  TypeOK'
  <2>1. post' \in [Posts -> Handler']
    BY <1>2, HandlerMoves DEF Outside, host
  <2>. QED  BY <1>2, <2>1, SameWidth DEF Outside, host, TypeOK
<1>3. CASE PostUnavailable(p) \/ PostRefused(p) \/ PostWrites(p) \/ PostFails(p)
  BY <1>2, <1>3 DEF PostUnavailable, PostRefused, PostWrites, PostFails
<1>4. CASE PostResolves(p)
  <2>1. ResolvedTenant(p) \in Tenants \cup {NoTenant}
    BY CallerAssumption DEF ResolvedTenant
  <2>2. [post[p] EXCEPT !.at = "resolved", !.tenant = ResolvedTenant(p)]
          \in Handler
    BY <2>1 DEF TypeOK, Handler
  <2>3. post' \in [Posts -> Handler]
    BY <1>4, <2>2 DEF PostResolves, TypeOK
  <2>. QED  BY <1>4, <2>3, SameWidth DEF PostResolves, Outside, host, TypeOK
<1>5. CASE PostCommits(p)
  <2>1. ToSet(RowsOf(p)) \subseteq Row
    BY <1>5, RowsType DEF PostCommits, PostInv, ToSet
  <2>2. post' \in [Posts -> Handler']
    BY <1>5, HandlerMoves DEF PostCommits, Outside, host
  <2>. QED  BY <1>5, <2>1, <2>2, SameWidth DEF PostCommits, Outside, host, TypeOK
<1>6. CASE PostPublishes(p)
  <2>1. post[p].store \in Incarnations /\ post[p].tenant \in Tenants
    BY <1>6, BoundsAssumption DEF PostPublishes, PostInv, TypeOK, Handler, None,
         Incarnations
  <2>2. log[post[p].store] \o RowsOf(p) \in Seq(Row)
    BY <2>1, RowsType DEF TypeOK
  <2>3. log' \in [Incarnations -> Seq(Row)]
    BY <1>6, <2>2 DEF PostPublishes, TypeOK
  <2>4. horizon' \in [Incarnations -> Nat]
    <3> DEFINE longer == log[post[p].store] \o RowsOf(p)
    <3>1. Len(longer) \in Nat
      BY <2>2, LenProperties
    <3>2. horizon' = [horizon EXCEPT ![post[p].store] =
                        IF Len(longer) - Retain > @ THEN Len(longer) - Retain ELSE @]
      BY <1>6 DEF PostPublishes
    <3>. HIDE DEF longer
    <3>. QED  BY <2>1, <3>1, <3>2, BoundsAssumption DEF TypeOK
  <2>5. post' \in [Posts -> Handler']
    BY <1>6, HandlerMoves DEF PostPublishes, host
  <2>. QED  BY <1>6, <2>3, <2>4, <2>5, SameWidth DEF PostPublishes, host, TypeOK
<1>. QED  BY <1>1, <1>3, <1>4, <1>5, <1>6

\* A reader joins within the log, and not behind what it saw of it.
LEMMA JoinPointBounds ==
  ASSUME TypeOK, HostInv, NEW n \in Incarnations, NEW last \in Nat
  PROVE  /\ JoinPoint(n, last) \in 0..Len(log[n])
         /\ \A k \in Nat \ {0} :
              k <= last /\ k <= Len(log[n]) => k <= JoinPoint(n, last)
<1>1. Len(log[n]) \in Nat /\ horizon[n] \in Nat /\ horizon[n] <= Len(log[n])
  BY LenProperties DEF TypeOK, HostInv
<1>. QED  BY <1>1 DEF JoinPoint

\* A connection that has an incarnation has one of those that were opened.
LEMMA ConnStore ==
  ASSUME TypeOK, NEW c \in Clients, ConnInv(c), conn[c].at # "away"
  PROVE  conn[c].store \in Incarnations /\ conn[c].store \in 1..opened
BY BoundsAssumption DEF ConnInv, TypeOK, Connection, None, Incarnations

\* Nor does a step of a stream.
LEMMA StreamType ==
  ASSUME TypeOK, HostInv, NEW c \in Clients, ConnInv(c),
         \/ StreamAsked(c) \/ StreamSubscribes(c) \/ StreamDelivers(c)
         \/ StreamEnds(c) \/ StreamBreaks(c)
  PROVE  TypeOK'
<1>0. ASSUME NEW k \in Connection, conn' = [conn EXCEPT ![c] = k], Stream,
             got' \in [Clients -> Seq(Incarnations \X (Nat \ {0}))]
      PROVE  TypeOK'
  <2>1. conn' \in [Clients -> Connection]
    BY <1>0 DEF TypeOK
  <2>. QED  BY <1>0, <2>1, SameWidth DEF Stream, host, TypeOK
<1>1. CASE StreamAsked(c)
  <2>1. ResolvedTenant(c) \in Tenants \cup {NoTenant}
    BY CallerAssumption DEF ResolvedTenant
  <2>2. LastSeen(c) \in Nat
    BY LenProperties DEF LastSeen, Last, TypeOK
  <2>3. [Away EXCEPT !.at = "asked", !.store = store,
                     !.last = LastSeen(c), !.tenant = ResolvedTenant(c)]
          \in Connection
    BY <2>1, <2>2 DEF Away, TypeOK, Connection
  <2>. QED  BY <1>0, <1>1, <2>3 DEF StreamAsked, TypeOK
<1>2. CASE StreamSubscribes(c)
  <2> DEFINE start == JoinPoint(conn[c].store, conn[c].last)
             late == conn[c].store \in stopped
  <2>1. conn[c].store \in Incarnations /\ conn[c].last \in Nat
    BY <1>2, ConnStore DEF StreamSubscribes, TypeOK, Connection
  <2>2. start \in Nat
    <3>1. Len(log[conn[c].store]) \in Nat
      BY <2>1 DEF TypeOK
    <3>. QED  BY <2>1, <3>1, JoinPointBounds, SMTT(30)
  <2>3. late \in BOOLEAN
    OBVIOUS
  <2>4. conn' = [conn EXCEPT ![c] =
                   [conn[c] EXCEPT !.at = "open", !.from = start,
                                   !.cursor = start, !.late = late]]
    BY <1>2 DEF StreamSubscribes, TypeOK
  <2> HIDE DEF start, late
  <2>5. [conn[c] EXCEPT !.at = "open", !.from = start, !.cursor = start,
                        !.late = late] \in Connection
    BY <2>2, <2>3 DEF TypeOK, Connection
  <2>. QED  BY <1>0, <1>2, <2>4, <2>5 DEF StreamSubscribes, TypeOK
<1>3. CASE StreamDelivers(c)
  <2>1. conn[c].store \in Incarnations
    BY <1>3, ConnStore DEF StreamDelivers, Ready
  <2>2. conn[c].cursor + 1 \in Nat \ {0}
    BY DEF TypeOK, Connection
  <2>3. Append(got[c], <<conn[c].store, conn[c].cursor + 1>>)
          \in Seq(Incarnations \X (Nat \ {0}))
    BY <2>1, <2>2 DEF TypeOK
  <2>4. got' \in [Clients -> Seq(Incarnations \X (Nat \ {0}))]
    BY <1>3, <2>3 DEF StreamDelivers, TypeOK
  <2>5. conn' = [conn EXCEPT ![c] = [conn[c] EXCEPT !.cursor = conn[c].cursor + 1]]
    BY <1>3 DEF StreamDelivers, TypeOK
  <2>6. [conn[c] EXCEPT !.cursor = conn[c].cursor + 1] \in Connection
    BY <2>2 DEF TypeOK, Connection
  <2>. QED  BY <1>0, <1>3, <2>4, <2>5, <2>6 DEF StreamDelivers
<1>4. CASE StreamEnds(c) \/ StreamBreaks(c)
  <2>1. Away \in Connection
    BY DEF Away, None, TypeOK, Connection
  <2>. QED  BY <1>0, <1>4, <2>1 DEF StreamEnds, StreamBreaks, TypeOK
<1>. QED  BY <1>1, <1>2, <1>3, <1>4

(***************************************************************************)
(* The invariant.                                                          *)
(***************************************************************************)

\* It holds before the host starts.
LEMMA InvInit ==
  ASSUME Init
  PROVE  HInv
<1>1. HostInv
  BY DEF Init, HostInv, None
<1>2. PostInv
  BY DEF Init, PostInv, NewPost
<1>3. \A c \in Clients : ClientInv(c)
  BY DEF Init, ClientInv, ConnInv, GotInv, Complete, Ordered, Reached, Away
<1>4. LiveIsDurable
  BY DEF Init, LiveIsDurable, ToSet
<1>. QED  BY <1>1, <1>2, <1>3, <1>4, TypeInit DEF HInv

\* A hook of the host keeps what concerns the host itself.
LEMMA HookHost ==
  ASSUME TypeOK, HostInv,
         \/ StartBegins \/ StartRefused \/ StartEnds \/ HookFails
         \/ StopBegins \/ StopEnds \/ StopIdle
  PROVE  HostInv'
<1>1. CASE StartBegins \/ StartRefused \/ StartEnds \/ HookFails \/ StopEnds
             \/ StopIdle
  BY <1>1 DEF StartBegins, StartRefused, StartEnds, HookFails, StopEnds,
       StopIdle, HostInv
<1>2. CASE StopBegins
  <2>1. store \in Incarnations
    BY <1>2, BoundsAssumption DEF StopBegins, TypeOK, None, Incarnations
  <2>2. Len(log[store]) \in Nat
    BY <2>1 DEF TypeOK
  <2>3. \A n \in Incarnations : horizon'[n] <= Len(log'[n])
    <3>1. /\ log' = log /\ horizon' = [horizon EXCEPT ![store] = Len(log[store])]
          /\ horizon \in [Incarnations -> Nat]
      BY <1>2 DEF StopBegins, StopBackplane, TypeOK
    <3>2. \A n \in Incarnations : horizon[n] <= Len(log[n])
      BY DEF HostInv
    <3>. QED  BY <2>1, <2>2, <3>1, <3>2
  <2>4. store' \in stopped' /\ life' = "stopping" /\ UNCHANGED <<store, resolver>>
    BY <1>2 DEF StopBegins, StopBackplane
  <2>. QED  BY <2>3, <2>4, <1>2 DEF HostInv, StopBegins
<1>. QED  BY <1>1, <1>2

\* It keeps what a client received.
LEMMA HookGot ==
  ASSUME TypeOK, NEW c \in Clients, GotInv(c),
         \/ StartBegins \/ StartRefused \/ StartEnds \/ HookFails
         \/ StopBegins \/ StopEnds \/ StopIdle
  PROVE  GotInv(c)'
<1>1. UNCHANGED <<got, log>>
  BY DEF StartBegins, StartRefused, StartEnds, HookFails, StopBegins, StopEnds,
     StopIdle, Hook
<1>2. /\ opened' \in {opened, opened + 1}
      /\ store' \in {store, None, opened}
      /\ opened \in Nat
  BY DEF StartBegins, StartRefused, StartEnds, HookFails, StopBegins, StopEnds,
     StopIdle, Hook, TypeOK
<1>3. \A i \in DOMAIN got[c] : got[c][i][1] \in Nat \ {0}
  <2>1. got[c] \in Seq(Incarnations \X (Nat \ {0}))
    BY DEF TypeOK
  <2>. QED  BY <2>1 DEF Incarnations
<1>4. \A i \in DOMAIN got[c] : got[c][i][1] <= opened' /\
                              (store' # None => got[c][i][1] <= store')
  BY <1>2, <1>3 DEF GotInv
<1>. QED  BY <1>1, <1>4 DEF GotInv, NotAfter, OwnTenant

\* It keeps the place of a connection.
LEMMA HookConn ==
  ASSUME TypeOK, HostInv, NEW c \in Clients, ConnInv(c),
         \/ StartBegins \/ StartRefused \/ StartEnds \/ HookFails
         \/ StopBegins \/ StopEnds \/ StopIdle
  PROVE  ConnInv(c)'
<1>0. UNCHANGED <<got, log>>
  BY DEF StartBegins, StartRefused, StartEnds, HookFails, StopBegins, StopEnds,
     StopIdle, Hook
<1>1. CASE StartBegins \/ StartRefused \/ HookFails \/ StopIdle
  <2>1. UNCHANGED <<conn, store, stopped, replaced>>
    BY <1>1 DEF StartBegins, StartRefused, HookFails, StopIdle
  <2>. QED  BY <1>0, <2>1 DEF ConnInv, NotAfter, OwnTenant, LastSeen
<1>2. CASE StartEnds
  <2>1. /\ conn' = conn /\ store' = opened /\ stopped' = stopped
        /\ replaced' = replaced \cup ({store} \ {None})
    BY <1>2 DEF StartEnds
  <2>2. conn[c].at # "away" => conn[c].store <= opened
    BY ConnStore DEF TypeOK
  <2>. QED  BY <1>0, <2>1, <2>2 DEF ConnInv, NotAfter, OwnTenant, LastSeen
<1>3. CASE StopEnds
  <2>1. /\ conn' = conn /\ store' = None /\ UNCHANGED <<stopped, replaced>>
        /\ store \in stopped
    BY <1>3 DEF StopEnds, HostInv
  <2>. QED  BY <1>0, <2>1 DEF ConnInv, NotAfter, OwnTenant, LastSeen
<1>4. CASE StopBegins
  <2>1. UNCHANGED <<store, replaced>> /\ stopped \subseteq stopped'
    BY <1>4 DEF StopBegins, StopBackplane
  <2>2. CASE conn[c].at = "open" /\ conn[c].store = store
    <3>1. conn'[c] = [conn[c] EXCEPT !.at = "closing", !.limit = Len(log[store])]
      BY <1>4, <2>2 DEF StopBegins, StopBackplane
    <3>2. /\ conn'[c].at = "closing" /\ conn'[c].limit = Len(log[store])
          /\ conn'[c].store = conn[c].store /\ conn'[c].tenant = conn[c].tenant
          /\ conn'[c].from = conn[c].from /\ conn'[c].cursor = conn[c].cursor
      BY <3>1 DEF TypeOK, Connection
    <3>3. Len(log[store]) <= Len(log[store])
      BY <2>2, ConnStore, LenProperties DEF TypeOK
    <3>. QED  BY <1>0, <2>1, <2>2, <3>2, <3>3 DEF ConnInv, NotAfter, OwnTenant, LastSeen
  <2>3. CASE ~(conn[c].at = "open" /\ conn[c].store = store)
    <3>1. conn'[c] = conn[c]
      BY <1>4, <2>3 DEF StopBegins, StopBackplane
    <3>. QED  BY <1>0, <2>1, <3>1 DEF ConnInv, NotAfter, OwnTenant, LastSeen
  <2>. QED  BY <2>2, <2>3
<1>. QED  BY <1>1, <1>2, <1>3, <1>4

\* It keeps the invariant.
LEMMA HookInv ==
  ASSUME HInv, \/ StartBegins \/ StartRefused \/ StartEnds \/ HookFails
               \/ StopBegins \/ StopEnds \/ StopIdle
  PROVE  HInv'
<1>0. UNCHANGED <<db, post, got, log>>
  BY DEF StartBegins, StartRefused, StartEnds, HookFails, StopBegins, StopEnds,
     StopIdle, Hook
<1>1. TypeOK' /\ HostInv' /\ \A c \in Clients : ConnInv(c)' /\ GotInv(c)'
  BY HookType, HookHost, HookConn, HookGot DEF HInv, ClientInv
<1>2. PostInv'
  BY <1>0 DEF HInv, PostInv, RowsOf
<1>3. LiveIsDurable' /\ \A c \in Clients : Ordered(c)'
  BY <1>0 DEF HInv, ClientInv, LiveIsDurable, Ordered
<1>4. ASSUME NEW c \in Clients
      PROVE  /\ \/ conn'[c] = conn[c]
                \/ /\ conn[c].at = "open" /\ conn'[c].at = "closing"
                   /\ conn'[c].store = conn[c].store
                   /\ conn'[c].tenant = conn[c].tenant
                   /\ conn'[c].from = conn[c].from
                   /\ conn'[c].cursor = conn[c].cursor
             /\ conn'[c].at = "open" /\ conn[c].store \in stopped' =>
                  conn[c].store \in stopped
  <2>1. CASE StopBegins
    <3>1. conn[c] \in Connection
      BY DEF HInv, TypeOK
    <3>2. conn'[c] = IF conn[c].at = "open" /\ conn[c].store = store
                     THEN [conn[c] EXCEPT !.at = "closing", !.limit = Len(log[store])]
                     ELSE conn[c]
      BY <2>1 DEF StopBegins, StopBackplane
    <3>3. stopped' = stopped \cup {store}
      BY <2>1 DEF StopBegins, StopBackplane
    <3>. QED  BY <3>1, <3>2, <3>3 DEF Connection
  <2>2. CASE ~StopBegins
    <3>1. UNCHANGED <<conn, stopped>>
      BY <2>2 DEF StartBegins, StartRefused, StartEnds, HookFails, StopEnds,
         StopIdle
    <3>. QED  BY <3>1
  <2>. QED  BY <2>1, <2>2
<1>5. ASSUME NEW c \in Clients PROVE Complete(c)' /\ Reached(c)'
  BY <1>0, <1>4 DEF HInv, ClientInv, Complete, Reached
<1>. QED  BY <1>1, <1>2, <1>3, <1>5 DEF HInv, ClientInv

\* The logs only grow.
Grown ==
  \A n \in Incarnations :
    /\ Len(log[n]) <= Len(log'[n])
    /\ \A i \in 1..Len(log[n]) : log'[n][i] = log[n][i]

\* When nothing but the logs moves, and those only grow, a stream keeps its
\* place and what its client received.
LEMMA GrownStreams ==
  ASSUME TypeOK, TypeOK', Grown, UNCHANGED <<host, conn, got>>,
         NEW c \in Clients, ClientInv(c)
  PROVE  ClientInv(c)'
<1>0. UNCHANGED <<life, opened, store, resolver, stopped, replaced, conn, got>>
  BY DEF host
<1>1. ASSUME conn[c].at # "away"
      PROVE  /\ conn[c].cursor <= Len(log[conn[c].store]) =>
                  conn[c].cursor <= Len(log'[conn[c].store])
             /\ conn[c].limit <= Len(log[conn[c].store]) =>
                  conn[c].limit <= Len(log'[conn[c].store])
             /\ conn[c].cursor <= Len(log[conn[c].store]) =>
                  \A k \in (conn[c].from + 1)..conn[c].cursor :
                    log'[conn[c].store][k] = log[conn[c].store][k]
  <2>1. conn[c].store \in Incarnations
    BY <1>1, ConnStore DEF ClientInv
  <2>2. Len(log[conn[c].store]) \in Nat /\ Len(log'[conn[c].store]) \in Nat
    BY <2>1 DEF TypeOK
  <2>3. conn[c].cursor \in Nat /\ conn[c].from \in Nat /\ conn[c].limit \in Nat
    BY DEF TypeOK, Connection
  <2>4. /\ Len(log[conn[c].store]) <= Len(log'[conn[c].store])
        /\ \A i \in 1..Len(log[conn[c].store]) :
             log'[conn[c].store][i] = log[conn[c].store][i]
    BY <2>1 DEF Grown
  <2>5. ASSUME conn[c].cursor <= Len(log[conn[c].store]),
               NEW k \in (conn[c].from + 1)..conn[c].cursor
        PROVE  log'[conn[c].store][k] = log[conn[c].store][k]
    <3>1. k \in 1..Len(log[conn[c].store])
      BY <2>2, <2>3, <2>5
    <3>. QED  BY <2>4, <3>1
  <2>6. /\ conn[c].cursor <= Len(log[conn[c].store]) =>
             conn[c].cursor <= Len(log'[conn[c].store])
        /\ conn[c].limit <= Len(log[conn[c].store]) =>
             conn[c].limit <= Len(log'[conn[c].store])
    BY <2>2, <2>3, <2>4, SMTT(30)
  <2>. QED  BY <2>5, <2>6
<1>2. ConnInv(c)'
  BY <1>0, <1>1 DEF ClientInv, ConnInv, NotAfter, OwnTenant, LastSeen
<1>3. GotInv(c)'
  <2>1. ASSUME NEW i \in DOMAIN got[c]
        PROVE  /\ got[c][i][2] <= Len(log'[got[c][i][1]])
               /\ log'[got[c][i][1]][got[c][i][2]] = log[got[c][i][1]][got[c][i][2]]
    <3>1. got[c] \in Seq(Incarnations \X (Nat \ {0}))
      BY DEF TypeOK
    <3>2. got[c][i][1] \in Incarnations /\ got[c][i][2] \in Nat \ {0}
      BY <3>1
    <3>3. Len(log[got[c][i][1]]) \in Nat /\ Len(log'[got[c][i][1]]) \in Nat
      <4>1. log \in [Incarnations -> Seq(Row)] /\ log' \in [Incarnations -> Seq(Row)]
        BY DEF TypeOK
      <4>2. log[got[c][i][1]] \in Seq(Row) /\ log'[got[c][i][1]] \in Seq(Row)
        BY <3>2, <4>1
      <4>. QED  BY <4>2, LenProperties
    <3>4. got[c][i][2] <= Len(log[got[c][i][1]])
      BY DEF ClientInv, GotInv
    <3>. QED  BY <3>2, <3>3, <3>4 DEF Grown
  <2>. QED  BY <1>0, <2>1 DEF ClientInv, GotInv, NotAfter, OwnTenant
<1>4. Complete(c)'
  <2>1. SUFFICES ASSUME conn[c].at \in {"open", "closing"} PROVE Complete(c)'
    BY <1>0 DEF Complete
  <2>2. \A k \in (conn[c].from + 1)..conn[c].cursor :
          log'[conn[c].store][k] = log[conn[c].store][k]
    BY <2>1, <1>1 DEF ClientInv, ConnInv
  <2>. QED  BY <1>0, <2>1, <2>2 DEF ClientInv, Complete
<1>5. Ordered(c)' /\ Reached(c)'
  BY <1>0 DEF ClientInv, Ordered, Reached
<1>. QED  BY <1>2, <1>3, <1>4, <1>5 DEF ClientInv

\* Publishing a batch makes the log of its store longer, by its rows.
LEMMA PublishGrows ==
  ASSUME HInv, NEW p \in Posts, PostPublishes(p)
  PROVE  /\ Grown
         /\ LiveIsDurable'
         /\ \A n \in Incarnations : horizon'[n] <= Len(log'[n])
<1> DEFINE n == post[p].store
           rows == RowsOf(p)
           longer == log[n] \o rows
<1>1. /\ n \in Incarnations
      /\ log[n] \in Seq(Row) /\ rows \in Seq(Row)
      /\ ToSet(rows) \subseteq db
  <2>1. n \in Incarnations
    BY BoundsAssumption DEF PostPublishes, HInv, PostInv, TypeOK, Handler, None,
         Incarnations
  <2>. QED  BY <2>1, RowsType DEF PostPublishes, HInv, PostInv, TypeOK
<1>2. /\ log' = [log EXCEPT ![n] = longer] /\ db' = db
      /\ horizon' = [horizon EXCEPT ![n] =
                       IF Len(longer) - Retain > @ THEN Len(longer) - Retain ELSE @]
  BY DEF PostPublishes
<1>3. /\ Len(log[n]) \in Nat /\ Len(rows) \in Nat
      /\ longer \in Seq(Row) /\ Len(longer) = Len(log[n]) + Len(rows)
      /\ \A i \in 1..Len(log[n]) : longer[i] = log[n][i]
      /\ \A i \in 1..Len(longer) :
           i > Len(log[n]) => i - Len(log[n]) \in 1..Len(rows)
                              /\ longer[i] = rows[i - Len(log[n])]
  <2> HIDE DEF rows, n
  <2>. QED  BY <1>1, ConcatProperties, LenProperties
<1> HIDE DEF rows, n, longer
<1>4. \A m \in Incarnations : log'[m] = IF m = n THEN longer ELSE log[m]
  BY <1>1, <1>2 DEF HInv, TypeOK
<1>5. Grown
  <2>1. \A m \in Incarnations : Len(log[m]) \in Nat
    BY DEF HInv, TypeOK
  <2>. QED  BY <1>3, <1>4, <2>1 DEF Grown
<1>6. LiveIsDurable'
  <2>1. ToSet(longer) \subseteq db
    <3>1. ASSUME NEW i \in DOMAIN longer PROVE longer[i] \in db
      <4>1. i \in 1..Len(longer)
        BY <1>3, LenProperties
      <4>2. CASE i > Len(log[n])
        <5>1. rows[i - Len(log[n])] \in ToSet(rows)
          BY <1>1, <1>3, <4>1, <4>2, LenProperties DEF ToSet
        <5>. QED  BY <1>1, <1>3, <4>1, <4>2, <5>1
      <4>3. CASE i <= Len(log[n])
        <5>1. log[n][i] \in ToSet(log[n])
          BY <1>1, <1>3, <4>1, <4>3, LenProperties DEF ToSet
        <5>. QED  BY <1>1, <1>3, <4>1, <4>3, <5>1 DEF HInv, LiveIsDurable
      <4>. QED  BY <1>3, <4>1, <4>2, <4>3
    <3>. QED  BY <3>1 DEF ToSet
  <2>. QED  BY <1>2, <1>4, <2>1 DEF HInv, LiveIsDurable
<1>7. \A m \in Incarnations : horizon'[m] <= Len(log'[m])
  <2>1. \A m \in Incarnations : horizon[m] \in Nat /\ horizon[m] <= Len(log[m])
    BY DEF HInv, HostInv, TypeOK
  <2>2. horizon'[n] <= Len(longer)
    BY <1>1, <1>2, <1>3, <2>1, BoundsAssumption DEF HInv, TypeOK
  <2>3. \A m \in Incarnations \ {n} : horizon'[m] = horizon[m]
    BY <1>2 DEF HInv, TypeOK
  <2>. QED  BY <1>4, <2>1, <2>2, <2>3
<1>. QED  BY <1>5, <1>6, <1>7

\* The step of a handler keeps what is known of the handlers.
LEMMA PostPost ==
  ASSUME TypeOK, PostInv, NEW p \in Posts,
         \/ \E body \in Bodies : PostArrives(p, body)
         \/ PostUnavailable(p) \/ PostResolves(p) \/ PostRefused(p)
         \/ PostWrites(p) \/ PostCommits(p) \/ PostPublishes(p) \/ PostFails(p)
  PROVE  PostInv'
<1>1. db \subseteq db'
  BY DEF PostArrives, PostUnavailable, PostResolves, PostRefused, PostWrites,
     PostCommits, PostPublishes, PostFails
<1>2. ASSUME NEW q \in Posts, q # p PROVE post'[q] = post[q]
  BY <1>2 DEF PostArrives, PostUnavailable, PostResolves, PostRefused,
     PostWrites, PostCommits, PostPublishes, PostFails, TypeOK
<1>3. ASSUME NEW body \in Bodies, PostArrives(p, body)
      PROVE  post'[p].at = "reading" /\ post'[p].store # None
  BY <1>3 DEF PostArrives, NewPost, TypeOK
<1>4. ASSUME NEW at, post' = [post EXCEPT ![p].at = at]
      PROVE  /\ post'[p].at = at /\ post'[p].store = post[p].store
             /\ post'[p].tenant = post[p].tenant /\ RowsOf(p)' = RowsOf(p)
  <2>1. post[p] \in Handler /\ post'[p] = [post[p] EXCEPT !.at = at]
    BY <1>4 DEF TypeOK
  <2>2. /\ post'[p].at = at /\ post'[p].store = post[p].store
        /\ post'[p].tenant = post[p].tenant /\ post'[p].body = post[p].body
    BY <2>1 DEF Handler
  <2>. QED  BY <2>2 DEF RowsOf
<1>5. CASE PostUnavailable(p) \/ PostRefused(p) \/ PostPublishes(p)
             \/ PostFails(p)
  <2>1. post'[p].at \in {"refused", "done", "failed"}
    BY <1>4, <1>5 DEF PostUnavailable, PostRefused, PostPublishes, PostFails
  <2>. QED  BY <1>1, <1>2, <2>1 DEF PostInv, RowsOf
<1>6. CASE \E body \in Bodies : PostArrives(p, body)
  BY <1>1, <1>2, <1>3, <1>6 DEF PostInv, RowsOf
<1>7. CASE PostResolves(p)
  <2>1. ResolvedTenant(p) \in Tenants
    BY CallerAssumption DEF ResolvedTenant
  <2>2. post[p] \in Handler /\ post'[p] = [post[p] EXCEPT !.at = "resolved",
                                             !.tenant = ResolvedTenant(p)]
    BY <1>7 DEF PostResolves, TypeOK
  <2>3. /\ post'[p].at = "resolved" /\ post'[p].tenant \in Tenants
        /\ post'[p].store = post[p].store
    BY <2>1, <2>2 DEF Handler
  <2>. QED  BY <1>1, <1>2, <1>7, <2>3 DEF PostInv, RowsOf, PostResolves
<1>8. CASE PostWrites(p)
  <2>1. post' = [post EXCEPT ![p].at = "writing"] /\ post[p].at = "resolved"
    BY <1>8 DEF PostWrites
  <2>2. /\ post'[p].at = "writing" /\ post'[p].store = post[p].store
        /\ post'[p].tenant = post[p].tenant
    BY <1>4, <2>1
  <2>. QED  BY <1>1, <1>2, <2>1, <2>2 DEF PostInv, RowsOf
<1>9. CASE PostCommits(p)
  <2>1. /\ post' = [post EXCEPT ![p].at = "committed"] /\ post[p].at = "writing"
        /\ db' = db \cup ToSet(RowsOf(p))
    BY <1>9 DEF PostCommits
  <2>2. /\ post'[p].at = "committed" /\ post'[p].store = post[p].store
        /\ post'[p].tenant = post[p].tenant /\ RowsOf(p)' = RowsOf(p)
    BY <1>4, <2>1
  <2>3. ToSet(RowsOf(p))' \subseteq db'
    BY <2>1, <2>2
  <2>4. \A q \in Posts \ {p} : RowsOf(q)' = RowsOf(q)
    BY <1>2 DEF RowsOf
  <2>. QED  BY <1>1, <1>2, <2>1, <2>2, <2>3, <2>4 DEF PostInv
<1>. QED  BY <1>5, <1>6, <1>7, <1>8, <1>9

\* The step of a handler keeps the invariant.
LEMMA PostStep ==
  ASSUME HInv, NEW p \in Posts,
         \/ \E body \in Bodies : PostArrives(p, body)
         \/ PostUnavailable(p) \/ PostResolves(p) \/ PostRefused(p)
         \/ PostWrites(p) \/ PostCommits(p) \/ PostPublishes(p) \/ PostFails(p)
  PROVE  HInv'
<1>1. TypeOK' /\ PostInv'
  BY PostType, PostPost DEF HInv
<1>2. UNCHANGED <<host, conn, got>>
  BY DEF PostArrives, PostUnavailable, PostResolves, PostRefused, PostWrites,
     PostCommits, PostPublishes, PostFails, Outside
<1>3. CASE PostPublishes(p)
  <2>1. \A c \in Clients : ClientInv(c)'
    BY <1>1, <1>2, <1>3, PublishGrows, GrownStreams DEF HInv
  <2>2. HostInv'
    BY <1>2, <1>3, PublishGrows DEF HInv, HostInv, host
  <2>. QED  BY <1>1, <1>3, <2>1, <2>2, PublishGrows DEF HInv
<1>4. CASE ~PostPublishes(p)
  <2>1. UNCHANGED <<log, horizon>> /\ db \subseteq db'
    BY <1>4 DEF PostArrives, PostUnavailable, PostResolves, PostRefused,
       PostWrites, PostCommits, PostFails, Outside
  <2>2. \A n \in Incarnations : Len(log[n]) \in Nat
    BY DEF HInv, TypeOK
  <2>3. Grown
    BY <2>1, <2>2 DEF Grown
  <2>4. \A c \in Clients : ClientInv(c)'
    BY <1>1, <1>2, <2>3, GrownStreams DEF HInv
  <2>5. HostInv' /\ LiveIsDurable'
    BY <1>2, <2>1 DEF HInv, HostInv, LiveIsDurable, host
  <2>. QED  BY <1>1, <2>4, <2>5 DEF HInv
<1>. QED  BY <1>3, <1>4

\* A stream's step leaves the other clients alone.
LEMMA OtherClients ==
  ASSUME Stream, NEW d \in Clients, conn'[d] = conn[d], got'[d] = got[d],
         ClientInv(d)
  PROVE  ClientInv(d)'
<1>1. UNCHANGED <<life, opened, store, resolver, stopped, replaced, log>>
  BY DEF Stream, host
<1>. QED  BY <1>1 DEF ClientInv, ConnInv, GotInv, Complete, Ordered,
       Reached, NotAfter, OwnTenant, LastSeen

\* A frame a client received has an incarnation and a position.
LEMMA GotType ==
  ASSUME TypeOK, NEW c \in Clients, NEW i \in DOMAIN got[c]
  PROVE  /\ got[c][i][1] \in Incarnations /\ got[c][i][1] \in Nat \ {0}
         /\ got[c][i][2] \in Nat \ {0}
<1>1. got[c] \in Seq(Incarnations \X (Nat \ {0}))
  BY DEF TypeOK
<1>2. got[c][i] \in Incarnations \X (Nat \ {0})
  BY <1>1
<1>. QED  BY <1>2 DEF Incarnations

\* A request for a stream is the caller's, and remembers what it received last.
LEMMA AskedInv ==
  ASSUME HInv, NEW c \in Clients, StreamAsked(c)
  PROVE  ClientInv(c)'
<1>1. /\ conn'[c].at = "asked" /\ conn'[c].store = store /\ store # None
      /\ conn'[c].last = LastSeen(c) /\ conn'[c].tenant = ResolvedTenant(c)
  BY DEF StreamAsked, Away, HInv, TypeOK
<1>2. /\ UNCHANGED <<life, opened, store, resolver, stopped, replaced, log>>
      /\ got' = got
  BY DEF StreamAsked, Stream, host
<1>3. ResolvedTenant(c) = OwnTenant(c)
  BY <1>1 DEF ResolvedTenant, OwnTenant, HInv, HostInv
<1>4. ASSUME NEW i \in DOMAIN got[c]
      PROVE  NotAfter(got[c][i], store, LastSeen(c))
  <2>1. got[c] \in Seq(Incarnations \X (Nat \ {0})) /\ store \in Nat
    BY DEF HInv, TypeOK
  <2>2. got[c] # <<>> /\ Len(got[c]) \in DOMAIN got[c]
    BY <2>1, LenProperties
  <2>3. /\ LastSeen(c) = Last(got[c])[2] /\ Last(got[c])[1] <= store
        /\ NotAfter(got[c][i], Last(got[c])[1], Last(got[c])[2])
    BY <1>1, <2>2 DEF LastSeen, Last, HInv, ClientInv, GotInv
  <2>4. /\ got[c][i][1] \in Nat /\ got[c][i][2] \in Nat
        /\ Last(got[c])[1] \in Nat /\ Last(got[c])[2] \in Nat
    BY <2>2, GotType DEF HInv, Last
  <2>. QED  BY <2>1, <2>3, <2>4 DEF NotAfter
<1>5. ConnInv(c)'
  <2>1. store \in Nat
    BY DEF HInv, TypeOK
  <2>. QED  BY <1>1, <1>2, <1>3, <1>4, <2>1 DEF ConnInv, NotAfter, OwnTenant, LastSeen
<1>6. GotInv(c)' /\ Ordered(c)' /\ Complete(c)' /\ Reached(c)'
  BY <1>1, <1>2 DEF HInv, ClientInv, GotInv, Ordered, Complete, Reached,
     NotAfter, OwnTenant
<1>. QED  BY <1>5, <1>6 DEF ClientInv

\* A subscription starts behind all that its client received.
LEMMA SubscribedInv ==
  ASSUME HInv, NEW c \in Clients, StreamSubscribes(c)
  PROVE  ClientInv(c)'
<1> DEFINE n == conn[c].store
           start == JoinPoint(n, conn[c].last)
<1>1. /\ n \in Incarnations /\ conn[c].at = "asked" /\ conn[c].last \in Nat
      /\ conn[c] \in Connection
  BY ConnStore DEF StreamSubscribes, HInv, ClientInv, TypeOK, Connection
<1>2. Len(log[n]) \in Nat /\ start \in 0..Len(log[n])
  BY <1>1, JoinPointBounds, LenProperties DEF HInv, TypeOK
<1>3. /\ conn'[c].at = "open" /\ conn'[c].store = n
      /\ conn'[c].tenant = conn[c].tenant
      /\ conn'[c].from = start /\ conn'[c].cursor = start
      /\ conn'[c].late = (n \in stopped)
  <2>1. conn'[c] = [conn[c] EXCEPT !.at = "open", !.from = start,
                                   !.cursor = start, !.late = n \in stopped]
    BY DEF StreamSubscribes, HInv, TypeOK
  <2> HIDE DEF start
  <2>. QED  BY <1>1, <2>1 DEF Connection
<1>4. /\ UNCHANGED <<life, opened, store, resolver, stopped, replaced, log>>
      /\ got' = got
  BY DEF StreamSubscribes, Stream, host
<1>5. ASSUME NEW i \in DOMAIN got[c]
      PROVE  NotAfter(got[c][i], n, start)
  <2>1. got[c][i][1] \in Nat /\ got[c][i][2] \in Nat \ {0}
    BY GotType DEF HInv
  <2>2. NotAfter(got[c][i], n, conn[c].last)
    BY <1>1 DEF HInv, ClientInv, ConnInv
  <2>3. got[c][i][2] <= Len(log[got[c][i][1]])
    BY DEF HInv, ClientInv, GotInv
  <2>4. CASE got[c][i][1] = n
    <3>1. got[c][i][2] <= conn[c].last /\ got[c][i][2] <= Len(log[n])
      BY <1>1, <2>1, <2>2, <2>3, <2>4 DEF NotAfter, Incarnations
    <3>2. got[c][i][2] <= start
      BY <1>1, <2>1, <3>1, JoinPointBounds DEF HInv
    <3>. QED  BY <2>4, <3>2 DEF NotAfter
  <2>5. CASE got[c][i][1] # n
    BY <2>2, <2>5 DEF NotAfter
  <2>. QED  BY <2>4, <2>5
<1> HIDE DEF start, n
<1>6. ConnInv(c)'
  <2>1. start <= start /\ start <= Len(log[n])
    BY <1>2
  <2>2. /\ n # None /\ conn[c].tenant = OwnTenant(c)
        /\ n # store => n \in stopped \cup replaced
        /\ store # None => n <= store
    BY <1>1 DEF HInv, ClientInv, ConnInv, n
  <2>. QED  BY <1>3, <1>4, <1>5, <2>1, <2>2 DEF ConnInv, NotAfter, OwnTenant, LastSeen
<1>7. GotInv(c)' /\ Ordered(c)'
  BY <1>4 DEF HInv, ClientInv, GotInv, Ordered, NotAfter, OwnTenant
<1>8. Reached(c)'
  BY <1>3, <1>4 DEF Reached
<1>9. Complete(c)'
  <2>1. {f \in ToSet(got[c]) : f[1] = n /\ f[2] > start} = {}
    <3>1. ASSUME NEW i \in DOMAIN got[c], got[c][i][1] = n
          PROVE  ~(got[c][i][2] > start)
      <4>1. got[c][i][1] \in Nat /\ got[c][i][2] \in Nat
        BY GotType DEF HInv
      <4>. QED  BY <1>2, <1>5, <3>1, <4>1 DEF NotAfter
    <3>. QED  BY <3>1 DEF ToSet
  <2>2. (start + 1)..start = {}
    BY <1>2
  <2>. QED  BY <1>3, <1>4, <2>1, <2>2 DEF Complete
<1>. QED  BY <1>6, <1>7, <1>8, <1>9 DEF ClientInv

\* The end of a connection leaves what its client received.
LEMMA AwayInv ==
  ASSUME HInv, NEW c \in Clients, conn' = [conn EXCEPT ![c] = Away], got' = got,
         Stream
  PROVE  ClientInv(c)'
<1>1. conn'[c].at = "away"
  BY DEF HInv, TypeOK, Away
<1>2. UNCHANGED <<life, opened, store, resolver, stopped, replaced, log>>
  BY DEF Stream, host
<1>. QED  BY <1>1, <1>2 DEF HInv, ClientInv, ConnInv, GotInv, Complete, Ordered,
       Reached, NotAfter, OwnTenant

\* A frame delivered is the next one behind all that its client received.
LEMMA DeliveredInv ==
  ASSUME HInv, NEW c \in Clients, StreamDelivers(c)
  PROVE  ClientInv(c)'
<1> DEFINE n == conn[c].store
           next == conn[c].cursor + 1
           pass == Passes(c, log[n][next])
           frame == <<n, next>>
<1>1. /\ n \in Incarnations /\ n \in 1..opened
      /\ conn[c].at \in {"open", "closing"} /\ conn[c] \in Connection
  BY ConnStore DEF StreamDelivers, Ready, HInv, ClientInv, TypeOK
<1>2. /\ conn[c].from \in Nat /\ conn[c].cursor \in Nat /\ conn[c].limit \in Nat
      /\ Len(log[n]) \in Nat
  BY <1>1, LenProperties DEF HInv, TypeOK, Connection
<1>3. /\ next \in Nat \ {0} /\ next <= Len(log[n]) /\ conn[c].from < next
      /\ conn[c].cursor < next
  <2>1. /\ conn[c].from <= conn[c].cursor
        /\ conn[c].at = "closing" => conn[c].limit <= Len(log[n])
    BY <1>1 DEF HInv, ClientInv, ConnInv
  <2>2. \/ conn[c].cursor < Len(log[n])
        \/ conn[c].at = "closing" /\ conn[c].cursor < conn[c].limit
    BY DEF StreamDelivers, Ready
  <2>. QED  BY <1>2, <2>1, <2>2, SMTT(30)
<1>4. /\ conn'[c].at = conn[c].at /\ conn'[c].store = n
      /\ conn'[c].tenant = conn[c].tenant /\ conn'[c].from = conn[c].from
      /\ conn'[c].cursor = next /\ conn'[c].limit = conn[c].limit
      /\ conn'[c].late = conn[c].late
  <2>1. conn'[c] = [conn[c] EXCEPT !.cursor = next]
    BY DEF StreamDelivers, HInv, TypeOK
  <2> HIDE DEF next
  <2>. QED  BY <1>1, <2>1 DEF Connection
<1>5. UNCHANGED <<life, opened, store, resolver, stopped, replaced, log>>
  BY DEF StreamDelivers, Stream, host
<1>6. /\ got[c] \in Seq(Incarnations \X (Nat \ {0}))
      /\ frame \in Incarnations \X (Nat \ {0})
      /\ got'[c] = IF pass THEN Append(got[c], frame) ELSE got[c]
  BY <1>1, <1>3 DEF StreamDelivers, HInv, TypeOK
<1>7. pass <=> log[n][next].tenant = conn[c].tenant
  BY DEF Passes
<1>8. conn[c].tenant = OwnTenant(c) /\ OwnTenant(c)' = OwnTenant(c)
  BY <1>1 DEF HInv, ClientInv, ConnInv, OwnTenant
<1>9. \A i \in DOMAIN got[c] :
        /\ got[c][i][1] \in Nat /\ got[c][i][2] \in Nat
        /\ NotAfter(got[c][i], n, conn[c].cursor)
  BY <1>1, GotType DEF HInv, ClientInv, ConnInv
<1>10. /\ frame[1] = n /\ frame[2] = next /\ n \in Nat
       /\ \A i \in DOMAIN got[c] :
            /\ NotAfter(got[c][i], n, next)
            /\ got[c][i][1] < n \/ (got[c][i][1] = n /\ got[c][i][2] < next)
  BY <1>1, <1>2, <1>3, <1>9 DEF NotAfter
<1>11. ASSUME pass
       PROVE  /\ Len(got'[c]) = Len(got[c]) + 1 /\ Len(got[c]) \in Nat
              /\ DOMAIN got[c] = 1..Len(got[c])
              /\ DOMAIN got'[c] = 1..(Len(got[c]) + 1)
              /\ \A i \in 1..Len(got[c]) : got'[c][i] = got[c][i]
              /\ got'[c][Len(got[c]) + 1] = frame
  BY <1>6, <1>11, AppendProperties, LenProperties
<1> HIDE DEF n, next, pass, frame
<1>12. ConnInv(c)'
  <2>1. \A i \in DOMAIN got'[c] : NotAfter(got'[c][i], n, next)
    <3>1. NotAfter(frame, n, next)
      BY <1>3, <1>10 DEF NotAfter
    <3>. QED  BY <1>6, <1>10, <1>11, <3>1
  <2>2. /\ n # None
        /\ n # store => n \in stopped \cup replaced
        /\ store # None => n <= store
        /\ conn[c].at = "closing" => conn[c].limit <= Len(log[n])
    BY <1>1 DEF HInv, ClientInv, ConnInv, n
  <2>3. conn[c].from <= next
    BY <1>2, <1>3
  <2>4. /\ conn'[c].tenant = OwnTenant(c)
        /\ conn'[c].at # "asked" /\ conn'[c].at # "away"
    BY <1>1, <1>4, <1>8
  <2>5. /\ conn'[c].store # None
        /\ conn'[c].store # store' => conn'[c].store \in stopped' \cup replaced'
        /\ store' # None => conn'[c].store <= store'
    BY <1>4, <1>5, <2>2
  <2>6. /\ conn'[c].from <= conn'[c].cursor
        /\ conn'[c].cursor <= Len(log'[conn'[c].store])
    BY <1>3, <1>4, <1>5, <2>3
  <2>7. conn'[c].at = "closing" => conn'[c].limit <= Len(log'[conn'[c].store])
    BY <1>4, <1>5, <2>2
  <2>8. \A i \in DOMAIN got'[c] :
          NotAfter(got'[c][i], conn'[c].store, conn'[c].cursor)
    BY <1>4, <2>1
  <2>. QED  BY <2>4, <2>5, <2>6, <2>7, <2>8 DEF ConnInv, NotAfter, OwnTenant, LastSeen
<1>13. GotInv(c)'
  <2>1. CASE pass
    <3>1. Last(got'[c]) = frame
      BY <1>11, <2>1 DEF Last
    <3>2. ASSUME NEW i \in 1..Len(got[c])
          PROVE  /\ got'[c][i][1] <= opened
                 /\ store # None => got'[c][i][1] <= store
                 /\ got'[c][i][2] <= Len(log[got'[c][i][1]])
                 /\ log[got'[c][i][1]][got'[c][i][2]].tenant = OwnTenant(c)
                 /\ NotAfter(got'[c][i], n, next)
      BY <1>10, <1>11, <2>1 DEF HInv, ClientInv, GotInv
    <3>3. /\ n <= opened /\ (store # None => n <= store)
          /\ next <= Len(log[n]) /\ log[n][next].tenant = OwnTenant(c)
          /\ NotAfter(frame, n, next)
      <4>1. n <= opened /\ (store # None => n <= store)
        BY <1>1 DEF HInv, ClientInv, ConnInv, n, TypeOK
      <4>2. NotAfter(frame, n, next)
        BY <1>3, <1>10 DEF NotAfter
      <4>. QED  BY <1>3, <1>7, <1>8, <2>1, <4>1, <4>2
    <3>4. \A i \in DOMAIN got'[c] :
            /\ got'[c][i][1] <= opened
            /\ store # None => got'[c][i][1] <= store
            /\ got'[c][i][2] <= Len(log[got'[c][i][1]])
            /\ log[got'[c][i][1]][got'[c][i][2]].tenant = OwnTenant(c)
            /\ NotAfter(got'[c][i], n, next)
      <4> SUFFICES ASSUME NEW i \in DOMAIN got'[c]
                   PROVE  /\ got'[c][i][1] <= opened
                          /\ store # None => got'[c][i][1] <= store
                          /\ got'[c][i][2] <= Len(log[got'[c][i][1]])
                          /\ log[got'[c][i][1]][got'[c][i][2]].tenant
                               = OwnTenant(c)
                          /\ NotAfter(got'[c][i], n, next)
        OBVIOUS
      <4>1. i \in 1..Len(got[c]) \/ i = Len(got[c]) + 1
        BY <1>11, <2>1
      <4>2. CASE i = Len(got[c]) + 1
        <5>1. got'[c][i] = frame
          BY <1>11, <2>1, <4>2
        <5>. QED  BY <1>10, <3>3, <5>1, Zenon
      <4>. QED  BY <3>2, <4>1, <4>2
    <3>. QED  BY <1>5, <1>8, <1>10, <3>1, <3>4 DEF GotInv, NotAfter
  <2>2. CASE ~pass
    BY <1>5, <1>6, <1>8, <2>2 DEF HInv, ClientInv, GotInv, NotAfter
  <2>. QED  BY <2>1, <2>2
<1>14. Ordered(c)'
  <2>1. CASE pass
    <3>1. ASSUME NEW i \in 1..(Len(got'[c]) - 1)
          PROVE  \/ got'[c][i][1] < got'[c][i + 1][1]
                 \/ /\ got'[c][i][1] = got'[c][i + 1][1]
                    /\ got'[c][i][2] < got'[c][i + 1][2]
      <4>1. CASE i = Len(got[c])
        BY <1>10, <1>11, <2>1, <4>1
      <4>2. CASE i # Len(got[c])
        <5>1. i \in 1..(Len(got[c]) - 1) /\ i + 1 \in 1..Len(got[c])
              /\ i \in 1..Len(got[c])
          BY <1>11, <2>1, <4>2
        <5>2. got'[c][i] = got[c][i] /\ got'[c][i + 1] = got[c][i + 1]
          BY <1>11, <2>1, <5>1
        <5>. QED  BY <5>1, <5>2 DEF HInv, ClientInv, Ordered
      <4>. QED  BY <4>1, <4>2
    <3>. QED  BY <3>1 DEF Ordered
  <2>2. CASE ~pass
    BY <1>6, <2>2 DEF HInv, ClientInv, Ordered
  <2>. QED  BY <2>1, <2>2
<1>15. Reached(c)'
  BY <1>4, <1>5 DEF HInv, ClientInv, Reached, n
<1>16. Complete(c)'
  <2> DEFINE own == {k \in (conn[c].from + 1)..conn[c].cursor :
                       log[n][k].tenant = conn[c].tenant}
             next_own == {k \in (conn[c].from + 1)..next :
                           log[n][k].tenant = conn[c].tenant}
  <2>1. {f \in ToSet(got[c]) : f[1] = n /\ f[2] > conn[c].from}
          = {<<n, i>> : i \in own}
    BY <1>1 DEF HInv, ClientInv, Complete, n
  <2>2. (conn[c].from + 1)..next = (conn[c].from + 1)..conn[c].cursor \cup {next}
    BY <1>2, <1>3 DEF next
  <2>3. next_own = IF pass THEN own \cup {next} ELSE own
    BY <1>7, <2>2
  <2>4. ToSet(got'[c]) = IF pass THEN ToSet(got[c]) \cup {frame} ELSE ToSet(got[c])
    <3>1. CASE pass
      BY <1>11, <3>1, SMTT(30) DEF ToSet
    <3>2. CASE ~pass
      BY <1>6, <3>2
    <3>. QED  BY <3>1, <3>2
  <2>5. frame[1] = n /\ frame[2] > conn[c].from
    BY <1>2, <1>3, <1>10
  <2>6. {f \in ToSet(got'[c]) : f[1] = n /\ f[2] > conn[c].from}
          = {<<n, i>> : i \in next_own}
    <3> HIDE DEF own, next_own
    <3>1. CASE pass
      <4>1. {f \in ToSet(got'[c]) : f[1] = n /\ f[2] > conn[c].from}
              = {f \in ToSet(got[c]) : f[1] = n /\ f[2] > conn[c].from}
                  \cup {frame}
        BY <2>4, <2>5, <3>1
      <4>. QED  BY <2>1, <2>3, <3>1, <4>1 DEF frame
    <3>2. CASE ~pass
      BY <2>1, <2>3, <2>4, <3>2
    <3>. QED  BY <3>1, <3>2
  <2>. QED  BY <1>4, <1>5, <2>6 DEF Complete
<1>. QED  BY <1>12, <1>13, <1>14, <1>15, <1>16 DEF ClientInv

\* The step of a stream keeps the invariant.
LEMMA StreamStep ==
  ASSUME HInv, NEW c \in Clients,
         \/ StreamAsked(c) \/ StreamSubscribes(c) \/ StreamDelivers(c)
         \/ StreamEnds(c) \/ StreamBreaks(c)
  PROVE  HInv'
<1>1. TypeOK'
  BY StreamType DEF HInv, ClientInv
<1>2. Stream
  BY DEF StreamAsked, StreamSubscribes, StreamDelivers, StreamEnds, StreamBreaks
<1>3. HostInv' /\ PostInv' /\ LiveIsDurable'
  BY <1>2 DEF Stream, host, HInv, HostInv, PostInv, RowsOf, LiveIsDurable
<1>4. ClientInv(c)'
  BY <1>2, AskedInv, SubscribedInv, DeliveredInv, AwayInv DEF StreamEnds,
     StreamBreaks
<1>5. ASSUME NEW d \in Clients, d # c PROVE ClientInv(d)'
  <2>1. conn'[d] = conn[d] /\ got'[d] = got[d]
    BY <1>5 DEF StreamAsked, StreamSubscribes, StreamDelivers, StreamEnds,
       StreamBreaks, HInv, TypeOK
  <2>. QED  BY <1>2, <2>1, OtherClients DEF HInv
<1>. QED  BY <1>1, <1>3, <1>4, <1>5 DEF HInv

\* Every step keeps the invariant.
LEMMA InvStep == HInv /\ [Next]_vars => HInv'
<1> SUFFICES ASSUME HInv, [Next]_vars PROVE HInv'
  OBVIOUS
<1>1. CASE \/ StartBegins \/ StartRefused \/ StartEnds \/ HookFails
           \/ StopBegins \/ StopEnds \/ StopIdle
  BY <1>1, HookInv
<1>2. ASSUME NEW p \in Posts,
             \/ \E body \in Bodies : PostArrives(p, body)
             \/ PostUnavailable(p) \/ PostResolves(p) \/ PostRefused(p)
             \/ PostWrites(p) \/ PostCommits(p) \/ PostPublishes(p) \/ PostFails(p)
      PROVE  HInv'
  BY <1>2, PostStep
<1>3. ASSUME NEW c \in Clients,
             \/ StreamAsked(c) \/ StreamSubscribes(c) \/ StreamDelivers(c)
             \/ StreamEnds(c) \/ StreamBreaks(c)
      PROVE  HInv'
  BY <1>3, StreamStep
<1>4. CASE UNCHANGED vars
  <2>1. UNCHANGED <<life, opened, store, resolver, stopped, replaced, db, log,
                    horizon, post, conn, got>>
    BY <1>4 DEF vars, host
  <2>2. TypeOK'
    BY <2>1, SameWidth DEF HInv, TypeOK
  <2>3. HostInv' /\ PostInv' /\ LiveIsDurable'
    BY <2>1 DEF HInv, HostInv, PostInv, RowsOf, LiveIsDurable
  <2>4. \A c \in Clients : ClientInv(c)'
    BY <2>1 DEF HInv, ClientInv, ConnInv, GotInv, Complete, Ordered, Reached,
       NotAfter, OwnTenant, LastSeen
  <2>. QED  BY <2>2, <2>3, <2>4 DEF HInv
<1>. QED  BY <1>1, <1>2, <1>3, <1>4 DEF Next

(***************************************************************************)
(* What follows from it.                                                   *)
(***************************************************************************)

\* The invariant holds in every state.
THEOREM HostInvariance == Spec => []HInv
BY InvInit, InvStep, PTL DEF Spec

\* Every variable keeps its type.
THEOREM HostTypeCorrect == Spec => []TypeOK
<1>1. HInv => TypeOK
  BY DEF HInv
<1>. QED  BY <1>1, HostInvariance, PTL

\* Whatever is published is committed (ingest, store.py:191-198), through any
\* interleaving of handlers, failures and restarts of the host.
THEOREM PublishedIsDurable == Spec => []LiveIsDurable
<1>1. HInv => LiveIsDurable
  BY DEF HInv
<1>. QED  BY <1>1, HostInvariance, PTL

\* Every stream, and all that its client was ever sent, is its caller's
\* (stream and event_stream, endpoints.py:102-112, 202-224).
THEOREM StreamsOfTheirCallers == Spec => []StreamsAreScoped
<1>1. HInv => StreamsAreScoped
  BY DEF HInv, ClientInv, ConnInv, GotInv, StreamsAreScoped, ToSet
<1>. QED  BY <1>1, HostInvariance, PTL

\* From the place it joined at a connection misses none of its tenant's frames
\* (publish, subscribe and event_stream together).
THEOREM NothingMissed == Spec => []StreamsAreComplete
<1>1. HInv => StreamsAreComplete
  BY DEF HInv, ClientInv, Complete, StreamsAreComplete
<1>. QED  BY <1>1, HostInvariance, PTL

\* Over all its reconnections a client gets no frame twice, and none after a
\* newer one (Last-Event-ID, backplane.py:14-16).
THEOREM NothingTwiceNorLate == Spec => []NeverTwice
<1>1. HInv => NeverTwice
  BY DEF HInv, ClientInv, Ordered, NeverTwice
<1>. QED  BY <1>1, HostInvariance, PTL

\* A stop reaches every registered reader (stop, backplane.py:108-113).
THEOREM StopReaches == Spec => []StopReachesRegistered
<1>1. HInv => StopReachesRegistered
  BY DEF HInv, ClientInv, Reached, StopReachesRegistered
<1>. QED  BY <1>1, HostInvariance, PTL

\* A reader is left behind only by a stop it came too late for, or by a start
\* with no stop before it (feature.py:118).
THEOREM LeftBehindByRestartOnly == Spec => []LeftBehindOnlyByRestart
<1>1. HInv => LeftBehindOnlyByRestart
  BY DEF HInv, ClientInv, ConnInv, Reached, LeftBehindOnlyByRestart
<1>. QED  BY <1>1, HostInvariance, PTL

\* A handler that began with the present store resolves its caller's tenant.
LEMMA ResolvesOwn ==
  ASSUME HInv, [Next]_vars, NEW p \in Posts,
         post[p].at = "reading", post'[p].at = "resolved"
  PROVE  post'[p].tenant # OwnTenant(p) => post[p].store # store
<1>1. PostResolves(p)
  <2>1. post \in [Posts -> Handler] /\ post[p] \in Handler
    BY DEF HInv, TypeOK
  <2>2. post' # post
    OBVIOUS
  <2>3. PICK q \in Posts :
          \/ \E body \in Bodies : PostArrives(q, body)
          \/ PostUnavailable(q) \/ PostResolves(q) \/ PostRefused(q)
          \/ PostWrites(q) \/ PostCommits(q) \/ PostPublishes(q) \/ PostFails(q)
    BY <2>2 DEF Next, vars, StartBegins, StartRefused, StartEnds, HookFails,
       StopBegins, StopEnds, StopIdle, Hook, StreamAsked, StreamSubscribes,
       StreamDelivers, StreamEnds, StreamBreaks, Stream
  <2>4. q = p
    BY <2>1, <2>3 DEF PostArrives, PostUnavailable, PostResolves, PostRefused,
       PostWrites, PostCommits, PostPublishes, PostFails
  <2>5. CASE ~PostResolves(q)
    <3>1. post'[p].at \in {"reading", "refused", "writing", "committed", "done",
                           "failed"}
      BY <2>1, <2>3, <2>4, <2>5 DEF PostArrives, NewPost, PostUnavailable,
         PostRefused, PostWrites, PostCommits, PostPublishes, PostFails, Handler
    <3>. QED  BY <3>1
  <2>. QED  BY <2>4, <2>5
<1>2. post'[p].tenant = ResolvedTenant(p)
  BY <1>1 DEF PostResolves, HInv, TypeOK, Handler
<1>3. post[p].store # None
  BY DEF HInv, PostInv
<1>4. store # None => ResolvedTenant(p) = OwnTenant(p)
  BY DEF HInv, HostInv, ResolvedTenant, OwnTenant
<1>. QED  BY <1>2, <1>3, <1>4

\* A POST is bound to another tenant than its caller's only if its store is no
\* longer the host's (post_events, endpoints.py:143-161).
THEOREM MisfiledOnlyByStop == Spec => MisfiledOnlyAcrossStop
<1>1. HInv /\ [Next]_vars =>
        [\A p \in Posts :
           post[p].at = "reading" /\ post'[p].at = "resolved"
             /\ post'[p].tenant # OwnTenant(p) => post[p].store # store]_vars
  BY ResolvesOwn
<1>. QED  BY <1>1, HostInvariance, PTL DEF Spec, MisfiledOnlyAcrossStop

\* A client that resumes on the backplane of its last frame skips none of its
\* frames that are still buffered (subscribe, backplane.py:125-131).
LEMMA ResumesBehind ==
  ASSUME HInv, NEW c \in Clients, StreamSubscribes(c),
         conn[c].last # 0, Last(got[c])[1] = conn[c].store
  PROVE  SkippedBy(c, conn[c].store, conn'[c].from) = {}
<1> DEFINE n == conn[c].store
           last == Last(got[c])
           start == JoinPoint(n, conn[c].last)
<1>1. /\ n \in Incarnations /\ conn[c].at = "asked" /\ conn[c] \in Connection
      /\ conn[c].last = LastSeen(c)
  BY ConnStore DEF StreamSubscribes, HInv, ClientInv, ConnInv, TypeOK
<1>2. /\ got[c] # <<>> /\ Len(got[c]) \in DOMAIN got[c]
      /\ conn[c].last = last[2] /\ last \in ToSet(got[c])
  <2>1. got[c] # <<>>
    BY <1>1 DEF LastSeen
  <2>2. got[c] \in Seq(Incarnations \X (Nat \ {0}))
    BY DEF HInv, TypeOK
  <2>3. Len(got[c]) \in DOMAIN got[c]
    BY <2>1, <2>2, LenProperties
  <2>. QED  BY <1>1, <2>1, <2>3 DEF LastSeen, Last, ToSet
<1>3. last[2] \in Nat \ {0} /\ last[2] <= Len(log[n])
  BY <1>2, GotType DEF HInv, ClientInv, GotInv, Last
<1>4. conn'[c].from = start
  <2>1. conn'[c] = [conn[c] EXCEPT !.at = "open", !.from = start,
                                   !.cursor = start, !.late = n \in stopped]
    BY DEF StreamSubscribes, HInv, TypeOK
  <2> HIDE DEF start
  <2>. QED  BY <1>1, <2>1 DEF Connection
<1>5. /\ Len(log[n]) \in Nat /\ horizon[n] \in Nat
      /\ start = last[2] \/ start = horizon[n]
  <2>1. Len(log[n]) \in Nat /\ horizon[n] \in Nat
    BY <1>1, LenProperties DEF HInv, TypeOK
  <2>. QED  BY <1>2, <1>3, <2>1 DEF JoinPoint
<1> HIDE DEF start, last
<1>6. ASSUME NEW i \in SkippedBy(c, n, start) PROVE FALSE
  <2>1. /\ i \in (horizon[n] + 1)..start
        /\ last[1] # n \/ last[2] < i
    BY <1>2, <1>6 DEF SkippedBy
  <2>2. last[1] = n
    BY DEF last
  <2>. QED  BY <1>3, <1>5, <2>1, <2>2
<1>. QED  BY <1>4, <1>6

\* The same of every step (subscribe, Last-Event-ID).
THEOREM ResumptionKeepsBuffered == Spec => ResumeKeepsBuffered
<1>1. ASSUME HInv, [Next]_vars, NEW c \in Clients, Resumes(c)
      PROVE  StreamSubscribes(c)
  <2>1. /\ conn \in [Clients -> Connection] /\ conn[c].at = "asked"
        /\ conn'[c].at = "open"
    BY <1>1 DEF Resumes, HInv, TypeOK
  <2>2. conn' # conn
    BY <2>1
  <2>3. CASE StopBegins
    BY <2>1, <2>3 DEF StopBegins, StopBackplane
  <2>4. CASE \E d \in Clients :
               \/ StreamAsked(d) \/ StreamSubscribes(d) \/ StreamDelivers(d)
               \/ StreamEnds(d) \/ StreamBreaks(d)
    <3>1. PICK d \in Clients :
               \/ StreamAsked(d) \/ StreamSubscribes(d) \/ StreamDelivers(d)
               \/ StreamEnds(d) \/ StreamBreaks(d)
      BY <2>4
    <3>2. d = c
      BY <2>1, <3>1 DEF StreamAsked, StreamSubscribes, StreamDelivers,
         StreamEnds, StreamBreaks
    <3>. QED  BY <2>1, <3>1, <3>2 DEF StreamAsked, StreamSubscribes,
           StreamDelivers, Ready, StreamEnds, StreamBreaks, Away
  <2>. QED  BY <1>1, <2>2, <2>3, <2>4 DEF Next, vars, StartBegins, StartRefused,
         StartEnds, HookFails, StopEnds, StopIdle, PostArrives,
         PostUnavailable, PostResolves, PostRefused, PostWrites, PostCommits,
         PostPublishes, PostFails, Outside
<1>2. HInv /\ [Next]_vars =>
        [\A c \in Clients :
           Resumes(c) /\ Last(got[c])[1] = conn[c].store =>
             SkippedBy(c, conn[c].store, conn'[c].from) = {}]_vars
  BY <1>1, ResumesBehind DEF Resumes
<1>. QED  BY <1>2, HostInvariance, PTL DEF Spec, ResumeKeepsBuffered
=============================================================================
