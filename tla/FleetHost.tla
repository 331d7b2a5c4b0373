------------------------------ MODULE FleetHost ------------------------------
(***************************************************************************)
(* The host feature (feature.py) with the request handlers it mounts       *)
(* (endpoints.py) and the write path of its store (store.py).              *)
(*                                                                         *)
(* A handler is a coroutine: it is cut into the steps between its awaits,  *)
(* and between two of them every other handler and the host's lifecycle    *)
(* hooks may run.  What a handler read before an await (the store, the     *)
(* tenant) it keeps.  Each on_host_start makes a new store with a new      *)
(* backplane: an incarnation.  A backplane is used here as the feed of     *)
(* module Feed, which module Backplane implements: a log, a replay         *)
(* horizon, and one cursor per reader.                                     *)
(*                                                                         *)
(* The host awaits a lifecycle hook before it calls the next one.          *)
(***************************************************************************)
EXTENDS Integers, Sequences, FiniteSets, SequencesExt

CONSTANTS
  Posts,       \* calls of POST /events
  Clients,     \* clients of GET /stream, one connection at a time each
  Tenants,     \* what a tenant resolver can answer, Default among them
  Default,     \* the store's zero-config tenant
  NoTenant,    \* the resolver's None
  Caller,      \* who calls: Posts and Clients -> Tenants or NoTenant
  Configured,  \* whether the host's config has a tenant resolver
  Bodies,      \* bodies of POST /events: per event, is it valid; <<>> is none
  Retain,      \* length of the replay ring
  MaxStarts    \* bound on the calls of on_host_start

None == 0      \* no store: incarnations are numbered from 1

Incarnations == 1..MaxStarts
Row == [post : Posts, index : Nat \ {0}, tenant : Tenants]

ASSUME CallerAssumption ==
  /\ Caller \in [Posts \cup Clients -> Tenants \cup {NoTenant}]
  /\ Default \in Tenants /\ NoTenant \notin Tenants
ASSUME BoundsAssumption ==
  /\ Retain \in Nat /\ MaxStarts \in Nat /\ Configured \in BOOLEAN
  /\ Bodies \subseteq Seq(BOOLEAN)

VARIABLES
  life,      \* the hook in progress: "idle", "starting" or "stopping"
  opened,    \* number of incarnations so far
  store,     \* FleetObservabilityHostFeature._store
  resolver,  \* is _tenant_resolver set
  stopped,   \* the incarnations whose backplane was stopped
  replaced,  \* history: those whose store a later start overwrote
  db,        \* the committed rows, of the one database all incarnations use
  log,       \* incarnation -> the rows its backplane published
  horizon,   \* incarnation -> last position that cannot be replayed
  post,      \* the handler of each POST: [at, store, tenant, body]
  conn,      \* the stream of each client: [at, store, last, tenant, from,
             \*   cursor, limit, late]; `from` and `late` are history
  got        \* client -> the frames it received: <<incarnation, position>>

host == <<life, opened, store, resolver, stopped, replaced>>
vars == <<host, db, log, horizon, post, conn, got>>

NewPost == [at |-> "new", store |-> None, tenant |-> NoTenant, body |-> <<>>]
Away == [at |-> "away", store |-> None, last |-> 0, tenant |-> NoTenant,
         from |-> 0, cursor |-> 0, limit |-> 0, late |-> FALSE]

Handler ==
  [at : {"new", "reading", "resolved", "writing", "committed", "done",
         "refused", "failed"},
   store : 0..opened, tenant : Tenants \cup {NoTenant},
   body : Bodies \cup {<<>>}]

Connection ==
  [at : {"away", "asked", "open", "closing"}, store : 0..opened, last : Nat,
   tenant : Tenants \cup {NoTenant}, from : Nat, cursor : Nat, limit : Nat,
   late : BOOLEAN]

TypeOK ==
  /\ life \in {"idle", "starting", "stopping"}
  /\ opened \in 0..MaxStarts
  /\ store \in 0..opened
  /\ resolver \in BOOLEAN
  /\ stopped \subseteq 1..opened
  /\ replaced \subseteq 1..opened
  /\ db \subseteq Row
  /\ log \in [Incarnations -> Seq(Row)]
  /\ horizon \in [Incarnations -> Nat]
  /\ post \in [Posts -> Handler]
  /\ conn \in [Clients -> Connection]
  /\ got \in [Clients -> Seq(Incarnations \X (Nat \ {0}))]

Init ==
  /\ life = "idle" /\ opened = 0 /\ store = None /\ resolver = FALSE
  /\ stopped = {} /\ replaced = {}
  /\ db = {}
  /\ log = [n \in Incarnations |-> <<>>]
  /\ horizon = [n \in Incarnations |-> 0]
  /\ post = [p \in Posts |-> NewPost]
  /\ conn = [c \in Clients |-> Away]
  /\ got = [c \in Clients |-> <<>>]

-----------------------------------------------------------------------------
\* The host's lifecycle.

Hook == UNCHANGED <<db, post, got>>

\* on_host_start up to its first suspension, in _ensure_schema: the resolver is
\* adopted and the new backplane exists.  Nothing looks whether a store is
\* already open.
StartBegins ==
  /\ life = "idle" /\ opened < MaxStarts
  /\ life' = "starting"
  /\ opened' = opened + 1
  /\ resolver' = Configured
  /\ UNCHANGED <<store, stopped, replaced, log, horizon, conn>> /\ Hook

\* on_host_start raises before it awaits anything: the tenant id is malformed,
\* or create_pubsub refuses the backend, which is after the resolver is adopted.
StartRefused ==
  /\ life = "idle"
  /\ resolver' \in {resolver, Configured}
  /\ UNCHANGED <<life, opened, store, stopped, replaced, log, horizon, conn>>
  /\ Hook

\* open returns.  The store that was there, if any, is dropped as it is.
StartEnds ==
  /\ life = "starting"
  /\ life' = "idle"
  /\ store' = opened
  /\ replaced' = replaced \cup ({store} \ {None})
  /\ UNCHANGED <<opened, resolver, stopped, log, horizon, conn>> /\ Hook

\* A hook raises out of its await: of what follows it, nothing happens.
HookFails ==
  /\ life # "idle"
  /\ life' = "idle"
  /\ UNCHANGED <<opened, store, resolver, stopped, replaced, log, horizon, conn>>
  /\ Hook

\* Mutant of StopBackplane: nobody is told.
StopBackplaneQuietly(n) ==
  /\ stopped' = stopped \cup {n}
  /\ horizon' = [horizon EXCEPT ![n] = Len(log[n])]
  /\ UNCHANGED conn

\* Stopping a backplane: its open readers are owed what it published so far.
StopBackplane(n) ==
  /\ stopped' = stopped \cup {n}
  /\ horizon' = [horizon EXCEPT ![n] = Len(log[n])]
  /\ conn' = [c \in Clients |->
                IF conn[c].at = "open" /\ conn[c].store = n
                THEN [conn[c] EXCEPT !.at = "closing", !.limit = Len(log[n])]
                ELSE conn[c]]

\* Mutant of StopBegins: the resolver is dropped before the await.
StopDropsResolver ==
  /\ life = "idle" /\ store # None
  /\ life' = "stopping"
  /\ resolver' = FALSE
  /\ StopBackplane(store)
  /\ UNCHANGED <<opened, store, replaced, log>> /\ Hook

\* Mutant of StopBegins: the engine is disposed, the backplane left running.
StopDisposes ==
  /\ life = "idle" /\ store # None
  /\ life' = "stopping"
  /\ UNCHANGED <<opened, store, resolver, stopped, replaced, log, horizon, conn>>
  /\ Hook

\* on_host_stop up to the await of dispose; the store is still in place.
StopBegins ==
  /\ life = "idle" /\ store # None
  /\ life' = "stopping"
  /\ StopBackplane(store)
  /\ UNCHANGED <<opened, store, resolver, replaced, log>> /\ Hook

StopEnds ==
  /\ life = "stopping"
  /\ life' = "idle"
  /\ store' = None
  /\ resolver' = FALSE
  /\ UNCHANGED <<opened, stopped, replaced, log, horizon, conn>> /\ Hook

\* on_host_stop with no store, as after an on_host_start that failed.
StopIdle ==
  /\ life = "idle" /\ store = None
  /\ resolver' = FALSE
  /\ UNCHANGED <<life, opened, store, stopped, replaced, log, horizon, conn>>
  /\ Hook

-----------------------------------------------------------------------------
\* POST /events.

\* Mutant of ResolvedTenant: no fallback when the resolver answers None.
ResolvedWithoutFallback(x) == IF resolver THEN Caller[x] ELSE Default

\* _resolve_request_tenant, then the store's fallback to its default.
ResolvedTenant(x) ==
  IF resolver /\ Caller[x] # NoTenant THEN Caller[x] ELSE Default

Outside == UNCHANGED <<host, horizon, conn, got>>

\* The handler reads the store and awaits the body.
PostArrives(p, body) ==
  /\ post[p].at = "new" /\ store # None
  /\ post' = [post EXCEPT ![p] =
                [NewPost EXCEPT !.at = "reading", !.store = store, !.body = body]]
  /\ UNCHANGED <<db, log>> /\ Outside

PostUnavailable(p) ==
  /\ post[p].at = "new" /\ store = None
  /\ post' = [post EXCEPT ![p].at = "refused"]
  /\ UNCHANGED <<db, log>> /\ Outside

\* The body is there: the tenant is resolved, by now of the current host.
PostResolves(p) ==
  /\ post[p].at = "reading" /\ post[p].body # <<>>
  /\ post' = [post EXCEPT ![p].at = "resolved", ![p].tenant = ResolvedTenant(p)]
  /\ UNCHANGED <<db, log>> /\ Outside

\* Mutant of Valid: only the first event is validated.
FirstValid(p) == post[p].body[1]

\* _validate accepts every event of the batch.
Valid(p) == \A i \in DOMAIN post[p].body : post[p].body[i]

\* No events in the body, or _validate refuses one of them.
PostRefused(p) ==
  /\ \/ post[p].at = "reading" /\ post[p].body = <<>>
     \/ post[p].at = "resolved" /\ ~Valid(p)
  /\ post' = [post EXCEPT ![p].at = "refused"]
  /\ UNCHANGED <<db, log>> /\ Outside

\* ingest has built every row and awaits the database.
PostWrites(p) ==
  /\ post[p].at = "resolved" /\ Valid(p)
  /\ post' = [post EXCEPT ![p].at = "writing"]
  /\ UNCHANGED <<db, log>> /\ Outside

RowsOf(p) == [i \in DOMAIN post[p].body |->
                [post |-> p, index |-> i, tenant |-> post[p].tenant]]

\* Mutant of PostCommits: the rows are flushed, but not committed.
PostFlushes(p) ==
  /\ post[p].at = "writing"
  /\ post' = [post EXCEPT ![p].at = "committed"]
  /\ UNCHANGED <<db, log>> /\ Outside

\* The write session commits; the handler resumes some time later.
PostCommits(p) ==
  /\ post[p].at = "writing"
  /\ db' = db \cup ToSet(RowsOf(p))
  /\ post' = [post EXCEPT ![p].at = "committed"]
  /\ UNCHANGED log /\ Outside

\* Every created row is published, with no suspension in between, on the
\* backplane of the store the handler started with.
PostPublishes(p) ==
  LET n == post[p].store
      longer == log[n] \o RowsOf(p)
      oldest == Len(longer) - Retain IN
  /\ post[p].at = "committed"
  /\ log' = [log EXCEPT ![n] = longer]
  /\ horizon' = [horizon EXCEPT ![n] = IF oldest > @ THEN oldest ELSE @]
  /\ post' = [post EXCEPT ![p].at = "done"]
  /\ UNCHANGED <<host, db, conn, got>>

\* The handler is cancelled, or an await of it raises: the resolver's, the
\* database's before the commit, or the session's exit after it.
PostFails(p) ==
  /\ post[p].at \in {"reading", "resolved", "writing", "committed"}
  /\ post' = [post EXCEPT ![p].at = "failed"]
  /\ UNCHANGED <<db, log>> /\ Outside

-----------------------------------------------------------------------------
\* GET /stream.

Stream == UNCHANGED <<host, db, log, horizon, post>>

\* The id of the last frame the client received: its Last-Event-ID, or 0.
LastSeen(c) == IF got[c] = <<>> THEN 0 ELSE Last(got[c])[2]

\* The handler reads the store, the header and the tenant, and returns; the
\* generator it made has not subscribed yet.
StreamAsked(c) ==
  /\ conn[c].at = "away" /\ store # None
  /\ conn' = [conn EXCEPT ![c] =
                [Away EXCEPT !.at = "asked", !.store = store,
                             !.last = LastSeen(c), !.tenant = ResolvedTenant(c)]]
  /\ UNCHANGED got /\ Stream

\* Mutants of JoinPoint: the last frame seen is replayed again, or nothing is.
JoinPointInclusive(n, last) ==
  IF last = 0 \/ last > Len(log[n]) THEN Len(log[n])
  ELSE IF last - 1 > horizon[n] THEN last - 1 ELSE horizon[n]

JoinPointLive(n, last) == Len(log[n])

\* Where a reader starts: at the end without a Last-Event-ID, else behind it
\* as far as the ring still reaches.
JoinPoint(n, last) ==
  IF last = 0 \/ last >= Len(log[n]) THEN Len(log[n])
  ELSE IF last > horizon[n] THEN last ELSE horizon[n]

\* The preamble is out and event_stream subscribes, to whatever has become of
\* the backplane of its store.
StreamSubscribes(c) ==
  LET n == conn[c].store
      start == JoinPoint(n, conn[c].last) IN
  /\ conn[c].at = "asked"
  /\ conn' = [conn EXCEPT ![c] =
                [@ EXCEPT !.at = "open", !.from = start, !.cursor = start,
                          !.late = n \in stopped]]
  /\ UNCHANGED got /\ Stream

\* Mutants of Ready: the newest frame waits for one more; what is queued at a
\* stop is not drained.
ReadyButLast(c) ==
  \/ conn[c].at = "open" /\ conn[c].cursor + 1 < Len(log[conn[c].store])
  \/ conn[c].at = "closing" /\ conn[c].cursor < conn[c].limit

ReadyWhileOpen(c) ==
  conn[c].at = "open" /\ conn[c].cursor < Len(log[conn[c].store])

\* A frame is queued for c.
Ready(c) ==
  \/ conn[c].at = "open" /\ conn[c].cursor < Len(log[conn[c].store])
  \/ conn[c].at = "closing" /\ conn[c].cursor < conn[c].limit

\* Mutants of Passes: the tenant is not compared; one frame a batch is sent.
PassesAny(c, row) == TRUE
PassesOncePerBatch(c, row) == row.tenant = conn[c].tenant /\ row.index = 1

\* The tenant filter of event_stream.
Passes(c, row) == row.tenant = conn[c].tenant

\* The next frame of the subscription: passed on if it is the tenant's.
StreamDelivers(c) ==
  LET n == conn[c].store
      next == conn[c].cursor + 1 IN
  /\ Ready(c)
  /\ conn' = [conn EXCEPT ![c].cursor = next]
  /\ got' = [got EXCEPT ![c] =
               IF Passes(c, log[n][next]) THEN Append(@, <<n, next>>) ELSE @]
  /\ Stream

StreamEnds(c) ==
  /\ conn[c].at = "closing" /\ conn[c].cursor = conn[c].limit
  /\ conn' = [conn EXCEPT ![c] = Away]
  /\ UNCHANGED got /\ Stream

\* The client goes away, at any point of the stream.
StreamBreaks(c) ==
  /\ conn[c].at # "away"
  /\ conn' = [conn EXCEPT ![c] = Away]
  /\ UNCHANGED got /\ Stream

Next ==
  \/ StartBegins \/ StartRefused \/ StartEnds \/ HookFails
  \/ StopBegins \/ StopEnds \/ StopIdle
  \/ \E p \in Posts :
       \/ \E body \in Bodies : PostArrives(p, body)
       \/ PostUnavailable(p) \/ PostResolves(p) \/ PostRefused(p)
       \/ PostWrites(p) \/ PostCommits(p) \/ PostPublishes(p) \/ PostFails(p)
  \/ \E c \in Clients :
       \/ StreamAsked(c) \/ StreamSubscribes(c) \/ StreamDelivers(c)
       \/ StreamEnds(c) \/ StreamBreaks(c)

Spec == Init /\ [][Next]_vars

\* The event loop resumes a handler whose await is over, and a generator whose
\* client reads.  Nothing forces the host, a new request, or a database.
Fairness ==
  /\ \A p \in Posts : WF_vars(PostPublishes(p))
  /\ \A c \in Clients : /\ WF_vars(StreamSubscribes(c))
                        /\ WF_vars(StreamDelivers(c))
                        /\ WF_vars(StreamEnds(c))

FairSpec == Spec /\ Fairness
-----------------------------------------------------------------------------
\* Properties.

\* The tenant a request of x belongs to.
OwnTenant(x) ==
  IF Configured /\ Caller[x] # NoTenant THEN Caller[x] ELSE Default

\* A frame seen live can be read back: nothing is published that is not
\* committed (ingest, store.py:191-198), so a panel that reconciles from
\* GET /events never has to take an event back.
LiveIsDurable == \A n \in Incarnations : ToSet(log[n]) \subseteq db

\* A batch is all or nothing (ingest, store.py:185-189): its rows are committed
\* together or not at all, never when one of its events is invalid, and they
\* are published once, together and in batch order, never interleaved with
\* another batch.
BatchesAreWhole ==
  \A p \in Posts :
    LET rows == RowsOf(p)
        stored == {row \in db : row.post = p} IN
    /\ stored \in {{}, ToSet(rows)}
    /\ stored # {} => FALSE \notin ToSet(post[p].body)
    /\ post[p].at \in {"committed", "done"} => stored # {}
    /\ post[p].at \notin {"committed", "done", "failed"} => stored = {}
    /\ \A n \in Incarnations :
         LET places == {i \in DOMAIN log[n] : log[n][i].post = p} IN
         IF post[p].at = "done" /\ n = post[p].store
         THEN \E i \in places : /\ places = i..(i + Len(rows) - 1)
                                /\ SubSeq(log[n], i, i + Len(rows) - 1) = rows
         ELSE places = {}

\* A stream is its caller's (stream, endpoints.py:202-224; event_stream:
\* "a subscriber only sees frames for its resolved tenant"): whatever the host
\* does between the request, the subscription and the frames, the tenant is
\* the caller's, and so is every row it was ever sent.
StreamsAreScoped ==
  \A c \in Clients :
    /\ conn[c].at # "away" => conn[c].tenant = OwnTenant(c)
    /\ \A f \in ToSet(got[c]) : log[f[1]][f[2]].tenant = OwnTenant(c)

\* From the place it joined at, a connection misses none of its tenant's frames
\* up to where it stands, across publications, stops and other tenants' frames.
StreamsAreComplete ==
  \A c \in Clients :
    LET n == conn[c].store IN
    conn[c].at \in {"open", "closing"} =>
      {f \in ToSet(got[c]) : f[1] = n /\ f[2] > conn[c].from}
        = {<<n, i>> : i \in {k \in (conn[c].from + 1)..conn[c].cursor :
                               log[n][k].tenant = conn[c].tenant}}

\* Over all its reconnections, restarts of the host included, a client gets no
\* frame twice and none after a newer one (Last-Event-ID, backplane.py:14-16).
NeverTwice ==
  \A c \in Clients : \A i \in 1..(Len(got[c]) - 1) :
    LET f == got[c][i]  g == got[c][i + 1] IN
    f[1] < g[1] \/ (f[1] = g[1] /\ f[2] < g[2])

\* A stop reaches every reader that is registered: one that is still open on a
\* stopped backplane subscribed after the stop (stop, backplane.py:108-113).
StopReachesRegistered ==
  \A c \in Clients :
    conn[c].at = "open" /\ conn[c].store \in stopped => conn[c].late

\* A reader that is still registered but not on the host's store, so that it
\* hears of nothing the host takes in from now on, either subscribed after the
\* stop of its backplane, or was overtaken by an on_host_start with no stop
\* before it (feature.py:118 assigns the store without closing the old one).
LeftBehindOnlyByRestart ==
  \A c \in Clients :
    conn[c].at = "open" /\ conn[c].store # store =>
      conn[c].late \/ conn[c].store \in replaced

\* A POST is bound to a tenant other than its caller's only if the store it
\* began with is no longer the host's (post_events reads the one before and
\* the other after the await of the body, endpoints.py:143-161).
MisfiledOnlyAcrossStop ==
  [][\A p \in Posts :
       post[p].at = "reading" /\ post'[p].at = "resolved"
         /\ post'[p].tenant # OwnTenant(p) => post[p].store # store]_vars

\* The frames of incarnation n, newer than all that c received, that a
\* subscription of c joining behind `from` skips though they could be replayed.
SkippedBy(c, n, from) ==
  {i \in (horizon[n] + 1)..from :
     /\ log[n][i].tenant = OwnTenant(c)
     /\ \A f \in ToSet(got[c]) : f[1] # n \/ f[2] < i}

Resumes(c) == conn[c].at = "asked" /\ conn'[c].at = "open" /\ conn[c].last # 0

\* A client that resumes on the backplane its last frame came from skips none
\* of its frames that are still buffered, although it asked, and the ring moved
\* on, before it was subscribed (subscribe, backplane.py:125-131).
ResumeKeepsBuffered ==
  [][\A c \in Clients :
       Resumes(c) /\ Last(got[c])[1] = conn[c].store =>
         SkippedBy(c, conn[c].store, conn'[c].from) = {}]_vars

\* What is committed reaches the readers that are there: unless its handler
\* fails, every row of a batch reaches each stream of the batch's tenant that
\* is open on the same backplane when the batch is published, or the stream
\* ends (ingest, publish and event_stream together).
CommitReachesReaders ==
  \A p \in Posts : \A c \in Clients :
    (/\ post[p].at = "committed" /\ conn[c].at = "open"
     /\ conn[c].store = post[p].store /\ conn[c].tenant = post[p].tenant)
      ~> \/ post[p].at = "failed" \/ conn[c].at \in {"closing", "away"}
         \/ ToSet(RowsOf(p)) \subseteq
              {log[f[1]][f[2]] : f \in ToSet(got[c])}

\* A reader that was told to end does, once it has been sent what it is owed.
ClosingStreamsEnd ==
  \A c \in Clients : conn[c].at = "closing" ~> conn[c].at = "away"

-----------------------------------------------------------------------------
\* What the documentation says and the code does not do.

\* endpoints.py:124-125: the tenant resolver "resolves each request to its
\* tenant so ingest/query/stream are isolated per caller".
PostsAreScoped ==
  \A p \in Posts :
    post[p].at \in {"resolved", "writing", "committed", "done"} =>
      post[p].tenant = OwnTenant(p)

\* backplane.py:80: stop will "disconnect all subscribers": whoever reads from
\* a stopped backplane is eventually disconnected.
StopDisconnectsAll ==
  \A c \in Clients :
    (conn[c].at = "open" /\ conn[c].store \in stopped) ~> conn[c].at = "away"

\* backplane.py:10-16: ids are monotonic "so a reconnecting client can resume":
\* a client that resumes skips none of its frames that are still buffered.
ResumeKeepsAllBuffered ==
  [][\A c \in Clients :
       Resumes(c) => SkippedBy(c, conn[c].store, conn'[c].from) = {}]_vars
=============================================================================
