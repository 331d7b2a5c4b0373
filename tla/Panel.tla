-------------------------------- MODULE Panel --------------------------------
(***************************************************************************)
(* The swimlane panel in the browser (swimlane.js) against the server it   *)
(* reads from.  One list of events has several writers: the snapshot that  *)
(* GET /events answers, asked for by the connection loop, by the poll      *)
(* timer and by the host's refresh, and the frames of GET /stream.  Each   *)
(* fetch is cut where it is awaited: a request is sent, the server reads,  *)
(* the answer is applied.                                                  *)
(*                                                                         *)
(* An event is the rank of its timestamp, so that "newest" is "greatest".  *)
(* Every event has an id and an agent (the store requires them), and a row *)
(* is in an answer once, so the tests for their absence and the            *)
(* deduplication of an answer have nothing to do and are left out.  The    *)
(* server is the store and its feed for one tenant; Restart closes one     *)
(* store and opens the next.                                               *)
(***************************************************************************)
EXTENDS Integers, Sequences, FiniteSets

CONSTANTS
  MaxEvents,   \* bound on the number of events stored
  Retain,      \* length of the server's replay ring
  QueryLimit,  \* the limit fetchEvents asks for (1000)
  MaxShown,    \* the most events mergeEvent keeps (3000)
  Others,      \* bound: reconciliations of the poll and of refresh in flight
  MaxFaults    \* bound on failed fetches, broken streams and restarts

Loop == "loop"           \* the reconciliation of the connection loop
Requests == Others \cup {Loop}
Events == 1..MaxEvents

ASSUME LimitsAssumption ==
  /\ MaxEvents \in Nat /\ Retain \in Nat /\ MaxFaults \in Nat
  /\ QueryLimit \in Nat /\ MaxShown \in Nat /\ QueryLimit <= MaxShown
  /\ Loop \notin Others

VARIABLES
  stored,       \* the committed events
  pending,      \* committed by a handler that has not published them yet
  frames,       \* the events the present backplane published; id = position
  events,       \* state.events
  live,         \* state.live
  lastEventId,  \* state.lastEventId, 0 when undefined
  destroyed,    \* destroyed
  aborted,      \* is the loop's present AbortController aborted
  loop,         \* where connectLive waits: "reconciling" for its snapshot,
                \*   "streaming", "backoff"; or it has returned: "ended"
  req,          \* each reconciliation: [at, rows]
  conn,         \* the stream: [at, last, pipe], the frames under way in pipe
  faults,       \* history: number of faults so far
  known,        \* history: is lastEventId an id of the present backplane
  clean         \* history: see ResumedIsComplete

server == <<stored, pending, frames>>
history == <<faults, known, clean>>
vars == <<server, events, live, lastEventId, destroyed, aborted, loop,
          req, conn, history>>

Idle == [at |-> "idle", rows |-> <<>>]
Asked == [at |-> "asked", rows |-> <<>>]
NoStream == [at |-> "none", last |-> 0, pipe |-> <<>>]

Shown == {events[i] : i \in DOMAIN events}

TypeOK ==
  /\ stored \subseteq Events
  /\ pending \subseteq stored
  /\ frames \in Seq(Events)
  /\ events \in Seq(Events) /\ Len(events) <= MaxShown
  /\ live \in BOOLEAN /\ destroyed \in BOOLEAN /\ aborted \in BOOLEAN
  /\ lastEventId \in Nat
  /\ loop \in {"reconciling", "streaming", "backoff", "ended"}
  /\ req \in [Requests ->
       [at : {"idle", "asked", "answered"}, rows : Seq(Events)]]
  /\ conn \in [at : {"none", "asked", "open", "ending"}, last : Nat,
               pipe : Seq((Nat \ {0}) \X Events)]
  /\ faults \in 0..MaxFaults
  /\ known \in BOOLEAN /\ clean \in BOOLEAN

\* mount: connectLive runs up to its first await.
Init ==
  /\ stored = {} /\ pending = {} /\ frames = <<>>
  /\ events = <<>> /\ live = FALSE /\ lastEventId = 0
  /\ destroyed = FALSE /\ aborted = FALSE
  /\ loop = "reconciling"
  /\ req = [r \in Requests |-> IF r = Loop THEN Asked ELSE Idle]
  /\ conn = NoStream
  /\ faults = 0 /\ known = FALSE /\ clean = TRUE

-----------------------------------------------------------------------------
\* The server.

Fault == faults < MaxFaults /\ faults' = faults + 1

panel == <<events, live, lastEventId, destroyed, aborted, loop, req>>

\* The transaction of ingest.
Commit(e) ==
  /\ e \notin stored
  /\ stored' = stored \cup {e}
  /\ pending' = pending \cup {e}
  /\ UNCHANGED <<frames, panel, conn, history>>

\* publish, in whatever order the handlers resume after their commits.
Publish(e) ==
  /\ e \in pending
  /\ pending' = pending \ {e}
  /\ frames' = Append(frames, e)
  /\ conn' = IF conn.at = "open"
             THEN [conn EXCEPT !.pipe = Append(@, <<Len(frames) + 1, e>>)]
             ELSE conn
  /\ UNCHANGED <<stored, panel, history>>

\* The store is closed and a new one opened.  The stream is ended behind what
\* was queued for it; handlers between commit and publication publish to the
\* old backplane, which nobody reads any more.
Restart ==
  /\ Fault
  /\ pending' = {}
  /\ frames' = <<>>
  /\ conn' = IF conn.at = "open" THEN [conn EXCEPT !.at = "ending"] ELSE conn
  /\ known' = FALSE /\ clean' = FALSE
  /\ UNCHANGED <<stored, panel>>

\* The rows query selects: the newest QueryLimit ...
Newest(S) == {e \in S : Cardinality({f \in S : f > e}) < QueryLimit}

\* ... newest first.
NewestFirst(S) ==
  [i \in 1..Cardinality(S) |->
     CHOOSE e \in S : Cardinality({f \in S : f > e}) = i - 1]

\* GET /events reads the table; its answer is on its way to the browser.
QueryReads(r) ==
  /\ req[r].at = "asked"
  /\ req' = [req EXCEPT ![r] = [at |-> "answered",
                                rows |-> NewestFirst(Newest(stored))]]
  /\ UNCHANGED <<server, events, live, lastEventId, destroyed, aborted, loop,
                 conn, history>>

\* The frames a subscription starts with: what the ring still holds after the
\* header's id; without a header, none.
Backlog(last) ==
  LET missed == {i \in DOMAIN frames : last # 0 /\ i > last
                                       /\ i > Len(frames) - Retain}
      from == Len(frames) - Cardinality(missed)
  IN  [k \in 1..Cardinality(missed) |-> <<from + k, frames[from + k]>>]

\* GET /stream subscribes to the backplane.
StreamOpens ==
  /\ conn.at = "asked"
  /\ conn' = [conn EXCEPT !.at = "open", !.pipe = Backlog(conn.last)]
  /\ clean' = (clean /\ known /\ lastEventId + Retain >= Len(frames))
  /\ UNCHANGED <<server, panel, faults, known>>
-----------------------------------------------------------------------------
\* The panel: reconciliation.

\* Mutant of Again: the loop does not look whether the panel is destroyed.
AgainAlways == TRUE

\* The condition of the connection loop.
Again == ~destroyed

\* Mutant of Header: the id is not sent.
NoHeader == 0

\* The Last-Event-ID of the next request, if any.
Header == lastEventId

\* What follows the reconciliation r was part of.  The loop asks for the
\* stream, with the signal of the controller it made before: fetch rejects when
\* that is aborted, and the loop returns.
Continue(r) ==
  IF r = Loop
  THEN IF aborted
       THEN loop' = "ended" /\ UNCHANGED conn
       ELSE /\ loop' = "streaming"
            /\ conn' = [NoStream EXCEPT !.at = "asked", !.last = Header]
  ELSE UNCHANGED <<loop, conn>>

\* The answer replaces the list, whatever was merged since it was read.
Reconcile(r) ==
  /\ req[r].at = "answered"
  /\ events' = req[r].rows
  /\ req' = [req EXCEPT ![r] = Idle]
  /\ Continue(r)
  /\ UNCHANGED <<server, live, lastEventId, destroyed, aborted, history>>

\* The fetch fails: the list stays as it is.
ReconcileFails(r) ==
  /\ req[r].at # "idle"
  /\ Fault
  /\ req' = [req EXCEPT ![r] = Idle]
  /\ clean' = FALSE
  /\ Continue(r)
  /\ UNCHANGED <<server, events, live, lastEventId, destroyed, aborted, known>>

Ask(r) ==
  /\ req[r].at = "idle"
  /\ req' = [req EXCEPT ![r] = Asked]
  /\ clean' = FALSE
  /\ UNCHANGED <<server, events, live, lastEventId, destroyed, aborted, loop,
                 conn, faults, known>>

\* Mutant of PollDue: the test of the flag is inverted.
PollWhenLive == ~destroyed /\ live

\* The timer is cleared by destroy; it fetches only while the panel polls.
PollDue == ~destroyed /\ ~live

Poll(r) == PollDue /\ Ask(r)

\* The host asks for a refresh, at any time.
Refresh(r) == Ask(r)

-----------------------------------------------------------------------------
\* The panel: the stream.

\* Mutant of Trimmed: nothing is cut.
Untrimmed(list) == list

\* What splice keeps of the list: the MaxShown entries added last.
Trimmed(list) ==
  IF Len(list) > MaxShown
  THEN SubSeq(list, Len(list) - MaxShown + 1, Len(list))
  ELSE list

\* Mutant of Merge: events are not looked up before they are added.
MergeBlindly(e) == Trimmed(Append(events, e))

\* mergeEvent
Merge(e) == IF e \in Shown THEN events ELSE Trimmed(Append(events, e))

\* A frame is read, even one that arrived just before an abort.
FrameArrives ==
  /\ loop = "streaming" /\ conn.pipe # <<>>
  /\ LET frame == Head(conn.pipe) IN
       /\ lastEventId' = frame[1]
       /\ events' = Merge(frame[2])
  /\ live' = TRUE
  /\ conn' = [conn EXCEPT !.pipe = Tail(@)]
  /\ known' = (conn.at = "open")
  /\ UNCHANGED <<server, destroyed, aborted, loop, req, faults, clean>>

\* Mutant of Offline: the flag is left as it is.
StillLive == UNCHANGED live

Offline == live' = FALSE

\* panel.stream returned or threw: wait and try again, unless destroyed.
StreamOver ==
  /\ loop = "streaming"
  /\ conn' = NoStream
  /\ Offline
  /\ loop' = IF destroyed THEN "ended" ELSE "backoff"
  /\ UNCHANGED <<server, events, lastEventId, destroyed, aborted, req, known,
                 clean>>

\* The server has ended the stream and everything it sent was read.
StreamEnds ==
  /\ conn.at = "ending" /\ conn.pipe = <<>>
  /\ StreamOver
  /\ UNCHANGED faults

\* The request is refused, or the stream breaks; what is under way is lost.
StreamFails == Fault /\ StreamOver

\* The fetch, or the read, rejects because destroy aborted it.
StreamAborted == aborted /\ StreamOver /\ UNCHANGED faults

\* The backoff is over: a new controller, and a snapshot before the stream.
BackoffEnds ==
  /\ loop = "backoff"
  /\ IF Again
     THEN /\ loop' = "reconciling"
          /\ aborted' = FALSE
          /\ req' = [req EXCEPT ![Loop] = Asked]
          /\ clean' = (\A r \in Others : req[r].at = "idle")
     ELSE loop' = "ended" /\ UNCHANGED <<aborted, req, clean>>
  /\ UNCHANGED <<server, events, live, lastEventId, destroyed, conn, faults,
                 known>>

\* Mutant of Abort: the controller is forgotten.
AbortNothing == UNCHANGED aborted

Abort == aborted' = TRUE

Destroy ==
  /\ ~destroyed
  /\ destroyed' = TRUE
  /\ Abort
  /\ UNCHANGED <<server, events, live, lastEventId, loop, req, conn, history>>

\* Every step but the timer's.
Steps ==
  \/ \E e \in Events : Commit(e) \/ Publish(e)
  \/ Restart
  \/ StreamOpens
  \/ \E r \in Requests : QueryReads(r) \/ Reconcile(r) \/ ReconcileFails(r)
  \/ \E r \in Others : Refresh(r)
  \/ FrameArrives
  \/ StreamEnds
  \/ StreamFails
  \/ StreamAborted
  \/ BackoffEnds
  \/ Destroy

Next == Steps \/ \E r \in Others : Poll(r)

Spec == Init /\ [][Next]_vars

\* The server answers what it was asked, the browser settles its fetches and
\* runs its timers; faults are finitely many.  Nobody has to write events,
\* to refresh, or to destroy the panel.
Fairness ==
  /\ \A r \in Requests : WF_vars(QueryReads(r)) /\ WF_vars(Reconcile(r))
  /\ \A r \in Others : WF_vars(Poll(r))
  /\ WF_vars(StreamOpens) /\ WF_vars(FrameArrives)
  /\ WF_vars(StreamEnds) /\ WF_vars(StreamAborted) /\ WF_vars(BackoffEnds)

FairSpec == Spec /\ Fairness
-----------------------------------------------------------------------------
\* Properties.

\* No event is listed twice, although snapshots and the frames that a resumed
\* stream replays overlap, and ids start anew with a restart (mergeEvent,
\* reconcile).
NothingTwice == \A i, j \in DOMAIN events : events[i] = events[j] => i = j

\* A reconnection leaves no hole: if the stream was resumed behind an id of the
\* present backplane that its ring could still serve, and the snapshot taken
\* before it was applied with no other reconciliation in flight (`clean`), then
\* every published event is listed or on its way, as long as one answer can
\* hold all events (connectLive against subscribe and query).
ResumedIsComplete ==
  (clean /\ conn.at = "open" /\ Cardinality(stored) <= QueryLimit) =>
    \A i \in DOMAIN frames :
      \/ frames[i] \in Shown
      \/ \E k \in DOMAIN conn.pipe : conn.pipe[k][2] = frames[i]

\* The list is marked live, and polling is off, only while the loop reads a
\* stream (connectLive, the timer of mount).
LiveIsStreaming == live => loop = "streaming"

\* A destroyed panel opens no stream any more, wherever the loop was waiting
\* when it was destroyed (destroy, connectLive).
DestroyedOpensNothing == [][destroyed => conn'.at = conn.at \/ conn'.at # "asked"]_vars

\* A panel that stays off live converges by polling: it lists the newest of
\* what is stored, whatever late answers were applied before (the timer of
\* mount, reconcile).
PollingConverges ==
  <>[](~destroyed /\ ~live) => <>[](Newest(stored) \subseteq Shown)

\* The loop of a destroyed panel returns (destroy, connectLive).
DestroyedLoopEnds == destroyed ~> loop = "ended"

\* What swimlane.js:673 calls the "reconciliation safety net": whatever the
\* stream misses is listed in the end.
SafetyNet == <>[]~destroyed => <>[](Newest(stored) \subseteq Shown)
=============================================================================
