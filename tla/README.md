# Fleet observability: a TLA+ verification project

This directory specifies and verifies the concurrent core of
`kestrel_feature_observability_fleet`: a host feature that stores telemetry
events of a fleet of agents, serves them per tenant, and streams them live to a
console panel. The reference is the source under `src/`; every definition of a
module that stands for code is listed with its lines in `PROJECT.json` ("map").

## 1. The system

Everything on the server runs on one asyncio event loop. A coroutine runs alone
until it suspends, so the unit of interleaving is the code between two awaits
that can really suspend.

| Component | State | Operations | Talks to |
|---|---|---|---|
| Backplane, `backplane.py` | subscriber set, replay ring, next id, started flag; per subscription a queue and a closed flag | `start`, `stop`, `publish`, `subscribe`, `aclose`, iteration | called by the store and by the stream handler |
| Event store, `store.py` | session factory, default tenant, its backplane | `open`, `close`, `ingest`, `query`, `tree` | database (external), backplane |
| Request handlers, `endpoints.py` | none between requests; a handler keeps what it read before an await | `POST /events`, `GET /events`, `GET /tree`, `GET /stream` | feature (store, tenant), store, backplane |
| Host feature, `feature.py` | current store, tenant resolver | `on_host_start`, `on_host_stop`, `get_router` | host (external), store |
| Redaction, `redaction.py` | none | `redact_metadata` | store |
| Model and migration, `models.py`, `migrations/` | the table | `to_dict`, `create_table` | store, Alembic |
| Panel, `static/swimlane.js` | event list, tree, last event id, live flag, timers | stream loop, merge, reconcile, poll, destroy, rendering | handlers over HTTP, lanes |
| Lanes, `static/swimlane.lanes.js` | none | `buildLanes`, `nestLanes`, `pairToolCalls`, `sessionStatus` | panel |

What is hard about it, and which property makes each part correct, is the
"hazards" list of `PROJECT.json`. In short:

* **Backplane**: a reader resumes while others publish, leave and stop. It must
  get every frame from its resume point on exactly once, in order, and be ended
  behind, not before, what it is owed. Ids restart with every backplane.
* **Handlers and host**: the store, the tenant, the header and the subscription
  are read at different awaits, with `on_host_stop` and `on_host_start` running
  in between. Streams must stay their tenant's, batches whole, live frames
  durable.
* **Store**: a batch is all or nothing, whichever of its events raises whatever;
  publication follows the commit, but a handler can end between the two. What a
  frame shows, what the table keeps and what an answer says of an event must
  agree, across tenants, time zones, limits and the tree.
* **Panel**: a snapshot, a stream and a poll write one list; loads of the tree
  overlap.
* **Lanes, redaction**: pure, with boundaries (ties, windows, nesting depth).

## 2. Modules

| Module | Stands for | Uses |
|---|---|---|
| `Feed` | the abstract promise of a backplane: one log, one cursor per reader, a replay horizon, a halt | |
| `Backplane` | `InProcessPubSub`, `Subscription` and the loop of `event_stream` that drains one | `Feed`, as `F == INSTANCE Feed WITH ...` |
| `Ranks` | lemmas about finite sets that several proofs cite: ranks in a total order, images, sums of sizes, least numbers | |
| `BackplaneProofs` | typing and the inductive invariant of `Backplane`; replay is a filter | `Backplane`, `Ranks` |
| `BackplaneRefinement` | `Backplane` implements `Feed` | `BackplaneProofs` |
| `FleetHost` | the host's hooks, `POST /events` and `GET /stream`, `ingest`; each incarnation's backplane appears as a feed | |
| `FleetHostProofs` | typing and the inductive invariant of `FleetHost` | `FleetHost` |
| `FleetHostBatches` | the wholeness of batches in `FleetHost` | `FleetHostProofs` |
| `Store` | what becomes of an event: validation, conversion and redaction, the row, the frame, the answers of `GET /events` and `GET /tree` | |
| `StoreProofs` | redaction of values of every depth; batches, answers, pages and counts of `Store` | `Store`, `Ranks` |
| `Panel` | the browser's panel: its connection loop, snapshots, stream and timer, against a server reduced to a table and a feed | |
| `PanelTree` | the panel with the loads of its tree | `Panel` |
| `PanelProofs` | the loop, typing, the list and resumption of `Panel` | `Panel`, `Ranks` |
| `Lanes` | the blocks of a session: pairing of calls and answers, tasks, status, counts | |
| `LanesProofs` | the places, pairs and blocks of `Lanes` | `Lanes`, `Ranks` |
| `MCBackplane`, `MCFleetHost`, `MCStore`, `MCLanes` | instances for TLC | |

Definitions named as mutants ("Mutant of X") are plausible bugs of the mapped
definition that follows them; no specification uses them. Each is run in the
place of its original to see that the property it is listed with fails.

### Backplane

`started`, `nextId`, `ring`, `subscribers`, `queue` and `closed` are the fields
of the two classes. `phase` is the reader: unborn, iterating, `ended` by the
sentinel or `left` before it. `log`, `first`, `asked` and `delivered` are
history: all payloads published, the id of the first frame a reader is owed, the
`last_event_id` it was created with, and the frames it has yielded.

| Action | Code |
|---|---|
| `Start`, `Stop` | `start`, `stop`; `Stop` is one step because `aclose` does not suspend |
| `Publish` | `publish` whole: the id, the ring with its `maxlen`, the offers. Its lock is never contended, because its body never suspends |
| `SubscribeLive`, `SubscribeAfter` | `subscribe(None)` and `subscribe(last)`; `Enrol` is `Subscription.__init__` with the registration |
| `Receive` | `queue.get()` returns a frame, which is yielded |
| `Finish` | it returns the sentinel; the `finally` of `event_stream` closes again |
| `Disconnect` | the generator is closed or cancelled: `aclose` runs with frames possibly queued |

`SubscribeAfter` says that the backlog is the suffix of the ring behind the
k-th frame where ids exceed `last`; the code filters, with the comprehension
that `Newer` writes as a recursive function. That the two agree is the invariant
`ReplayIsFilter`.

### Feed

The contract `PubSub` (`backplane.py:71-88`) with the replay promise of
`backplane.py:14-16`, without data structures. `JoinAfter` is the promise to a
resuming reader: it starts behind the frame it saw, or at the horizon if that is
later. What it asked for is part of the abstract state (`asked`), so a backplane
that replays the frame the reader already saw does not implement the feed.
`Finish` is possible only when a reader was handed all it was owed.

### FleetHost

`life` is the hook in progress, `store` and `resolver` the fields of the
feature. `replaced` is history: the stores that a later start overwrote. Each `on_host_start` opens a new incarnation, so a store is a number.
`db` is the database all incarnations share. For each POST the record `post`
holds what the handler has read so far and where it waits; for each client
`conn` is the connection it has open, and `got` all frames it ever received.

| Action | From await to await |
|---|---|
| `StartBegins`, `StartEnds` | `on_host_start` up to the schema creation; `_store` is assigned |
| `StartRefused` | `on_host_start` raises before its first await: a malformed tenant id, or a backend that `create_pubsub` refuses, which is after the resolver was adopted |
| `StopBegins`, `StopEnds`, `StopIdle` | the backplane is stopped and `dispose` awaited; both fields are cleared |
| `HookFails` | an exception out of either await; what follows it does not happen |
| `PostArrives`, `PostUnavailable` | the store is read, or 503; the body is awaited |
| `PostResolves` | body complete, tenant resolved with the resolver of *now*; a resolver may be awaited |
| `PostRefused`, `PostWrites` | 422, or rows built and the database awaited |
| `PostCommits` | external: the session commits |
| `PostPublishes` | all rows published, with no suspension between them |
| `PostFails` | cancellation or an exception at any await |
| `StreamAsked` | store, header and tenant are read in one step |
| `StreamSubscribes` | after the preamble, on the backplane of the store read before |
| `StreamDelivers`, `StreamEnds`, `StreamBreaks` | the loop of `event_stream` with its tenant filter; its ends |

External, and modelled from how the code uses it: the database (a commit happens
or fails, in any order between handlers, also on a store whose engine was
disposed, since an engine may reconnect), the host (awaits one hook before it
calls the next; may call `on_host_start` again without a stop), and the HTTP
server (may cancel a handler at any await).

Data is abstracted to what the properties tell apart: an event is valid or not,
a row is its post, its index and its tenant. `GET /events` and `GET /tree` read
the store and the resolver with no await in between, so that a stop cannot come
between them; what they answer is `Store`'s subject.

### Store

The one await that matters to the data is the commit, so a POST is three steps,
side by side with the other POSTs; a query reads the table in one statement, so
its answers are operators on the state. Rows of one time come in any order, so
an operator gives the set of the possible answers.

| Action or operator | Code |
|---|---|
| `PostBuilds` | `ingest` up to its session: `_validate` and `_build` of each event in turn; `FaultOf` is what the first failing one raises. `IngestError` is answered with 422; an `OverflowError` of an epoch out of range and the `TypeError` of an `event_type` that cannot be hashed are not |
| `PostCommits`, `PostRollsBack`, `PostPublishes` | the session's two ends, and `publish` of the payloads made before it |
| `CoerceTs`, `ParseTs` | `_coerce_ts`, `_parse_ts` of `endpoints.py`: a time is a wall clock, the offset it was written with, and whether it has one |
| `Redacted`, `Metadata` | `redact_metadata`, a recursive function on JSON values, and the test that it is a dict |
| `Visible`, `Matches`, `Newest`, `GetEvents` | the session's tenant, the conditions, order and limit of `query`, the handler |
| `Count`, `Tree` | the counting loop of `tree` |
| `ToDict`, `Loaded`, `Column` | `to_dict`; a row as it is written and read back (external) |

A JSON value is tagged: `[leaf |-> ..]`, `[list |-> ..]` or `[dict |-> ..]`, a
dict being a function from its keys. `KeepsZone` says what the database's
`DateTime(timezone=True)` column keeps: an instant, or, as SQLite does, the wall
clock without its offset. Columns nothing is computed from are left out.

`Values` may hold values of any `Depth`. What the module asks of them
(`ValuesAssumption`) is what JSON values are: what is in a value is less deep
than it, and a list or dict of the same shape with other such values in it is a
value, no deeper. `Sendable` is what a producer may send; a text the model uses
for an absent one is not a text. A leaf of a value has a path of steps, each a
key or a position.

### Panel

`events`, `live`, `lastEventId`, `destroyed` are the panel's variables, `aborted`
the state of the loop's present `AbortController`. `loop` says where
`connectLive` waits. `req` has one reconciliation per caller that can have one
in flight, each with the rows the server answered, and `conn` the stream with
the frames under way. The server is `stored`, `pending` (committed, not yet
published) and `frames`, for one tenant.

| Action | Code |
|---|---|
| `Commit`, `Publish`, `Restart` | `ingest` up to and after its commit; the store closed and a new one opened |
| `QueryReads`, `StreamOpens` | `GET /events` reads the newest rows; `GET /stream` subscribes |
| `Reconcile`, `ReconcileFails` | `reconcile` after its await; for the loop, `Continue` is what follows: the request for the stream |
| `Poll`, `Refresh` | the timer, when not live; the host's `refresh` |
| `FrameArrives` | one frame of a chunk: id, `live`, `mergeEvent` with its cap |
| `StreamEnds`, `StreamFails`, `StreamAborted` | `panel.stream` returns or throws; then the backoff or the end of the loop |
| `BackoffEnds`, `Destroy` | the next turn of the loop; `destroy` |

A chunk that holds several frames is several `FrameArrives`: where a chunk ends
is up to the network, so this adds no behaviour. An event is the rank of
its timestamp; rows with equal timestamps, other tenants' frames (which take ids
and room in the ring) and streams that subscribe on a stopped backplane are
`FleetHost`'s subject and left out here.

### PanelTree

The tree is abstracted to the number of events it counts. `Tick` is the timer's
whole callback: `loadTree`, and `reconcile` when not live. `TreeReads`, `Loaded`
and `LoadFails` are the request and the two ends of `loadTree`, which set the
tree whatever was loaded in between.

### Lanes

`pairToolCalls` is a loop over events sorted by time; `Lanes` reads one event
per step, chosen freely among those not older than the last, so that TLC
enumerates all inputs. `open`, `calls` and `loose` are the loop's lists.

| Action or operator | Code |
|---|---|
| `Opens`, `Closes`, `Orphan`, `Loose` | the branches of the loop; `Takes` and `Choice` are the two `findIndex`, `Taken` is `splice`. `OPEN_TYPES` never yields `error`, so the first search fails for an error and the second decides |
| `Build` | the calls left open become blocks; the blocks are sorted |
| `Tasks`, `Children`, `Direct` | the split of the blocks in `buildLanes` |
| `Status`, `CountSessionEvents` | `sessionStatus`, `countSessionEvents` |

The properties compare with a definition over the input alone (`Waiting`): which
calls an event could have answered when it came. `ByStart` is the final sort:
it puts a block where the number of blocks before it says, blocks that begin at
one time staying in their order.

## 3. Runs

| Run | Shows | Bounds, and why they suffice |
|---|---|---|
| `backplane` | `TypeOK`, `GapFree`, `Registered`, `ReplayIsFilter`; `ImplementsFeed`; `Delivery`, `ClosedReadersEnd` under `Fairness` | 2 readers, ring of 2, 3 publications of one payload (a frame is told apart by its id): the ring overflows, a reader can lag, resume inside and behind the ring and from the future, and be stopped with frames queued |
| `fleet_host` | type, safety and action properties of `FleetHost`; `CommitReachesReaders`, `ClosingStreamsEnd` under `Fairness` | 2 posts of different tenants with bodies empty, valid and half valid, 1 client, 2 starts, ring of 2: two batches overflow the ring, a client reconnects within and across incarnations, a start follows a start |
| `fleet_host_tenant` | `PostsAreScoped` is violated | 1 post |
| `fleet_host_stop` | `StopDisconnectsAll` is violated under `Fairness` | 1 client |
| `fleet_host_resume` | `ResumeKeepsAllBuffered` is violated | 2 single-event posts, 1 client, 2 starts |
| `panel` | type with the cap of the list, `NothingTwice`, `ResumedIsComplete`, `LiveIsStreaming`, `DestroyedOpensNothing` | 3 events, a ring of 1, answers and list of 2, a poll and a refresh in flight besides the loop's own request, 2 faults: the list is cut, the ring overflows, answers arrive out of order, a stream is resumed within and across a restart |
| `panel_live` | `PollingConverges`, `DestroyedLoopEnds`, `TreeConverges` under `TreeFairness` | the panel with its tree: 1 event, 2 loads and 1 poll in flight, 2 faults: an older load is answered last, a failed one empties the tree, live and not |
| `panel_net` | `SafetyNet` is violated under `Fairness` | `Panel` with 2 events, without faults |
| `store` | type, `AllOrNothing`, `AnswersAreOwn`, `FoundAtItsTime`, `OlderPageContinues`, `TreeAgreesWithQuery`, `FrameIsReadBack`, `OnlySecretsGo`, over a database that keeps instants | 2 posts of two tenants, one by way of the default: one with any metadata of two keys up to three levels deep, any kind of time, or a fault before or behind a good event; the other with up to 3 events that tie, nest and drive themselves and each other; limits 1 and 2: pages end between tied events |
| `store_zone` | `FoundAtItsTime` is violated over a database that keeps the wall clock | the same |
| `lanes` | type, `OnePlaceEach`, `FirstComeFirstServed`, `CompletedIsAnswered`, `NothingHidden` | sessions of up to 4 events of 11 kinds at 3 times, window of 1: two calls wait for one answer, answers tie, and come at and beyond the boundary; a call begins in a task and ends after it |
| `lanes_count` | `CountIsExact` is violated | the same |

`MaxPublish`, `MaxStarts`, `MaxEvents`, `MaxFaults`, `Others` and `Loads` (the
requests in flight), the sets of posts, bodies and questions are the only bounds.
No run uses symmetry. The inductive invariants (`IInv`, `HInv`, `LoopInv`,
`ListInv`, `ResumeInv`, `LanesInv`, `StoreInv`) are no properties of a run: they
are proved, and the properties they imply are what the runs check.

### What the violations say

* A POST reads the store at `endpoints.py:143` and resolves its tenant at
  `:161`, after the await of its body. `on_host_stop` in between clears the
  resolver, and the request is bound to the **default tenant**, although
  `endpoints.py:124-125` says requests are isolated per caller.
  `MisfiledOnlyAcrossStop` shows that this is the only way.
* A stream that was asked for before a stop can subscribe after it, because
  `event_stream` first yields its preamble and `subscribe` never looks at
  `_started`. Nothing ends that reader, although `backplane.py:80` says that
  stop disconnects all subscribers. `StopReachesRegistered` shows that this is
  the only way.
* Ids restart at 1 with each backplane. A client that reconnects after a restart
  resumes behind an id of the old numbering and skips buffered frames of the new
  one (`backplane.py:10-16`). `ResumeKeepsBuffered` shows that within one
  backplane it skips none.
* The timer of the panel, "reconciliation safety net" (`swimlane.js:673`),
  reconciles only while no frame has arrived on the present stream. An event
  published between the snapshot and the subscription of a first connection, or
  removed by an older snapshot that is applied late, stays missing as long as
  the stream lives. `ResumedIsComplete` shows that a resumed connection has no
  such gap, and `PollingConverges` that a panel that is not live recovers.
* `_coerce_ts` (`store.py:49`) and `_parse_ts` (`endpoints.py:77`) keep the
  offset a time was written with, and nothing converts it to UTC. The default
  engine is SQLite (`feature.py:30`), whose `DateTime` drops the offset, although
  `models.py:101` declares the column with a time zone: `since`, `until` and the
  order of an answer then compare wall clocks of different zones, and an event
  is not found at its own instant. `FoundAtItsTime` holds over a database that
  keeps instants. For the same reason an answer has no offset where the frame
  had one, and the browser reads such a time as local (`swimlane.lanes.js:29`);
  `FrameIsReadBack` is checked and proved over a database that keeps instants
  only.
* A call whose time lies within two overlapping tasks is a child of both, and is
  counted twice in the `eventCount` of its node, which the test at
  `swimlane.lanes.test.mjs:166` takes for the number of events.

### Fairness

A reader whose queue is not empty is resumed by the event loop, which runs every
ready task; its client either takes the frame or the connection breaks, and a
broken connection is the action `Disconnect` or `StreamBreaks`, which satisfies
the properties. A handler whose commit has returned is resumed. Nothing is
assumed of the host, the database, the arrival of requests or of clients, and
no action that a client or the host takes is fair. A client that stays connected
and never reads is outside the assumption: its frames wait in its queue.

For the panel: the server answers a request or the request fails, the browser
settles its promises and fires its timers, and failures (`MaxFaults`) come to an
end. The timer's fairness is strong in `PanelTree`: nothing in the browser
disables a timer, only the bounds on requests in flight do so in the model, time
and again. That events are written, that `refresh` is called or that the panel is
destroyed is not assumed.

## 4. Proofs

The theorems about the backplane hold for every set of readers and payloads,
every ring size in `Nat` (zero included) and every bound on publications, from
the three assumptions that `Backplane` states: the ring size and the bound are
naturals, and the sentinel is no frame.

* `TypeCorrect`: `Spec => []TypeOK`.
* `Invariance`: `Spec => []IInv`. `GapFree` is not inductive: that a queue
  continues what was delivered (`QueueContinues`) needs, for a reader that
  resumes, that the ring is the newest part of the log (`RingIsSuffix`); for
  `Publish`, that exactly the open readers are registered; for `Receive`, that
  the sentinel is the last element and nowhere else (`Sentinel`). `IInv` is the
  conjunction of these with `TypeOK`. The proof goes reader by reader
  (`ReaderInv`): `Publish` and `Stop` touch all readers alike, and the other
  actions one, for which `StepOfOneReader` does the rest.
* `NoReaderMissesAFrame`, `OpenReadersAreRegistered`: its consequences
  `GapFree` and `Registered`.
* `Refinement`: `Spec => ImplementsFeed`. The cursor of a reader is the id of
  the last frame it yielded, its limit is where the sentinel stands, the horizon
  is what has left the ring. One lemma per action, over `IInv`.

The theorems about host, handlers and streams hold for all sets of posts,
clients, tenants and bodies, every ring size and any number of starts, from
`CallerAssumption` (a caller has a tenant or none; the default is a tenant and
none is not) and `BoundsAssumption` (types of the constants).

* `HostInvariance`: `Spec => []HInv`. None of the safety properties is inductive
  as it stands. That a stream is its caller's (`StreamsAreScoped`) needs that a
  host with a store has its configured resolver (`HostInv`: it is adopted before
  the store and dropped with it). `LiveIsDurable` needs that a handler which may
  publish has its rows in the database (`PostInv`). `NeverTwice` and
  `StreamsAreComplete` need that nothing a client received is ahead of where its
  connection stands, that a client waiting to subscribe still has the last frame
  it asked with, and that a store is newer than all incarnations a client heard
  of (`ConnInv`, `GotInv`). `LeftBehindOnlyByRestart` needs that the incarnation
  of a connection is the host's unless it was stopped or replaced. `HInv` is
  the conjunction of these with `TypeOK`; the proof goes client by client
  (`ClientInv`), the hooks and `PostPublishes` touching all of them.
* `HostTypeCorrect`, `PublishedIsDurable`, `StreamsOfTheirCallers`,
  `NothingMissed`, `NothingTwiceNorLate`, `StopReaches`,
  `LeftBehindByRestartOnly`: its consequences. `MisfiledOnlyByStop` and
  `ResumptionKeepsBuffered` are action properties, proved over it.

* `BatchesStayWhole`: `Spec => []BatchesAreWhole`, in `FleetHostBatches`. Over
  `HInv` it needs that a body being written has events and was checked
  (`Checked`); then a commit adds the rows of its own post only, and a
  publication puts them behind a log whose other segments stay where they were
  (`Segments`). Its steps go post by post (`Untouched`, `Quiet`, `Commits`,
  `Publishes`).

About the panel, for every number of events, requests and faults and all limits,
from the assumptions that an answer fits the list's cap and that the loop's
request is not one of the others:

* `LoopInvariance`: `LoopInv`, that the loop waits for a snapshot exactly when
  it has asked for one, the flag is set only while it reads a stream, and a
  destroyed panel has aborted the controller its loop will use. The last needs
  that the loop makes a new controller only after it looked at `destroyed`.
* `LiveOnlyWhileStreaming` and `DestroyedPanelIsQuiet`: its consequences
  `LiveIsStreaming` and `DestroyedOpensNothing`.

* `ListInvariance`: `ListInv`, that the variables keep their types and that
  neither the list nor an answer that will replace it has an event twice, nor an
  answer more than the limit. `mergeEvent` needs it of the list it adds to, and
  `reconcile` of the answer it takes; an answer has it because `NewestFirst`
  puts every row where its rank says (`Ranks`). `TypeCorrect` and
  `NoEventTwice` are its consequences.
* `ResumeInvariance`: `ResumeInv`, the conjunction of these with `StreamInv`
  (what the id, the frames under way and the stream have to do with the feed)
  and `CompleteInv`. `ResumedIsComplete` speaks of the open stream; it needs that
  already the answer, then the list, has whatever was published up to the id the
  stream is resumed with, while the loop alone reconciles. `NoHoleAfterResume`
  is its consequence.

About a session's blocks, for every set of kinds, every window and sessions of
every length, from the types of the constants:

* `LanesInvariance`: `LanesInv`. `OnePlaceEach` counts places; the invariant
  says that there is one and only one for each event (`PlaceInv`), which a step
  keeps because an event is told from the others by its number. That the answer
  went to the oldest call (`FirstComeFirstServed`) needs that the open calls are
  in the order they were read, that a call is open exactly until it is in a
  block of two, and that a block of one is an answer until the loop is over
  (`BlockInv`). The final sort keeps all of it because it permutes
  (`ByStartPermutes`).
* `TypeCorrect`, `NoEventLost`, `OldestCallFirst`, `CompletedWasAnswered`,
  `EveryEventShown`: its consequences. The last needs only that a block is a
  task, near one, or neither; the one before it that a completed session has no
  call left in a block of its own.

About the store, for all sets of posts, callers, bodies and questions, JSON
values of every depth and times of every size, from the assumptions `Store`
states: what a JSON value is (above), that the events of a body are `Sendable`
and that there are some (the router refuses a body without events), that a
question has the fields of `query` and a positive limit, and the one on callers
that `FleetHost` has too.

* `RedactionCleans`: a value and what redaction makes of it have the same texts
  under the same paths, except under secret keys. The library's inductions take
  a property as an operator, which no prover here can instantiate, so that
  `DepthInduction` has a set in its place and is proved by the value of least
  depth outside of it. That `Redacted` and `Leaves` satisfy their recursive
  equations is proved first, from functions that do so up to a depth.
* `StoreInvariance`: `StoreInv`. A handler that went past validation holds the
  rows of a batch without fault (`HandlerInv`), and the database and the feed
  have exactly the rows of the handlers that committed (`DbInv`) and that
  published (`FeedInv`). The properties speak of the database, which none of
  them determines by itself.
* `TypeCorrect`, `WholeBatches` and `SecretsGo`: consequences, the last with
  `RedactionCleans`.
* `OwnAnswers` and `TreeAndQuery`: an answer that the limit does not cut is all
  that matches; the counts of the tree are sizes of disjoint sets of rows, whose
  sum is that of their union (`SumOfParts`), and the subtree of an agent is
  inclusion and exclusion.
* `OlderPages`: every event newer than the oldest of a full answer is on that
  page, and a next page that is not full has all that is left. The proof showed
  that what is skipped is never newer than where the two pages get, however many
  events tie, so that the property says so without a condition on ties.
* `ReadBack` and `FoundThere`: `FrameIsReadBack` and `FoundAtItsTime`, under the
  hypothesis `KeepsZone`. Without it the second is false, as the run `store_zone`
  shows.

That what `subscribe` filters out of the ring is a suffix of it
(`RewindingFilters`, the invariant `ReplayIsFilter`) follows from `IInv`, since
ids grow along the ring, and from the recursion of `Newer`.

Every safety property that a passing run checks is thus a theorem. Left to TLC
is liveness, which is beyond the prover: `Delivery`, `ClosedReadersEnd`,
`CommitReachesReaders`, `ClosingStreamsEnd`, `PollingConverges`,
`DestroyedLoopEnds` and `TreeConverges`; and the statements that are violated.

## 5. Not modelled

* `PostgresPubSub`, which hands each operation to an in-process backplane and
  so adds no behaviour to `Backplane`. `create_pubsub` only chooses; that it may
  raise is `StartRefused`.
* The queue of a slow reader as a resource (`backplane.py:40`), and engines: one
  that a failed start leaves undisposed is seen by no state of the program.
* Which names are secret (`is_secret_key`), labels, the order of the tree's
  nodes and of its agents, the panel's filters.
* Which events the panel's cap drops: it cuts the front of the list, where a
  snapshot, sorted newest first, has its newest events (`swimlane.js:608`).
* The grouping of events into lanes and of lanes into orchestrator nodes, which
  is by name. One oddity of it: `laneKey` joins the agent and the orchestrator
  with a NUL and turns an absent orchestrator into the empty string
  (`swimlane.lanes.js:36`), so an empty one, which the store accepts, shares a
  lane with none, under the name of whichever came first.
* Column declarations, the migration, package metadata, SSE encoding, CSRF and
  authentication (the host's), rendering and styles.

## 6. Plan

1. Done: `Backplane` with `Feed`, `FleetHost`, `Store`, `Panel` with its tree,
   `Lanes`; and the proofs of their safety properties.
2. Next: the safety of `PanelTree`, whose panel part should follow from
   `PanelProofs` step by step; that `FleetHost`'s incarnations are each a `Feed`;
   that `Store`'s handlers implement those of `FleetHost` as far as one
   incarnation goes.
3. Then the grouping of events into lanes and nodes.
