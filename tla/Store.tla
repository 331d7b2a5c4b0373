-------------------------------- MODULE Store --------------------------------
(***************************************************************************)
(* What becomes of an event: the checks and conversions of ingest and      *)
(* redact_metadata (store.py, redaction.py), the frame that is published   *)
(* for it and the answers of GET /events and GET /tree that include it     *)
(* (models.py, endpoints.py).  Batches of several callers are ingested     *)
(* side by side; a query reads the database in one step, so that its       *)
(* answer is an operator on the state.                                     *)
(*                                                                         *)
(* Metadata are JSON values: [leaf |-> text], [list |-> a sequence of      *)
(* values] and [dict |-> a function from keys to values].  A time is a     *)
(* wall clock reading with the offset of its zone.  The columns nothing    *)
(* is computed from (tool_name, success, stage, ...) are left out.         *)
(***************************************************************************)
EXTENDS Integers, Sequences, FiniteSets, FiniteSetsExt

CONSTANTS
  Posts,        \* calls of POST /events
  Bodies,       \* Posts -> the batches it may carry
  Tenants,      \* what a tenant resolver can answer
  Default,      \* the store's zero-config tenant
  NoTenant,     \* the resolver's None
  Caller,       \* Posts -> what the resolver answers for it
  Values,       \* the JSON values there are
  Depth(_),     \* how deep a JSON value is nested
  SecretKeys,   \* the keys that is_secret_key matches
  Filters,      \* the questions asked of GET /events
  KeepsZone,    \* does the database keep an instant, or only the wall clock
  Times         \* readings of the server's clock

Null == [null |-> 0]            \* None
Absent == "(absent)"            \* a parameter that was not given
Unbounded == [kind |-> "none"]  \* since or until that was not given
NoOne == "(none)"               \* orchestrator = None
EmptyDict == [dict |-> <<>>]
REDACTED == [leaf |-> "[REDACTED]"]

IsDict(m) == "dict" \in DOMAIN m
IsList(m) == "list" \in DOMAIN m

\* A JSON value is a finite tree, and what has its shape with other values in
\* it, no deeper than it, is one too.
Inner(m) == {v \in Values : Depth(v) < Depth(m)}
ASSUME ValuesAssumption ==
  /\ \A m \in Values : Depth(m) \in Nat
  /\ EmptyDict \in Values /\ REDACTED \in Values /\ Depth(REDACTED) = 0
  /\ \A m \in Values :
       \/ ~IsDict(m) /\ ~IsList(m) /\ m = [leaf |-> m.leaf]
       \/ /\ IsList(m) /\ m = [list |-> m.list] /\ m.list \in Seq(Inner(m))
          /\ \A l \in [DOMAIN m.list -> Inner(m)] :
               [list |-> l] \in Values /\ Depth([list |-> l]) <= Depth(m)
       \/ /\ IsDict(m) /\ m = [dict |-> m.dict] /\ m.dict \in [DOMAIN m.dict -> Inner(m)]
          /\ \A d \in [DOMAIN m.dict -> Inner(m)] :
               [dict |-> d] \in Values /\ Depth([dict |-> d]) <= Depth(m)

\* The times that a producer may send, and those that a query may name.
Bound == [kind : {"naive"}, wall : Int] \cup [kind : {"zoned"}, wall : Int, zone : Int]
Stamp == [kind : {"none", "garbage", "object", "huge"}]
           \cup [kind : {"epoch"}, at : Int] \cup Bound

\* None and a parameter that is not given are no texts.
Text == STRING \ {Absent}
Sendable ==
  [object : BOOLEAN, event_type : STRING, orchestrator : Text,
   agent_name : Text \ {NoOne}, session_id : Text,
   metadata : Values \cup {Null}, ts : Stamp]

ASSUME CallerAssumption ==
  /\ Caller \in [Posts -> Tenants \cup {NoTenant}]
  /\ Default \in Tenants /\ NoTenant \notin Tenants
ASSUME BodiesAssumption ==
  /\ \A p \in Posts : \A body \in Bodies[p] : body # <<>> /\ body \in Seq(Sendable)
  /\ Times \subseteq Int
ASSUME FiltersAssumption ==
  Filters \subseteq
    [orchestrator : STRING, agent_name : STRING, session_id : STRING,
     since : Bound \cup {Unbounded}, until : Bound \cup {Unbounded},
     subtree : BOOLEAN, limit : Nat \ {0}]
ASSUME DatabaseAssumption == KeepsZone \in BOOLEAN

VARIABLES
  db,      \* the committed rows
  feed,    \* the payloads published, in order
  post     \* the handler of each POST: [at, body, rows]

vars == <<db, feed, post>>

NewPost == [at |-> "new", body |-> <<>>, rows |-> <<>>]

Init ==
  /\ db = {}
  /\ feed = <<>>
  /\ post = [p \in Posts |-> NewPost]

-----------------------------------------------------------------------------
\* Conversions.

Utc(wall) == [wall |-> wall, zone |-> 0, aware |-> TRUE]

\* Mutant of CoerceTs: the offset of a text is dropped.
CoerceTsToUtc(v, now) ==
  CASE v.kind = "none" -> Utc(now)
    [] v.kind = "epoch" -> Utc(v.at)
    [] v.kind \in {"naive", "zoned"} -> Utc(v.wall)

\* Mutant of CoerceTs: a text without an offset stays without one.
CoerceTsNaive(v, now) ==
  CASE v.kind = "none" -> Utc(now)
    [] v.kind = "epoch" -> Utc(v.at)
    [] v.kind = "naive" -> [Utc(v.wall) EXCEPT !.aware = FALSE]
    [] v.kind = "zoned" -> [wall |-> v.wall, zone |-> v.zone, aware |-> TRUE]

\* _coerce_ts of a value it accepts; a datetime is as the text that says it.
CoerceTs(v, now) ==
  CASE v.kind = "none" -> Utc(now)
    [] v.kind = "epoch" -> Utc(v.at)
    [] v.kind = "naive" -> Utc(v.wall)
    [] v.kind = "zoned" -> [wall |-> v.wall, zone |-> v.zone, aware |-> TRUE]

\* What raises while _coerce_ts reads v: a text that is no time and a value
\* that is neither are refused, an epoch out of range is datetime's error.
TsFault(v) ==
  CASE v.kind \in {"garbage", "object"} -> "IngestError"
    [] v.kind = "huge" -> "OverflowError"
    [] OTHER -> "none"

\* _parse_ts of since and until; the empty text is no bound, like none.
ParseTs(v) ==
  IF v.kind = "naive" THEN Utc(v.wall)
  ELSE [wall |-> v.wall, zone |-> v.zone, aware |-> TRUE]

\* redact_metadata as a recursive function on the JSON values
Redacted[m \in Values] ==
  CASE IsDict(m) -> [dict |-> [k \in DOMAIN m.dict |->
                       IF k \in SecretKeys THEN REDACTED ELSE Redacted[m.dict[k]]]]
    [] IsList(m) -> [list |-> [i \in DOMAIN m.list |-> Redacted[m.list[i]]]]
    [] OTHER -> m

\* Mutants of Metadata: what is not a dict is stored as it is; a dict without
\* a secret of its own is.
MetadataAsSent(e) == IF e.metadata = Null THEN Null ELSE Redacted[e.metadata]

MetadataOfTopLevel(e) ==
  IF ~IsDict(e.metadata) THEN Null
  ELSE IF DOMAIN e.metadata.dict \cap SecretKeys = {} THEN e.metadata
  ELSE Redacted[e.metadata]

\* The metadata of _build: what is not a dict is dropped.
Metadata(e) ==
  IF IsDict(e.metadata) THEN Redacted[e.metadata] ELSE Null

-----------------------------------------------------------------------------
\* POST /events.

\* _resolve: the request's tenant, or the zero-config one.
ResolvedTenant(t) == IF t = NoTenant THEN Default ELSE t

\* _validate: an event_type that cannot be hashed is not IngestError but the
\* TypeError of `in`.
ValidateFault(e) ==
  CASE ~e.object -> "IngestError"
    [] e.event_type = "unhashable" -> "TypeError"
    [] e.event_type = "unknown" \/ e.agent_name = "" \/ e.session_id = "" ->
         "IngestError"
    [] OTHER -> "none"

\* What _build of e raises.
Fault(e) ==
  IF ValidateFault(e) # "none" THEN ValidateFault(e) ELSE TsFault(e.ts)

\* What building a whole batch raises: the first event that raises decides.
FaultOf(body) ==
  LET bad == {i \in DOMAIN body : Fault(body[i]) # "none"} IN
  IF bad = {} THEN "none" ELSE Fault(body[Min(bad)])

\* _build of the i-th event of p, at the server's time now.
Build(p, i, e, now) ==
  [id |-> <<p, i>>, tenant |-> ResolvedTenant(Caller[p]),
   orchestrator |-> e.orchestrator, agent_name |-> e.agent_name,
   session_id |-> e.session_id, metadata |-> Metadata(e),
   ts |-> CoerceTs(e.ts, now)]

\* to_dict: absent metadata and an empty dict are the same in a payload.
ToDict(row) ==
  [row EXCEPT !.metadata = IF @ = Null THEN EmptyDict ELSE @]

\* Mutant of PostBuilds: the events that raise are left out of the batch.
PostBuildsValid(p, body, now) ==
  LET valid == SelectSeq(body, LAMBDA e : Fault(e) = "none") IN
  /\ post[p].at = "new"
  /\ post' = [post EXCEPT ![p] =
       [NewPost EXCEPT
          !.body = body,
          !.at = IF valid # <<>> THEN "writing" ELSE "refused",
          !.rows = [i \in DOMAIN valid |-> Build(p, i, valid[i], now)]]]
  /\ UNCHANGED <<db, feed>>

\* ingest up to the await of the database, or to what building the rows raises:
\* the router turns IngestError into 422, and nothing else.
PostBuilds(p, body, now) ==
  /\ post[p].at = "new"
  /\ post' = [post EXCEPT ![p] =
       [NewPost EXCEPT
          !.body = body,
          !.at = CASE FaultOf(body) = "none" -> "writing"
                   [] FaultOf(body) = "IngestError" -> "refused"
                   [] OTHER -> "raised",
          !.rows = IF FaultOf(body) # "none" THEN <<>>
                   ELSE [i \in DOMAIN body |-> Build(p, i, body[i], now)]]]
  /\ UNCHANGED <<db, feed>>

\* What the column ts holds: an instant, or the wall clock without its zone.
Column(ts) == IF KeepsZone THEN ts.wall - ts.zone ELSE ts.wall

\* The write session commits the rows.
PostCommits(p) ==
  /\ post[p].at = "writing"
  /\ db' = db \cup {[row EXCEPT !.ts = Column(@)] : row \in Range(post[p].rows)}
  /\ post' = [post EXCEPT ![p].at = "committed"]
  /\ UNCHANGED feed

\* The write session raises, and rolls back.
PostRollsBack(p) ==
  /\ post[p].at = "writing"
  /\ post' = [post EXCEPT ![p].at = "raised"]
  /\ UNCHANGED <<db, feed>>

\* The created rows are published, as they were before the commit.
PostPublishes(p) ==
  /\ post[p].at = "committed"
  /\ feed' = feed \o [i \in DOMAIN post[p].rows |-> ToDict(post[p].rows[i])]
  /\ post' = [post EXCEPT ![p].at = "done"]
  /\ UNCHANGED db

-----------------------------------------------------------------------------
\* GET /events and GET /tree.

\* Mutant of Visible: the tenant is not looked at.
VisibleToAll(t) == db

\* TenantContext: the rows a request of tenant t can read.
Visible(t) == {row \in db : row.tenant = ResolvedTenant(t)}

\* Mutant of Matches: until is exclusive.
MatchesBefore(row, f) ==
  /\ f.orchestrator \in {Absent, row.orchestrator}
  /\ \/ f.agent_name \in {Absent, row.agent_name}
     \/ f.subtree /\ f.agent_name = row.orchestrator
  /\ f.session_id \in {Absent, row.session_id}
  /\ f.since = Unbounded \/ row.ts >= Column(ParseTs(f.since))
  /\ f.until = Unbounded \/ row.ts < Column(ParseTs(f.until))

\* The conditions of query.
Matches(row, f) ==
  /\ f.orchestrator \in {Absent, row.orchestrator}
  /\ \/ f.agent_name \in {Absent, row.agent_name}
     \/ f.subtree /\ f.agent_name = row.orchestrator
  /\ f.session_id \in {Absent, row.session_id}
  /\ f.since = Unbounded \/ row.ts >= Column(ParseTs(f.since))
  /\ f.until = Unbounded \/ row.ts <= Column(ParseTs(f.until))

\* order_by and limit; rows of one time come in any order.
Newest(rows, limit) ==
  {S \in SUBSET rows :
     /\ Cardinality(S) = Min({limit, Cardinality(rows)})
     /\ \A r \in S, q \in rows \ S : r.ts >= q.ts}

\* A row as it is read back.
Loaded(row) ==
  [row EXCEPT !.ts = [wall |-> @, zone |-> 0, aware |-> KeepsZone]]

\* What GET /events may answer a caller of tenant t: sets of payloads.
GetEvents(t, f) ==
  {{ToDict(Loaded(row)) : row \in S} :
     S \in Newest({row \in Visible(t) : Matches(row, f)}, f.limit)}

\* Mutant of Count: an agent is counted under each of its orchestrators.
CountOfAgent(rows, o, a) == Cardinality({row \in rows : row.agent_name = a})

\* agents[agent_name] of the group of orchestrator o
Count(rows, o, a) ==
  Cardinality({row \in rows : row.orchestrator = o /\ row.agent_name = a})

\* What GET /tree answers: a node per orchestrator, with its agents' counts.
Tree(t) ==
  LET rows == Visible(t)
      AgentsOf(o) == {row.agent_name : row \in {r \in rows : r.orchestrator = o}}
      Agents(o) == [a \in AgentsOf(o) |-> Count(rows, o, a)]
  IN  {[orchestrator |-> o, is_direct |-> o = NoOne,
        event_count |-> SumFunction(Agents(o)), agents |-> Agents(o)] :
       o \in {row.orchestrator : row \in rows}}

-----------------------------------------------------------------------------
Next ==
  \E p \in Posts :
    \/ \E body \in Bodies[p], now \in Times : PostBuilds(p, body, now)
    \/ PostCommits(p) \/ PostRollsBack(p) \/ PostPublishes(p)

Spec == Init /\ [][Next]_vars
-----------------------------------------------------------------------------
\* Properties.

\* The columns of ObservabilityEvent that are modelled, with what may be null.
Row ==
  [id : Posts \X (Nat \ {0}), tenant : Tenants,
   orchestrator : STRING, agent_name : STRING \ {""}, session_id : STRING \ {""},
   metadata : {m \in Values : IsDict(m)} \cup {Null}, ts : Int]

TypeOK ==
  /\ \A row \in db : row \in Row
  /\ \A x \in Range(feed) : IsDict(x.metadata)
  /\ \A p \in Posts :
       post[p].at \in {"new", "writing", "committed", "done", "refused", "raised"}

Callers == Tenants \cup {NoTenant}
Owner(p) == IF Caller[p] = NoTenant THEN Default ELSE Caller[p]
IsStored(p) == post[p].at \in {"committed", "done"}
Everything ==
  [orchestrator |-> Absent, agent_name |-> Absent, session_id |-> Absent,
   since |-> Unbounded, until |-> Unbounded, subtree |-> FALSE,
   limit |-> Cardinality(db)]

\* A batch is stored and published whole or not at all (ingest, store.py:187):
\* an event that is refused, or that makes building it raise an error the
\* router does not know, leaves no row and no frame of its batch.
AllOrNothing ==
  \A p \in Posts :
    LET stored == {row.id : row \in {r \in db : r.id[1] = p}}
        whole == {<<p, i>> : i \in DOMAIN post[p].body} IN
    /\ stored = IF IsStored(p) THEN whole ELSE {}
    /\ {x.id : x \in {y \in Range(feed) : y.id[1] = p}} =
         IF post[p].at = "done" THEN whole ELSE {}
    /\ IsStored(p) =>
         \A i \in DOMAIN post[p].body : Fault(post[p].body[i]) = "none"

\* A caller sees the events of its tenant, all and no others, among the events
\* and in the tree, whoever posted them: a tenant named by the resolver and the
\* fallback to the default one are one tenant (_resolve, TenantContext).
AnswersAreOwn ==
  \A t \in Callers :
    LET own == {p \in Posts : /\ IsStored(p)
                              /\ Owner(p) = IF t = NoTenant THEN Default ELSE t}
        ids == UNION {{<<p, i>> : i \in DOMAIN post[p].body} : p \in own}
    IN  /\ \A answer \in GetEvents(t, Everything) : {x.id : x \in answer} = ids
        /\ SumFunction([node \in Tree(t) |-> node.event_count]) = Cardinality(ids)

\* The instant a producer said, where it said one.
Said(v) ==
  CASE v.kind = "epoch" -> v.at
    [] v.kind = "naive" -> v.wall
    [] v.kind = "zoned" -> v.wall - v.zone

Moment(at, zone) == [kind |-> "zoned", wall |-> at + zone, zone |-> zone]

\* An event that was accepted is found at its time: a query of its tenant for
\* its agent and session, from the instant its producer said to that instant,
\* in whatever zones either was written, has it (_coerce_ts, _parse_ts, query).
FoundAtItsTime ==
  \A p \in Posts : IsStored(p) =>
    \A i \in DOMAIN post[p].body :
      LET e == post[p].body[i] IN
      e.ts.kind # "none" =>
        \A z \in {0, 1} : \A answer \in GetEvents(Caller[p],
            [Everything EXCEPT !.agent_name = e.agent_name,
                               !.session_id = e.session_id,
                               !.since = Moment(Said(e.ts), z),
                               !.until = Moment(Said(e.ts), 0)]) :
          \E x \in answer : x.id = <<p, i>>

\* Going on behind the oldest event of a full answer, with until at its time,
\* skips no event newer than where it gets, and gets further, unless as many
\* events as the limit share that one time (query: until is inclusive, the
\* newest come first).
OlderPageContinues ==
  \A t \in Callers, f \in Filters : \A page \in GetEvents(t, f) :
    Cardinality(page) = f.limit =>
      LET all == {row \in Visible(t) : Matches(row, f)}
          oldest == Min({x.ts.wall : x \in page})
          tied == {row \in all : row.ts = oldest}
          g == [f EXCEPT !.until = Moment(oldest, 0)]
      IN  \A next \in GetEvents(t, g) :
            LET seen == {x.id : x \in page \cup next}
                end == Min({x.ts.wall : x \in next} \cup {oldest}) IN
            /\ \A row \in all : row.ts > end => row.id \in seen
            /\ Cardinality(next) < f.limit => \A row \in all : row.id \in seen
            /\ Cardinality(tied) < f.limit /\ (\E row \in all : row.ts < oldest)
                 => \E x \in next : x \notin page

\* The tree and the queries agree: a node's agents have the counts that queries
\* for the orchestrator and the agent find, the Direct node what no query for
\* an orchestrator finds, and the subtree of an agent is what the agent did and
\* what it drives, each event once (tree and query).
TreeAgreesWithQuery ==
  \A t \in Callers :
    LET Found(f) == Cardinality(UNION GetEvents(t, f))
        Of(o, a) == [Everything EXCEPT !.orchestrator = o, !.agent_name = a]
        tree == Tree(t)
        drivers == {node.orchestrator : node \in tree} \ {NoOne}
        agents == UNION {DOMAIN node.agents : node \in tree}
    IN  /\ \A node \in tree : \A a \in DOMAIN node.agents :
             node.agents[a] =
               IF node.is_direct
               THEN Found(Of(Absent, a))
                      - SumFunction([o \in drivers |-> Found(Of(o, a))])
               ELSE Found(Of(node.orchestrator, a))
        /\ \A a \in agents :
             Found([Of(Absent, a) EXCEPT !.subtree = TRUE]) =
               Found(Of(Absent, a)) + Found(Of(a, Absent)) - Found(Of(a, a))
        /\ \A node \in tree \ {n \in tree : n.is_direct} :
             node.event_count = Found(Of(node.orchestrator, Absent))

\* A frame and a later answer show the same event: the same fields, and a time
\* that names the same instant (to_dict before the commit and after a query).
FrameIsReadBack ==
  \A x \in Range(feed) : \E row \in db :
    LET y == ToDict(Loaded(row)) IN
    /\ y = [x EXCEPT !.ts = y.ts]
    /\ x.ts.aware /\ y.ts.aware
    /\ x.ts.wall - x.ts.zone = y.ts.wall - y.ts.zone

\* The texts of a JSON value, each with the keys and positions it is under.
Below(step, leaves) == {[path |-> <<step>> \o l.path, text |-> l.text] : l \in leaves}
Leaves[m \in Values] ==
  CASE IsDict(m) -> UNION {Below([key |-> k], Leaves[m.dict[k]]) : k \in DOMAIN m.dict}
    [] IsList(m) -> UNION {Below([at |-> i], Leaves[m.list[i]]) : i \in DOMAIN m.list}
    [] OTHER -> {[path |-> <<>>, text |-> m.leaf]}

Secret(l) == \E k \in SecretKeys : [key |-> k] \in Range(l.path)
Sent(n) == post[n[1]].body[n[2]].metadata

\* The metadata that were stored or published, each for an event.
Kept == {[id |-> row.id, metadata |-> row.metadata] :
           row \in {r \in db : r.metadata # Null}}
          \cup {[id |-> x.id, metadata |-> x.metadata] : x \in Range(feed)}

\* Secrets go, and nothing else does: no text under a secret key, at any depth
\* of dicts and lists, is stored or published, and every other text is stored
\* and published where it was sent (redact_metadata).
OnlySecretsGo ==
  \A k \in Kept :
    LET leaves == Leaves[k.metadata] IN
    /\ \A l \in leaves : Secret(l) => l.text = REDACTED.leaf
    /\ IsDict(Sent(k.id)) =>
         {l \in leaves : ~Secret(l)} = {l \in Leaves[Sent(k.id)] : ~Secret(l)}
=============================================================================
