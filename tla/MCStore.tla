------------------------------- MODULE MCStore -------------------------------
(* Instances of Store for TLC. *)
EXTENDS Store, TLC

CONSTANTS p1, p2, t1, t2, Nobody

TwoPosts == {p1, p2}
AllTenants == {t1, t2}

\* One caller has a tenant; the other has none, hence the default t2.
Callers12 == (p1 :> t1) @@ (p2 :> Nobody)

-----------------------------------------------------------------------------
\* JSON values: two keys, lists of at most one, dicts up to three deep.
Keys == {"token", "note"}
Dicts(V) == {[dict |-> d] : d \in UNION {[ks -> V] : ks \in SUBSET Keys}}
Lists(V) == {[list |-> <<>>]} \cup {[list |-> <<v>>] : v \in V}
Wider(V) == V \cup Dicts(V) \cup Lists(V)
UnderNote(V) == {[dict |-> [note |-> v]] : v \in V}
Texts == {[leaf |-> "value"]}

Json(V) == LET W == Wider(Wider(V)) IN W \cup UnderNote(W)
Scalars == Texts \cup {REDACTED}
Flat == Wider(Scalars)
Nested == Wider(Flat)
JsonValues == Json(Scalars)
JsonDepth(v) ==
  IF v \in Scalars THEN 0 ELSE IF v \in Flat THEN 1
  ELSE IF v \in Nested THEN 2 ELSE 3
Metadatas == {m \in Json(Texts) : IsDict(m)}

-----------------------------------------------------------------------------
\* Events.
At(n) == [kind |-> "epoch", at |-> n]
Event(o, a, v) ==
  [object |-> TRUE, event_type |-> "known", orchestrator |-> o, agent_name |-> a,
   session_id |-> "s", metadata |-> Null, ts |-> v]
Plain == Event(NoOne, "root", At(1))
Child(n) == Event("root", "child", At(n))

Stamps ==
  {Unbounded, At(1), [kind |-> "huge"], [kind |-> "garbage"], [kind |-> "object"],
   [kind |-> "naive", wall |-> 1]}
    \cup [kind : {"zoned"}, wall : {1, 2}, zone : {0, 1}]

Faulty ==
  {[Plain EXCEPT !.object = FALSE], [Plain EXCEPT !.event_type = "unknown"],
   [Plain EXCEPT !.event_type = "unhashable"], [Plain EXCEPT !.agent_name = ""],
   [Plain EXCEPT !.session_id = ""]}
    \cup {[Plain EXCEPT !.ts = [kind |-> k]] : k \in {"huge", "garbage"}}

\* Batches of one event with any metadata or time, and batches that fail.
Odd ==
  {<<[Plain EXCEPT !.metadata = m]>> : m \in Metadatas}
    \cup {<<[Plain EXCEPT !.metadata = m]>> : m \in Wider(Texts)}
    \cup {<<[Plain EXCEPT !.ts = v]>> : v \in Stamps}
    \cup {<<Plain, e>> : e \in Faulty} \cup {<<e, Plain>> : e \in Faulty}

\* Batches that tie, nest and drive one another.
Lineages ==
  {<<Child(1), Child(1), Child(2)>>, <<Child(0), Plain, Child(2)>>,
   <<Event("root", "root", At(1)), Child(1)>>,
   <<Event("", "child", At(0)), Child(1), Plain>>,
   <<Event("child", "leaf", At(0)), Child(0), Child(1)>>}

OddAndOrdinary == (p1 :> Odd) @@ (p2 :> Lineages)

-----------------------------------------------------------------------------
\* Questions.
Bounds ==
  {Unbounded, [kind |-> "naive", wall |-> 1],
   [kind |-> "zoned", wall |-> 2, zone |-> 1]}
Questions ==
  [orchestrator : {Absent, "root"}, agent_name : {Absent, "root"},
   session_id : {Absent, "s"}, since : {Unbounded}, until : {Unbounded},
   subtree : BOOLEAN, limit : {1, 2}]
    \cup [orchestrator : {Absent}, agent_name : {Absent}, session_id : {Absent},
          since : Bounds, until : Bounds, subtree : {FALSE}, limit : {1, 2}]
=============================================================================
