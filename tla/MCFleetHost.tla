----------------------------- MODULE MCFleetHost -----------------------------
(* Instances of FleetHost for TLC. *)
EXTENDS FleetHost, TLC

CONSTANTS p1, p2, c1, c2, t1, t2, Nobody

OnePost == {p1}
TwoPosts == {p1, p2}
OneClient == {c1}
TwoClients == {c1, c2}
AllTenants == {t1, t2}

\* The first callers are of tenant t1, the second of none, hence of the
\* default tenant t2.
Callers == [x \in Posts \cup Clients |-> IF x \in {p1, c1} THEN t1 ELSE Nobody]

\* Both posts and both clients belong to tenant t1.
SameCaller == [x \in Posts \cup Clients |-> t1]

\* No events, a valid batch, a batch whose second event is invalid.
Batches == {<<>>, <<TRUE, TRUE>>, <<TRUE, FALSE>>}
ValidBatch == {<<TRUE, TRUE>>}
Singles == {<<TRUE>>}
=============================================================================
