----------------------------- MODULE MCBackplane -----------------------------
(* An instance of Backplane for TLC. *)
EXTENDS Backplane

CONSTANTS s1, s2, a

TwoSubs == {s1, s2}
OneEvent == {a}
=============================================================================
