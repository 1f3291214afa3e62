----------------------------- MODULE MCModelTree -----------------------------
(* A small tree for TLC: a root with one child that updates may replace. *)
EXTENDS ModelTree, TLC

CONSTANTS root, kid, new

Tree == [m \in Models |-> IF m = root THEN [child |-> kid] ELSE <<>>]

Levels == [m \in Models |-> IF m = root THEN 0 ELSE 1]
=============================================================================
