------------------------------ MODULE MCSignal ------------------------------
(* Two writers, or one, and two subscribers, small enough for TLC. *)
EXTENDS Signal, TLC

Symmetry == Permutations(Subscribers) \cup Permutations(Threads)
=============================================================================
