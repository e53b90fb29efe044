------------------------------- MODULE MCDrain -------------------------------
(* A small instance of Drain for TLC: requests and workers are interchangeable. *)
EXTENDS Drain, TLC

CONSTANTS r1, r2, w1, w2
Symmetry == Permutations({w1, w2}) \cup Permutations({r1, r2})
=============================================================================
