------------------------------ MODULE MCFanout ------------------------------
(* Fanout for TLC. *)
EXTENDS Fanout, TLC

Symmetry == Permutations(Workers)
=============================================================================
