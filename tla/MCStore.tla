------------------------------- MODULE MCStore -------------------------------
(* Store for TLC. *)
EXTENDS Store, TLC

Symmetry == Permutations(Names)
=============================================================================
