---------------------------- MODULE MCLikePipeline ----------------------------
(* LikePipeline for TLC. *)
EXTENDS LikePipeline, TLC

Symmetry == Permutations(Procs) \cup Permutations(Consumers)
=============================================================================
