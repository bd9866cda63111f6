--------------------------- MODULE MCFollowingFeed ---------------------------
(* FollowingFeed for TLC. *)
EXTENDS FollowingFeed, TLC

Symmetry == Permutations(Authors)
=============================================================================
