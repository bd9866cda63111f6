--------------------------- MODULE MCLikeService ---------------------------
(* LikeService for TLC: users and goroutines are interchangeable. *)
EXTENDS LikeService, TLC

Symmetry == Permutations(Users) \cup Permutations(Procs)
=============================================================================
