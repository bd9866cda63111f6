---------------------------- MODULE MCLikePersist ----------------------------
(* LikePersist for TLC: two users like and unlike one video, one of them     *)
(* twice within a millisecond.                                               *)
EXTENDS LikePersist, FiniteSets, TLC

CONSTANTS u1, u2, v1

Event(i, u, b, t) == [id |-> i, u |-> u, v |-> v1, liked |-> b, ts |-> t]
MCEvents == {Event(1, u1, TRUE, 1), Event(2, u1, FALSE, 2), Event(3, u1, TRUE, 2),
             Event(4, u2, TRUE, 1), Event(5, u2, FALSE, 3)}
Symmetry == Permutations(Workers)
=============================================================================
