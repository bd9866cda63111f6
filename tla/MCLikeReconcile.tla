--------------------------- MODULE MCLikeReconcile ---------------------------
(* LikeReconcile for TLC: two users like and unlike one video.               *)
EXTENDS LikeReconcile

CONSTANTS u1, u2, v1, w1, r1, r2

Event(i, u, b, t) == [id |-> i, u |-> u, v |-> v1, liked |-> b, ts |-> t]
MCEvents == {Event(1, u1, TRUE, 1), Event(2, u2, TRUE, 1), Event(3, u2, FALSE, 2)}
=============================================================================
