----------------------------- MODULE MCTranscode -----------------------------
(* Transcode for TLC: one video, whose task may be in the queue twice.       *)
EXTENDS Transcode

CONSTANTS v1, t1, t2, w1, w2
MCVideoOf == [t \in Tasks |-> v1]
=============================================================================
