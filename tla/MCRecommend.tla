----------------------------- MODULE MCRecommend -----------------------------
(* Recommend for TLC: overlapping requests over a few videos.                *)
EXTENDS Recommend
CONSTANTS p1, p2
=============================================================================
