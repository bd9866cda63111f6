----------------------------- MODULE MCStoreFeed -----------------------------
(* StoreFeed for TLC: limits below, at and above the two limits of the code.  *)
EXTENDS StoreFeed

MCLimits == {-1, 1, 3}
=============================================================================
