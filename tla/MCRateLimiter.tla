--------------------------- MODULE MCRateLimiter ----------------------------
(* An instance of RateLimiter for TLC: two keys whose limits change among   *)
(* none, one and two, windows of two seconds and ticks of half a second.    *)
EXTENDS RateLimiter, TLC

Symmetry == Permutations(Key)
=============================================================================
