--------------------------- MODULE MCRateLimiter ---------------------------
(* Instances of RateLimiter for TLC.                                       *)
EXTENDS RateLimiter, TLC

CONSTANTS a, b, r1, r2, r3, r4, r5

MCAgents   == {a, b}
MCRequests == {r1, r2, r3, r4, r5}
Symmetry   == Permutations(MCRequests) \cup Permutations(MCAgents)
=============================================================================
