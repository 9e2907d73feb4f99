---------------------------- MODULE MCRateLimiter ----------------------------
EXTENDS RateLimiter

CONSTANTS p1, p2, k1

MCProcs == {p1, p2}
MCKeys1 == {k1}
ProcSymmetry == Permutations(MCProcs)
=============================================================================
