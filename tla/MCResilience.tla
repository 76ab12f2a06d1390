---------------------------- MODULE MCResilience ----------------------------
EXTENDS Resilience, TLC

CONSTANTS r1, r2
Symmetric == Permutations({r1, r2})
=============================================================================
