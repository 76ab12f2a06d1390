------------------------------ MODULE MCAccounts ------------------------------
EXTENDS AuthRoutes, TLC

CONSTANTS r1, r2, e1, e2, n1, n2, ip1

Symmetric == Permutations({r1, r2}) \cup Permutations({e1, e2})
               \cup Permutations({n1, n2})

=============================================================================
