------------------------- MODULE MC_ConnectionContract -------------------------
EXTENDS ConnectionContract, TLC

CONSTANTS c1, c2, s1, s2, d1, d2

\* Connections, sessions and temporary destinations are interchangeable.
Perms == Permutations({c1, c2}) \cup Permutations({s1, s2}) \cup Permutations({d1, d2})
=============================================================================
