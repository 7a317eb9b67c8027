--------------------------- MODULE MCMemberships ----------------------------
EXTENDS Memberships, TLC

CONSTANTS s1, s2, g1, g2

\* The joins are interchangeable; only safety is checked under it.
Symmetric == Permutations(Subs)
=============================================================================
