---------------------------- MODULE MCPrizeRound ----------------------------
(* Model values and bounds for checking PrizeRound and PrizeReconcile.     *)
EXTENDS PrizeReconcile, TLC

CONSTANTS c1, c2, k1, k2

MCCustomers == {c1, c2}
MCKeys == {k1, k2}
MCAdjustDeltas == {1, -3}
Symmetry == Permutations(MCCustomers) \cup Permutations(MCKeys)
=============================================================================
