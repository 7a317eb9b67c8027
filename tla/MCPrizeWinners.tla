--------------------------- MODULE MCPrizeWinners ---------------------------
(* Model values and bounds for checking PrizeWinners.                      *)
EXTENDS PrizeWinners, TLC

CONSTANTS c1, c2, c3

\* Later plays are neither all better nor all worse: 7, 3, 10.
MCScore == [i \in 1..MaxPlays |-> (7 * i) % 11]
MCAdjustDeltas == {-1}

\* Bounds on the states looked at further: one thing that goes wrong with a
\* play or a player, one claim window that passes, one winner who gets as far
\* as claiming.
GoneWrong ==
    Cardinality(ineligible) + Cardinality(tampered)
      + Cardinality({i \in Plays : ~Live(i)})
      + Cardinality({i \in Plays : Review(i) \in checked \/ attempts[i].score = "manual_review"})
      + Cardinality({n \in DOMAIN ledger : ledger[n].type = "admin_adjustment"})
Claiming == {w \in Winning : winners[w].claim \in {"claimed", "verified", "fulfilled"}}
Bounds == GoneWrong <= 1 /\ Cardinality(lapsed) <= 1 /\ Cardinality(Claiming) <= 1

Symmetry == Permutations(Customers)
=============================================================================
