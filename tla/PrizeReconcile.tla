--------------------------- MODULE PrizeReconcile ---------------------------
(***************************************************************************)
(* Reconcile: the engine's own audit of a round. It recomputes the prize   *)
(* from the ledger and compares every link between plays, points and prize *)
(* entries, in one statement that reads one snapshot.                      *)
(***************************************************************************)
EXTENDS PrizeRound, Functions

Entries(type) == {n \in DOMAIN ledger : ledger[n].type = type}
LedgerSum == SumFunctionOnSet([n \in DOMAIN ledger |-> ledger[n].delta], DOMAIN ledger)
LastBalance == IF ledger = <<>> THEN LedgerSum ELSE ledger[Len(ledger)].after

\* The prize the ledger says there should be: its sum, held to the range.
Expected ==
    LET floor == IF LedgerSum < 0 THEN 0 ELSE LedgerSum IN
    IF MaxPrize # Unset /\ floor > MaxPrize THEN MaxPrize ELSE floor

PointsRows(type) == {p \in points : p.type = type}

\* The ten checks, by name: what each should be and what it is.
Check(expected, actual) == [expected |-> expected, actual |-> actual]
Reconcile ==
    [cachedPrize      |-> Check(Expected, current),
     runningBalance   |-> Check(LedgerSum, LastBalance),
     playCounter      |-> Check(Cardinality({i \in Plays : Live(i)}), plays),
     incrementEntries |-> Check(Cardinality({i \in Plays : attempts[i].increment > 0}),
                                Cardinality(Entries("play_increment"))),
     incrementAmounts |-> Check(0, Cardinality({n \in Entries("play_increment") :
                                ledger[n].delta # attempts[ledger[n].ref].increment})),
     orphanReversals  |-> Check(0, Cardinality({n \in Entries("play_reversal") :
                                \/ Live(ledger[n].ref)
                                \/ ledger[n].delta # -attempts[ledger[n].ref].increment})),
     pointsDebits     |-> Check(IF Cost > 0 THEN Len(attempts) ELSE 0,
                                Cardinality(PointsRows("play_debit"))),
     debitAmounts     |-> Check(0, Cardinality({i \in Plays : Cost > 0 /\
                                [type |-> "play_debit", attempt |-> i] \notin points})),
     pointsRefunds    |-> Check(Cardinality({i \in Plays : Refunded(i)}),
                                Cardinality(PointsRows("play_refund"))),
     refundAmounts    |-> Check(0, Cardinality({i \in Plays : Refunded(i) /\
                                [type |-> "play_refund", attempt |-> i] \notin points}))]

Discrepancies ==
    LET r == Reconcile IN {c \in DOMAIN r : r[c].expected # r[c].actual}
PointsChecks == {"pointsDebits", "debitAmounts", "pointsRefunds", "refundAmounts"}

\* The scheduled reconciliation says the truth about a round that was not
\* cancelled, at any moment it may run: not between a play and its refund, on
\* a voided play or after an edit of the start prize does it report anything
\* on a round played with legacy points. A round played with competition
\* points it reports from the first play on, for its points alone: the checks
\* look for rows of the legacy points ledger, which such plays never have.
ReconcileClean ==
    LET reported == Discrepancies IN
    status # "cancelled" =>
      IF unit = "legacy" THEN reported = {}
      ELSE /\ reported \subseteq PointsChecks
           /\ attempts # <<>> => {"pointsDebits", "debitAmounts"} \subseteq reported
           /\ (\E i \in Plays : Refunded(i)) => {"pointsRefunds", "refundAmounts"} \subseteq reported
=============================================================================
