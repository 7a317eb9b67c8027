SPECIFICATION Spec
CONSTANTS
  c1 = c1
  c2 = c2
  k1 = k1
  k2 = k2
  Customers = {c1, c2}
  Keys = {k1, k2}
  WinnerMethods = {"score"}
  PointsUnits = {"legacy", "competition"}
  Growth = TRUE
  Increment = 3
  MaxPrize = 7
  ContinueAtCap = TRUE
  StartPrizes = {2}
  Cost = 1
  InitialPoints = 2
  MaxAttempts = 1
  DailyLimit <- Unset
  AdjustDeltas <- MCAdjustDeltas
  MaxPlays = 2
  MaxAdjusts = 1
  MaxVoids = 2
  MaxEdits = 0
  MaxDay = 0
  MaxWaits = 0
SYMMETRY Symmetry
INVARIANTS TypeOK LedgerIsChain PointsConserved ScoresMatchPlays CancelMakesWhole ReconcileClean
CHECK_DEADLOCK FALSE
