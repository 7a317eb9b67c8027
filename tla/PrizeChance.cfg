SPECIFICATION Spec
CONSTANTS
  c1 = c1
  c2 = c2
  k1 = k1
  k2 = k2
  Customers = {c1, c2}
  Keys = {k1, k2}
  WinnerMethods = {"instant", "draw"}
  PointsUnits = {"legacy"}
  Growth = TRUE
  Increment = 3
  MaxPrize = 7
  ContinueAtCap = FALSE
  StartPrizes = {2, 4}
  Cost = 1
  InitialPoints = 2
  MaxAttempts = 0
  DailyLimit = 1
  AdjustDeltas <- MCAdjustDeltas
  MaxPlays = 2
  MaxAdjusts = 0
  MaxVoids = 2
  MaxEdits = 1
  MaxDay = 1
  MaxWaits = 1
SYMMETRY Symmetry
INVARIANTS LimitsKept
PROPERTIES ImplementsPot
CHECK_DEADLOCK FALSE
