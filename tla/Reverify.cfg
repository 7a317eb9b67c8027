SPECIFICATION WinnersSpec
CONSTANTS
  c1 = c1
  c2 = c2
  c3 = c3
  Customers = {c1, c2}
  Keys = {1, 2}
  WinnerMethods = {"score"}
  PointsUnits = {"legacy"}
  Growth = TRUE
  Increment = 1
  MaxPrize = 6
  ContinueAtCap = TRUE
  StartPrizes = {2}
  Cost = 1
  InitialPoints = 2
  MaxAttempts = 0
  DailyLimit <- Unset
  AdjustDeltas <- MCAdjustDeltas
  MaxPlays = 2
  MaxAdjusts = 1
  MaxVoids = 2
  MaxEdits = 0
  MaxDay = 0
  MaxWaits = 0
  NumberOfWinners = 1
  PrizePoints = 0
  Score <- MCScore
  MaxReplacing = 2
SYMMETRY Symmetry
INVARIANTS CountersMatch
CHECK_DEADLOCK FALSE
