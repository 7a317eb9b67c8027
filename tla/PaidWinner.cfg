SPECIFICATION WinnersSpec
CONSTANTS
  c1 = c1
  c2 = c2
  c3 = c3
  Customers = {c1, c2, c3}
  Keys = {1, 2, 3}
  WinnerMethods = {"score"}
  PointsUnits = {"legacy"}
  Growth = TRUE
  Increment = 1
  MaxPrize = 6
  ContinueAtCap = TRUE
  StartPrizes = {2}
  Cost = 1
  InitialPoints = 3
  MaxAttempts = 0
  DailyLimit <- Unset
  AdjustDeltas <- MCAdjustDeltas
  MaxPlays = 3
  MaxAdjusts = 0
  MaxVoids = 0
  MaxEdits = 0
  MaxDay = 0
  MaxWaits = 0
  NumberOfWinners = 2
  PrizePoints = 0
  Score <- MCScore
  MaxReplacing = 1
SYMMETRY Symmetry
PROPERTIES PaidWinnerStays
CHECK_DEADLOCK FALSE
