SPECIFICATION Spec
CONSTANTS
  Grants <- MCGrants
  Cost = 2
  Limits = {1, 2}
  HoldTTL = 1
  Window = 1
  RoundEnd = 3
  MaxTime = 3
  MaxLag = 1
  MaxEntries = 2
  MaxVoids = 2
PROPERTIES RefundTakesUnused
CHECK_DEADLOCK FALSE
