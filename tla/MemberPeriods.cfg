CONSTANTS
  s1 = s1
  s2 = s2
  g1 = g1
  g2 = g2
  Subs = {s1, s2}
  Gifts = {}
  Offered = {"payment"}
  Length = 1
  MaxTime = 2
  MaxInvoices = 2
  MaxChanges = 1
  MaxRefunds = 1
  MaxPending = 2
  NoGift = NoGift
  NoSlot = NoSlot
SPECIFICATION Spec
CHECK_DEADLOCK FALSE
INVARIANTS TypeOK OneBonusPerMoment
SYMMETRY Symmetric
