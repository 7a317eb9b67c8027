CONSTANTS
  s1 = s1
  s2 = s2
  g1 = g1
  g2 = g2
  Subs = {s1}
  Gifts = {g1, g2}
  Offered = {"first_gift"}
  Length = 1
  MaxTime = 2
  MaxInvoices = 1
  MaxChanges = 0
  MaxRefunds = 1
  MaxPending = 1
  NoGift = NoGift
  NoSlot = NoSlot
SPECIFICATION FairSpec
CHECK_DEADLOCK FALSE
INVARIANTS GiftsHaveTheirSlots RefundAnswered
PROPERTIES PaymentRecorded BonusReachesGift
