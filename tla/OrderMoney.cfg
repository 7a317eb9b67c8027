CONSTANTS
  l1 = l1
  s1 = s1
  sender = sender
  friend = friend
  seller = seller
  loop = loop
  w1 = w1
  w2 = w2
  Header = Header
  Nobody = Nobody
  Lines = {l1}
  Shops = {s1}
  ShopOf <- MCShopOf
  Repeats = {}
  Customers = {sender}
  Sender = sender
  Sellers = {seller}
  SellerOf <- MCSellerOf
  Worth <- MCWorth
  AtOrder = {TRUE}
  Credit = 0
  SenderStart = {0}
  SellerStart = {0}
  GiftPoints = 1
  OrderPoints = 0
  Passes = {}
  Amount = 2
  Workers = {w1, w2}
  Channels = {"cs", "pi"}
  ByHand = {1}
  MaxFaults = 1
SPECIFICATION Spec
CHECK_DEADLOCK FALSE
INVARIANTS RefundFollowsCancel RefundedInFull
