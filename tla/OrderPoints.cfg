CONSTANTS
  l1 = l1
  s1 = s1
  sender = sender
  friend = friend
  seller = seller
  loop = loop
  w1 = w1
  w2 = w2
  Header = Header
  Nobody = Nobody
  Lines = {l1}
  Shops = {s1}
  ShopOf <- MCShopOf
  Repeats = {}
  Customers = {sender, friend}
  Sender = sender
  Sellers = {seller}
  SellerOf <- MCSellerOf
  Worth <- MCWorth
  AtOrder = {TRUE, FALSE}
  Credit = 0
  SenderStart = {1}
  SellerStart = {1}
  GiftPoints = 1
  OrderPoints = 1
  Passes = {loop}
  Amount = 1
  Workers = {}
  Channels = {"pi"}
  ByHand = {1}
  MaxFaults = 1
SPECIFICATION FairSpec
CHECK_DEADLOCK FALSE
INVARIANTS TypeOK ReservedBacked PointsConserved NothingShipsUnpaid
PROPERTIES PointsResolve PaymentNoticed
