---------------------------- MODULE MCGiftOrders ----------------------------
EXTENDS GiftOrders, TLC

CONSTANTS l1, s1, sender, friend, seller, loop, w1, w2

MCShopOf == l1 :> s1
MCSellerOf == l1 :> seller
MCWorth == [S \in SUBSET Lines |-> Cardinality(S)]
=============================================================================
