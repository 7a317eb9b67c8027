-------------------------- MODULE GiftOrdersProofs --------------------------
(***************************************************************************)
(* Proofs about a gift order: the types, the points its sellers promise,   *)
(* the keys of the points ledger, the points altogether, and its money.    *)
(*                                                                         *)
(* The inductive invariant IInv adds to the properties what they rest on:  *)
(* the keys of a line follow its reward status (LineKeys), those of the    *)
(* gift its status (GiftKeys), and no gift is held before the order is     *)
(* placed (NoGiftYet).  Rewards add up by the additivity of Worth, points  *)
(* by the sums of SumTheorems.                                             *)
(***************************************************************************)
EXTENDS GiftOrders, SumTheorems

LEMMA OrdersInitType == OrdersInit => OrdersTypeOK
BY OrdersAssumption DEF OrdersInit, OrdersTypeOK, Statuses, LineStatuses, Handover, Idle

LEMMA RefreshType ==
    ASSUME NEW st \in Statuses, NEW ln
    PROVE  refreshOrderStatus(st, ln) \in Statuses
BY DEF refreshOrderStatus, Statuses

LEMMA ShopStepType ==
    ASSUME OrdersTypeOK, ShopStep
    PROVE  OrdersTypeOK'
<1>1. ASSUME NEW l \in Lines, AcceptItemForSeller(l) PROVE OrdersTypeOK'
  BY <1>1 DEF AcceptItemForSeller, OrdersTypeOK, LineStatuses
<1>8. ASSUME NEW l \in Lines, RefreshOrderStatus(l) PROVE OrdersTypeOK'
  BY <1>8, RefreshType DEF RefreshOrderStatus, OrdersTypeOK
<1> SUFFICES ASSUME NEW s \in Shops,
                    \/ StartLocalDelivery(s) \/ DispatchSellerManagedItems(s)
                    \/ CompleteLocalDelivery(s) \/ MarkShopLocalDelivered(s)
                    \/ CommitDelivered(s) \/ RollbackDelivered(s)
             PROVE  OrdersTypeOK'
  BY <1>1, <1>8 DEF ShopStep
<1>2. CASE StartLocalDelivery(s)
  BY <1>2 DEF StartLocalDelivery, OrdersTypeOK, LinesOf
<1>3. CASE DispatchSellerManagedItems(s)
  BY <1>3, RefreshType DEF DispatchSellerManagedItems, OrdersTypeOK, LineStatuses
<1>4. CASE CompleteLocalDelivery(s)
  BY <1>4 DEF CompleteLocalDelivery, OrdersTypeOK, Handover
<1>5. CASE MarkShopLocalDelivered(s)
  <2> PICK L : L = {l \in LinesOf(s) : line[l] = "dispatched"}
    OBVIOUS
  <2>1. L \in SUBSET Lines
    BY DEF LinesOf
  <2> PICK c \in BOOLEAN : c = (status # "delivered" /\ AllFinished(WithDelivered(L)))
    OBVIOUS
  <2>2. handover' = [handover EXCEPT ![s] = [phase |-> "open", lines |-> L, closes |-> c]]
    BY <1>5, <2>1 DEF MarkShopLocalDelivered
  <2> QED
    BY <1>5, <2>1, <2>2 DEF MarkShopLocalDelivered, OrdersTypeOK, Handover
<1>6. CASE CommitDelivered(s)
  <2>1. handover'[s] \in Handover /\ handover' \in [Shops -> Handover]
    BY <1>6 DEF CommitDelivered, OrdersTypeOK, Handover, Idle
  <2>2. line' \in [Lines -> LineStatuses]
    BY <1>6 DEF CommitDelivered, OrdersTypeOK, WithDelivered, LineStatuses
  <2> QED
    BY <1>6, <2>1, <2>2 DEF CommitDelivered, OrdersTypeOK, Statuses
<1>7. CASE RollbackDelivered(s)
  BY <1>7 DEF RollbackDelivered, OrdersTypeOK, Handover, Idle
<1> QED
  BY <1>2, <1>3, <1>4, <1>5, <1>6, <1>7

LEMMA CancelOrderType ==
    ASSUME OrdersTypeOK, CancelOrder
    PROVE  OrdersTypeOK'
BY DEF CancelOrder, OrdersTypeOK, Statuses, LineStatuses, Dead

LEMMA PaymentsInitType == PaymentsInit => PaymentsTypeOK
<1> SUFFICES ASSUME PaymentsInit PROVE PaymentsTypeOK
  OBVIOUS
<1>1. 0 \in 0 .. Amount /\ 0 \in 0 .. MaxFaults
  BY PaymentsAssumption
<1>2. {listed, lateCancel} \subseteq BOOLEAN
  BY Zenon DEF PaymentsInit
<1>3. /\ row \in [Channels -> {"none", "requires_payment", "cancelled", "succeeded", "refunded"}]
      /\ intent \in [Channels -> {"none", "open", "paid", "expired"}]
      /\ refunds \in [Channels -> Nat] /\ returned \in [Channels -> 0 .. Amount]
      /\ reading \in SUBSET (Channels \X (1 .. Amount) \X Nat)
  BY <1>1 DEF PaymentsInit
<1>4. /\ due \in [Workers -> SUBSET Lines] /\ payouts \in SUBSET Lines /\ old \in SUBSET Channels
      /\ faults \in 0 .. MaxFaults
  BY <1>1 DEF PaymentsInit
<1>5. /\ paidLast \in Channels \cup {NoChannel} /\ refundKey \in Channels \cup {NoChannel}
      /\ transfers \in SUBSET TransferKeys /\ events \in SUBSET Events /\ work \in SUBSET Works
  BY DEF PaymentsInit
<1> QED
  BY <1>2, <1>3, <1>4, <1>5 DEF PaymentsTypeOK

LEMMA SettleType ==
    ASSUME OrdersTypeOK, PaymentsTypeOK, NEW ch \in Channels, NEW E \in SUBSET Events,
           settle(ch, E)
    PROVE  OrdersTypeOK' /\ PaymentsTypeOK'
<1>1. PaidStatus(status) \in Statuses
  BY DEF PaidStatus, Statuses, OrdersTypeOK
<1>2. <<IF status \in Dead THEN "refund" ELSE "onPaid", ch>> \in Works
  BY DEF Works
<1>3. row' \in [Channels -> {"none", "requires_payment", "cancelled", "succeeded", "refunded"}]
  BY DEF settle, PaymentsTypeOK
<1>4. /\ status' \in Statuses /\ paidLast' \in Channels \cup {NoChannel}
      /\ work' \in SUBSET Works
  BY <1>1, <1>2 DEF settle, PaymentsTypeOK, OrdersTypeOK
<1> QED
  BY <1>3, <1>4 DEF settle, OrdersTypeOK, PaymentsTypeOK, stripeVars

LEMMA ExpireType ==
    ASSUME OrdersTypeOK, PaymentsTypeOK, NEW ch \in Channels, NEW E \in SUBSET Events,
           expire(ch, E)
    PROVE  OrdersTypeOK' /\ PaymentsTypeOK'
BY DEF expire, OrdersTypeOK, PaymentsTypeOK, orderVars, stripeVars

LEMMA ReadRefundsType ==
    ASSUME OrdersTypeOK, PaymentsTypeOK, NEW ch \in Channels, NEW E \in SUBSET Events,
           NEW n \in 1 .. Amount, ReadRefunds(ch, n, E)
    PROVE  OrdersTypeOK' /\ PaymentsTypeOK'
<1>1. refunds[ch] \in Nat
  BY DEF PaymentsTypeOK
<1>2. reading' \in SUBSET (Channels \X (1 .. Amount) \X Nat)
  BY <1>1 DEF ReadRefunds, PaymentsTypeOK
<1> QED
  BY <1>2 DEF ReadRefunds, OrdersTypeOK, PaymentsTypeOK, orderVars, stripeVars

LEMMA ApplyRefundType ==
    ASSUME OrdersTypeOK, PaymentsTypeOK, NEW x \in reading, ApplyRefund(x[1], x[2], x[3])
    PROVE  OrdersTypeOK' /\ PaymentsTypeOK'
<1>0. PICK ch \in Channels, n \in 1 .. Amount, m \in Nat : x = <<ch, n, m>>
  BY DEF PaymentsTypeOK
<1>1. RefundedStatus(status) \in Statuses
  BY DEF RefundedStatus, Statuses, Dead, OrdersTypeOK
<1>2. n \in Nat /\ ApplyRefund(ch, n, m)
  BY <1>0, PaymentsAssumption
<1>3. refunds' \in [Channels -> Nat]
  BY <1>0, <1>2 DEF ApplyRefund, PaymentsTypeOK
<1>4. row' \in [Channels -> {"none", "requires_payment", "cancelled", "succeeded", "refunded"}]
  BY <1>2 DEF ApplyRefund, PaymentsTypeOK
<1>5. reading' \in SUBSET (Channels \X (1 .. Amount) \X Nat)
  BY <1>2 DEF ApplyRefund, PaymentsTypeOK
<1> QED
  BY <1>1, <1>2, <1>3, <1>4, <1>5 DEF ApplyRefund, OrdersTypeOK, PaymentsTypeOK, stripeVars

LEMMA RefundCallType ==
    ASSUME PaymentsTypeOK, NEW ch \in Channels, CreateRefund(ch) \/ RefundRefused(ch)
    PROVE  /\ returned' \in [Channels -> 0 .. Amount]
           /\ events' \in SUBSET Events
           /\ refundKey' \in Channels \cup {NoChannel}
<1>1. <<"refunded", ch, Amount>> \in Events /\ Amount \in 0 .. Amount
  BY PaymentsAssumption DEF Events
<1> QED
  BY <1>1 DEF CreateRefund, RefundRefused, RefundAtStripe, PaymentsTypeOK

LEMMA WebhookType ==
    ASSUME OrdersTypeOK, PaymentsTypeOK, NEW e \in events, HandlePlatformWebhook(e)
    PROVE  OrdersTypeOK' /\ PaymentsTypeOK'
<1>1. e \in Events /\ events \ {e} \in SUBSET Events
  BY DEF PaymentsTypeOK
<1>2. e[2] \in Channels /\ (e[1] = "refunded" => e[3] \in 1 .. Amount)
  BY <1>1 DEF Events
<1> QED
  BY <1>1, <1>2, SettleType, ExpireType, ReadRefundsType DEF HandlePlatformWebhook

LEMMA PaymentStepType ==
    ASSUME OrdersTypeOK, PaymentsTypeOK, PaymentStep
    PROVE  OrdersTypeOK' /\ PaymentsTypeOK'
<1> DEFINE same == UNCHANGED orderVars
<1>0. same => OrdersTypeOK'
  BY DEF orderVars, OrdersTypeOK
<1>1. ASSUME NEW ch \in Channels, PayOrder(ch), same PROVE PaymentsTypeOK'
  BY <1>1 DEF PayOrder, PaymentsTypeOK
<1>2. ASSUME NEW ch \in Channels, CustomerPays(ch), same PROVE PaymentsTypeOK'
  <2>1. <<"paid", ch, 0>> \in Events
    BY DEF Events
  <2> QED
    BY <1>2, <2>1 DEF CustomerPays, PaymentsTypeOK
<1>17. ASSUME NEW ch \in Channels, Ages(ch), same PROVE PaymentsTypeOK'
  BY <1>17 DEF Ages, PaymentsTypeOK, stripeVars
<1>3. ASSUME NEW ch \in Channels, NEW n \in ByHand, DashboardRefund(ch, n), same
      PROVE  PaymentsTypeOK'
  <2>1. n \in 1 .. Amount /\ <<"refunded", ch, n>> \in Events /\ n \in 0 .. Amount
    BY PaymentsAssumption DEF Events
  <2> QED
    BY <1>3, <2>1 DEF DashboardRefund, RefundAtStripe, PaymentsTypeOK
<1>4. ASSUME NEW ch \in Channels, reconcileOne(ch) PROVE OrdersTypeOK' /\ PaymentsTypeOK'
  <2>1. events \in SUBSET Events
    BY DEF PaymentsTypeOK
  <2> QED
    BY <1>4, <2>1, SettleType, ExpireType DEF reconcileOne
<1>5. ASSUME NEW ch \in Channels, RefundInstead(ch) PROVE same /\ PaymentsTypeOK'
  <2>1. CreateRefund(ch) \/ RefundRefused(ch)
    BY <1>5 DEF RefundInstead
  <2> QED
    BY <1>5, <2>1, RefundCallType DEF RefundInstead, PaymentsTypeOK
<1>6. ASSUME SessionLapses, same PROVE PaymentsTypeOK'
  <2>1. <<"expired", "cs", 0>> \in Events
    BY <1>6 DEF Events, SessionLapses
  <2> QED
    BY <1>6, <2>1 DEF SessionLapses, PaymentsTypeOK
<1>7. ASSUME NEW e \in events, EventLost(e) PROVE same /\ PaymentsTypeOK'
  BY <1>7, PaymentsAssumption DEF EventLost, Fault, PaymentsTypeOK, stripeVars
<1>8. ASSUME NEW x \in work, WorkLost(x) PROVE same /\ PaymentsTypeOK'
  BY <1>8, PaymentsAssumption DEF WorkLost, Fault, PaymentsTypeOK, stripeVars
<1>9. ASSUME RefundOrder PROVE same /\ PaymentsTypeOK'
  <2>1. PaidIntentForOrder \subseteq Channels
    BY DEF PaidIntentForOrder, Settled, PaymentsTypeOK
  <2>2. /\ returned' \in [Channels -> 0 .. Amount]
        /\ events' \in SUBSET Events
        /\ refundKey' \in Channels \cup {NoChannel}
    BY <1>9, <2>1, RefundCallType DEF RefundOrder, PaymentsTypeOK
  <2> QED
    BY <1>9, <2>2 DEF RefundOrder, PaymentsTypeOK
<1>10. ASSUME ExpiredUnpaidOrders \/ NotCancelled PROVE same /\ PaymentsTypeOK'
  BY <1>10 DEF ExpiredUnpaidOrders, NotCancelled, PaymentsTypeOK, stripeVars
<1>11. ASSUME NEW w \in Workers, DueTransfers(w) PROVE same /\ PaymentsTypeOK'
  BY <1>11 DEF DueTransfers, PaymentsTypeOK, stripeVars
<1>12. ASSUME NEW w \in Workers, NEW l \in Lines, NEW charge \in BOOLEAN,
              NEW recorded \in BOOLEAN, SendTransfer(w, l, charge, recorded)
       PROVE  same /\ PaymentsTypeOK'
  <2>1. transferKey(l, charge) \in TransferKeys
    BY DEF transferKey, TransferKeys
  <2>2. faults' \in 0 .. MaxFaults
    BY <1>12, PaymentsAssumption DEF SendTransfer, Fault, PaymentsTypeOK
  <2>3. due' \in [Workers -> SUBSET Lines] /\ payouts' \in SUBSET Lines
    BY <1>12 DEF SendTransfer, PaymentsTypeOK
  <2> QED
    BY <1>12, <2>1, <2>2, <2>3 DEF SendTransfer, PaymentsTypeOK
<1> HIDE DEF same
<1>13. ASSUME NEW ch \in Channels,
              \/ PayOrder(ch) /\ UNCHANGED orderVars
              \/ CustomerPays(ch) /\ UNCHANGED orderVars
              \/ Ages(ch) /\ UNCHANGED orderVars
              \/ \E n \in ByHand : DashboardRefund(ch, n) /\ UNCHANGED orderVars
              \/ reconcileOne(ch)
              \/ RefundInstead(ch)
       PROVE  OrdersTypeOK' /\ PaymentsTypeOK'
  BY <1>13, <1>0, <1>1, <1>2, <1>3, <1>4, <1>5, <1>17 DEF same
<1>14. ASSUME NEW e \in events, HandlePlatformWebhook(e) \/ EventLost(e)
       PROVE  OrdersTypeOK' /\ PaymentsTypeOK'
  BY <1>14, <1>0, <1>7, WebhookType
<1>15. ASSUME NEW w \in Workers,
              \/ DueTransfers(w)
              \/ \E l \in Lines, charge, recorded \in BOOLEAN : SendTransfer(w, l, charge, recorded)
       PROVE  OrdersTypeOK' /\ PaymentsTypeOK'
  BY <1>15, <1>0, <1>11, <1>12
<1>16. ASSUME SessionLapses, UNCHANGED orderVars PROVE OrdersTypeOK' /\ PaymentsTypeOK'
  BY <1>16, <1>0, <1>6 DEF same
<1> QED
  BY <1>0, <1>8, <1>9, <1>10, <1>13, <1>14, <1>15, <1>16, ApplyRefundType DEF PaymentStep

---------------------------------------------------------------------------
LEMMA WorthNat == \A L \in SUBSET Lines : Worth[L] \in Nat
BY PointsAssumption

LEMMA WorthEmpty == Worth[{}] = 0
<1>1. Worth[{} \cup {}] = Worth[{}] + Worth[{}] /\ Worth[{}] \in Nat
  BY PointsAssumption
<1>2. {} \cup {} = {}
  OBVIOUS
<1>3. PICK n \in Nat : n = Worth[{}]
  BY <1>1
<1>4. Worth[{} \cup {}] = n
  BY <1>2, <1>3
<1>5. n = n + n
  BY <1>1, <1>3, <1>4
<1>6. n = 0
  BY <1>5
<1> QED
  BY <1>3, <1>6

\* The rewards of one seller's lines of R are those of its lines of L and of
\* the rest.
LEMMA WorthSplit ==
    ASSUME NEW R \in SUBSET Lines, NEW L \in SUBSET R, NEW s
    PROVE  /\ Worth[Of(s, R)] = Worth[Of(s, L)] + Worth[Of(s, R \ L)]
           /\ Worth[Of(s, R)] \in Nat /\ Worth[Of(s, L)] \in Nat
           /\ Worth[Of(s, R \ L)] \in Nat
<1>1. /\ Of(s, R) \in SUBSET Lines /\ Of(s, L) \in SUBSET Lines
      /\ Of(s, R \ L) \in SUBSET Lines
      /\ Of(s, L) \cap Of(s, R \ L) = {}
      /\ Of(s, R) = Of(s, L) \cup Of(s, R \ L)
  BY DEF Of
<1> QED
  BY <1>1, PointsAssumption

\* What holds of the points at any time.
LineKeys ==
    \A l \in Lines :
        /\ reward[l] \in {"unset", "reserved"} =>
             <<"reward-fund", l>> \notin ledger /\ <<"reward", l>> \notin ledger
        /\ reward[l] \in {"unset", "reserved", "awarded"} =>
             <<"reward-reversal", l>> \notin ledger /\ <<"reward-return", l>> \notin ledger

GiftKeys ==
    /\ gift \in {"none", "held"} =>
         <<"gift-return", Header>> \notin ledger /\ <<"gift-recv", Header>> \notin ledger
    /\ gift \in {"none", "held", "delivered"} =>
         /\ <<"gift-reversal", Header>> \notin ledger
         /\ <<"gift-reversal-return", Header>> \notin ledger

PromisesOK == ReservedBacked /\ PromiseWithinCredit
PointsInv == PointsTypeOK /\ PromisesOK /\ LineKeys /\ GiftKeys
NoGiftYet == status = "checkout" => gift = "none"

LedgerRows == Kinds \X (Lines \cup {Header})

\* An inductive step that leaves the promises alone.
LEMMA PromisesSame ==
    ASSUME PointsTypeOK, PromisesOK, reserved' = reserved,
           Rows("reserved")' = Rows("reserved"),
           \A s \in Sellers : sellerPoints'[s] >= sellerPoints[s],
           sellerPoints' \in [Sellers -> Int]
    PROVE  PromisesOK'
<1>1. Credit \in Nat
  BY PointsAssumption
<1>2. ReservedBacked'
  BY DEF PromisesOK, ReservedBacked, Of
<1>3. PromiseWithinCredit'
  BY <1>1 DEF PromisesOK, PromiseWithinCredit, PointsTypeOK
<1> QED
  BY <1>2, <1>3 DEF PromisesOK

LEMMA PayEffect ==
    ASSUME PointsInv, NEW L \in SUBSET Rows("reserved"), NEW d \in Int,
           points[Sender] + Worth[L] + d >= 0,
           NEW K \in SUBSET {<<"gift-send", Header>>},
           payLineRewards(L, d, K)
    PROVE  /\ points' \in [Customers -> Nat]
           /\ sellerPoints' \in [Sellers -> Int] /\ reserved' \in [Sellers -> Nat]
           /\ reward' \in [Lines -> RewardStatuses]
           /\ ledger' \in SUBSET LedgerRows
           /\ PromisesOK' /\ LineKeys'
           /\ \A k \in Kinds \ {"gift-send"} :
                <<k, Header>> \in ledger' => <<k, Header>> \in ledger
<1> PICK R : R = Rows("reserved")
  OBVIOUS
<1>1. R \in SUBSET Lines /\ L \in SUBSET R /\ L \in SUBSET Lines
  BY DEF Rows
<1>2. /\ points \in [Customers -> Nat] /\ sellerPoints \in [Sellers -> Int]
      /\ reserved \in [Sellers -> Nat] /\ reward \in [Lines -> RewardStatuses]
      /\ ledger \in SUBSET LedgerRows
  BY DEF PointsInv, PointsTypeOK, LedgerRows
<1>3. points' \in [Customers -> Nat]
  <2>1. Worth[L] \in Nat /\ Sender \in Customers
    BY <1>1, WorthNat, PointsAssumption
  <2>2. points[Sender] + Worth[L] + d \in Nat
    BY <1>2, <2>1
  <2> QED
    BY <1>2, <2>2 DEF payLineRewards
<1>4. ASSUME NEW s \in Sellers
      PROVE  /\ Worth[Of(s, L)] \in Nat
             /\ sellerPoints'[s] = sellerPoints[s] - Worth[Of(s, L)]
             /\ reserved'[s] = reserved[s] - Worth[Of(s, L)]
             /\ reserved'[s] = Worth[Of(s, R \ L)]
             /\ Worth[Of(s, R \ L)] \in Nat
  <2>1. reserved[s] = Worth[Of(s, R)]
    BY DEF PointsInv, PromisesOK, ReservedBacked
  <2>2. sellerPoints'[s] = sellerPoints[s] - Worth[Of(s, L)] /\ reserved'[s] = reserved[s] - Worth[Of(s, L)]
    BY DEF payLineRewards
  <2>3. /\ Worth[Of(s, R)] = Worth[Of(s, L)] + Worth[Of(s, R \ L)]
        /\ Worth[Of(s, L)] \in Nat /\ Worth[Of(s, R \ L)] \in Nat
    BY <1>1, WorthSplit
  <2> QED
    BY <1>2, <2>1, <2>2, <2>3
<1>5. sellerPoints' \in [Sellers -> Int] /\ reserved' \in [Sellers -> Nat]
  <2>1. /\ sellerPoints' = [s \in Sellers |-> sellerPoints[s] - Worth[Of(s, L)]]
        /\ reserved' = [s \in Sellers |-> reserved[s] - Worth[Of(s, L)]]
    BY DEF payLineRewards
  <2>2. \A s \in Sellers : /\ sellerPoints[s] - Worth[Of(s, L)] \in Int
                           /\ reserved[s] - Worth[Of(s, L)] \in Nat
    <3> TAKE s \in Sellers
    <3> QED
      BY <1>2, <1>4
  <2> QED
    BY <2>1, <2>2
<1>6. reward' = [l \in Lines |-> IF l \in L THEN "awarded" ELSE reward[l]]
  BY DEF payLineRewards, Marked
<1>7. reward' \in [Lines -> RewardStatuses] /\ Rows("reserved")' = R \ L
  BY <1>1, <1>2, <1>6 DEF RewardStatuses, Rows
<1>8. PromisesOK'
  <2>1. ReservedBacked'
    BY <1>4, <1>7 DEF ReservedBacked, Of
  <2>2. PromiseWithinCredit'
    <3> SUFFICES ASSUME NEW s \in Sellers PROVE sellerPoints'[s] - reserved'[s] >= -Credit
      BY DEF PromiseWithinCredit
    <3>1. sellerPoints[s] - reserved[s] >= -Credit
      BY DEF PointsInv, PromisesOK, PromiseWithinCredit
    <3>2. Credit \in Nat
      BY PointsAssumption
    <3> QED
      BY <1>2, <1>4, <3>1, <3>2
  <2> QED
    BY <2>1, <2>2 DEF PromisesOK
<1>9. ledger' = ledger \cup ({"reward-fund", "reward"} \X L) \cup K
  BY DEF payLineRewards, RewardKeys
<1>10. ledger' \in SUBSET LedgerRows
  BY <1>1, <1>2, <1>9 DEF LedgerRows, Kinds
<1>11. LineKeys'
  <2>1. \A l \in Lines : reward'[l] \in {"unset", "reserved"} => l \notin L /\ reward'[l] = reward[l]
    BY <1>6
  <2>2. \A l \in Lines : l \in L => reward[l] = "reserved"
    BY DEF Rows
  <2>3. Header \notin Lines
    BY PointsAssumption
  <2>4. ASSUME NEW l \in Lines, l \notin L
        PROVE \A k \in {"reward-fund", "reward", "reward-reversal", "reward-return"} :
                <<k, l>> \in ledger' => <<k, l>> \in ledger
    BY <1>9, <2>3, <2>4
  <2>5. ASSUME NEW l \in Lines
        PROVE \A k \in {"reward-reversal", "reward-return"} :
                <<k, l>> \in ledger' => <<k, l>> \in ledger
    BY <1>9, <2>3
  <2>6. ASSUME NEW l \in Lines, l \in L
        PROVE <<"reward-reversal", l>> \notin ledger /\ <<"reward-return", l>> \notin ledger
    BY <2>2, <2>6 DEF PointsInv, LineKeys
  <2> QED
    BY <1>6, <2>1, <2>4, <2>5, <2>6 DEF PointsInv, LineKeys
<1>12. \A k \in Kinds \ {"gift-send"} : <<k, Header>> \in ledger' => <<k, Header>> \in ledger
  BY <1>1, <1>9, PointsAssumption
<1> QED
  BY <1>3, <1>5, <1>7, <1>8, <1>10, <1>11, <1>12

LEMMA SettleEffect ==
    ASSUME PointsInv, NEW st, NEW ln, NEW taken \in SUBSET Rows("awarded"),
           points[Sender] + Returned(st) >= Worth[taken],
           SettleUndeliveredPoints(st, ln, taken)
    PROVE  /\ points' \in [Customers -> Nat]
           /\ sellerPoints' \in [Sellers -> Int] /\ reserved' \in [Sellers -> Nat]
           /\ reward' \in [Lines -> RewardStatuses] /\ gift' \in GiftStatuses
           /\ ledger' \in SUBSET LedgerRows
           /\ PromisesOK' /\ LineKeys' /\ GiftKeys'
<1> PICK R : R = Rows("reserved")
  OBVIOUS
<1> PICK freed : freed = ToRelease(st, ln)
  OBVIOUS
<1>1. /\ R \in SUBSET Lines /\ freed \in SUBSET R /\ taken \in SUBSET Lines
      /\ taken \cap R = {}
  BY DEF Rows, ToRelease
<1>2. /\ points \in [Customers -> Nat] /\ sellerPoints \in [Sellers -> Int]
      /\ reserved \in [Sellers -> Nat] /\ reward \in [Lines -> RewardStatuses]
      /\ ledger \in SUBSET LedgerRows /\ gift \in GiftStatuses
  BY DEF PointsInv, PointsTypeOK, LedgerRows
<1>3. points' \in [Customers -> Nat]
  <2>1. Worth[taken] \in Nat /\ Sender \in Customers /\ Returned(st) \in Nat
    BY <1>1, WorthNat, PointsAssumption DEF Returned
  <2>2. points[Sender] + Returned(st) - Worth[taken] \in Nat
    BY <1>2, <2>1
  <2> QED
    BY <1>2, <2>2 DEF SettleUndeliveredPoints
<1>4. ASSUME NEW s \in Sellers
      PROVE  /\ Worth[Of(s, taken)] \in Nat
             /\ sellerPoints'[s] = sellerPoints[s] + Worth[Of(s, taken)]
             /\ reserved'[s] = Worth[Of(s, R \ freed)]
             /\ Worth[Of(s, R \ freed)] \in Nat
             /\ Worth[Of(s, R \ freed)] <= reserved[s]
  <2>1. reserved[s] = Worth[Of(s, R)]
    BY DEF PointsInv, PromisesOK, ReservedBacked
  <2>2. /\ sellerPoints'[s] = sellerPoints[s] + Worth[Of(s, taken)]
        /\ reserved'[s] = PosInt(reserved[s] - Worth[Of(s, freed)])
    BY DEF SettleUndeliveredPoints
  <2>3. /\ Worth[Of(s, R)] = Worth[Of(s, freed)] + Worth[Of(s, R \ freed)]
        /\ Worth[Of(s, freed)] \in Nat /\ Worth[Of(s, R \ freed)] \in Nat
    BY <1>1, WorthSplit
  <2>4. Worth[Of(s, taken)] \in Nat
    BY <1>1, WorthNat DEF Of
  <2>5. reserved[s] - Worth[Of(s, freed)] = Worth[Of(s, R \ freed)]
    BY <1>2, <2>1, <2>3
  <2>6. reserved'[s] = Worth[Of(s, R \ freed)]
    BY <2>2, <2>3, <2>5 DEF PosInt
  <2> QED
    BY <1>2, <2>1, <2>2, <2>3, <2>4, <2>6
<1>5. sellerPoints' \in [Sellers -> Int] /\ reserved' \in [Sellers -> Nat]
  <2>1. /\ sellerPoints' = [s \in Sellers |-> sellerPoints[s] + Worth[Of(s, taken)]]
        /\ reserved' = [s \in Sellers |-> PosInt(reserved[s] - Worth[Of(s, freed)])]
    BY DEF SettleUndeliveredPoints
  <2>2. \A s \in Sellers : sellerPoints[s] + Worth[Of(s, taken)] \in Int
    BY <1>2, <1>4
  <2>3. \A s \in Sellers : PosInt(reserved[s] - Worth[Of(s, freed)]) \in Nat
    <3> TAKE s \in Sellers
    <3>1. reserved'[s] = PosInt(reserved[s] - Worth[Of(s, freed)])
      BY <2>1
    <3> QED
      BY <1>4, <3>1
  <2> QED
    BY <2>1, <2>2, <2>3
<1>6. reward' = [l \in Lines |-> IF l \in freed THEN "released"
                                ELSE IF l \in taken THEN "reversed" ELSE reward[l]]
  BY DEF SettleUndeliveredPoints
<1>7. reward' \in [Lines -> RewardStatuses] /\ Rows("reserved")' = R \ freed
  BY <1>1, <1>2, <1>6 DEF RewardStatuses, Rows
<1>8. PromisesOK'
  <2>1. ReservedBacked'
    BY <1>4, <1>7 DEF ReservedBacked, Of
  <2>2. PromiseWithinCredit'
    <3> SUFFICES ASSUME NEW s \in Sellers PROVE sellerPoints'[s] - reserved'[s] >= -Credit
      BY DEF PromiseWithinCredit
    <3>1. sellerPoints[s] - reserved[s] >= -Credit
      BY DEF PointsInv, PromisesOK, PromiseWithinCredit
    <3>2. Credit \in Nat
      BY PointsAssumption
    <3> QED
      BY <1>2, <1>4, <3>1, <3>2
  <2> QED
    BY <2>1, <2>2 DEF PromisesOK
<1>9. ledger' = ledger \cup ({"reward-reversal", "reward-return"} \X taken)
                  \cup (IF GiftGoesBack(st) THEN {<<"gift-return", Header>>} ELSE {})
  BY DEF SettleUndeliveredPoints
<1>10. ledger' \in SUBSET LedgerRows
  BY <1>1, <1>2, <1>9 DEF LedgerRows, Kinds
<1>11. LineKeys'
  <2>1. Header \notin Lines
    BY PointsAssumption
  <2>2. ASSUME NEW l \in Lines
        PROVE \A k \in {"reward-fund", "reward"} : <<k, l>> \in ledger' => <<k, l>> \in ledger
    BY <1>9, <2>1
  <2>3. ASSUME NEW l \in Lines, l \notin taken
        PROVE \A k \in {"reward-reversal", "reward-return"} : <<k, l>> \in ledger' => <<k, l>> \in ledger
    BY <1>9, <2>1, <2>3
  <2>4. ASSUME NEW l \in Lines, reward'[l] \in {"unset", "reserved", "awarded"}
        PROVE reward'[l] = reward[l] /\ l \notin taken
    BY <1>1, <1>6, <2>4
  <2> QED
    BY <2>2, <2>3, <2>4 DEF PointsInv, LineKeys
<1>12. gift' \in GiftStatuses /\ GiftKeys'
  <2>1. gift' = IF GiftGoesBack(st) THEN "returned" ELSE gift
    BY DEF SettleUndeliveredPoints
  <2>2. CASE GiftGoesBack(st)
    BY <2>1, <2>2 DEF GiftKeys, GiftStatuses
  <2>3. CASE ~GiftGoesBack(st)
    <3>1. \A k \in {"gift-return", "gift-recv", "gift-reversal", "gift-reversal-return"} :
            <<k, Header>> \in ledger' => <<k, Header>> \in ledger
      BY <1>1, <1>9, <2>3, PointsAssumption
    <3> QED
      BY <1>2, <2>1, <2>3, <3>1 DEF PointsInv, GiftKeys
  <2> QED
    BY <2>2, <2>3
<1> QED
  BY <1>3, <1>5, <1>7, <1>8, <1>10, <1>11, <1>12

LEMMA PromiseKeepsPoints ==
    ASSUME PointsInv, NEW l \in Lines, reserveOrderRewards(l)
    PROVE  PointsInv'
<1> PICK R : R = Rows("reserved")
  OBVIOUS
<1> PICK S : S = SellerOf[l]
  OBVIOUS
<1> PICK w : w = Worth[{l}]
  OBVIOUS
<1>1. S \in Sellers /\ w \in Nat /\ R \in SUBSET Lines /\ l \notin R /\ Credit \in Nat
  BY PointsAssumption, WorthNat DEF Rows, reserveOrderRewards
<1>2. /\ sellerPoints \in [Sellers -> Int] /\ reserved \in [Sellers -> Nat]
      /\ reward \in [Lines -> RewardStatuses]
  BY DEF PointsInv, PointsTypeOK
<1>3. UNCHANGED <<atOrder, gift, giftTo, points, sellerPoints, ledger, pass, outside>>
  BY DEF reserveOrderRewards
<1>4. reward[l] = "unset"
  BY DEF reserveOrderRewards
<1>5. CASE sellerPoints[S] - reserved[S] - w >= -Credit
  <2>1. /\ reward' = [reward EXCEPT ![l] = "reserved"]
        /\ reserved' = [reserved EXCEPT ![S] = reserved[S] + w]
    BY <1>5 DEF reserveOrderRewards
  <2>2. reward' \in [Lines -> RewardStatuses] /\ reserved' \in [Sellers -> Nat]
    BY <1>1, <1>2, <2>1 DEF RewardStatuses
  <2>3. Rows("reserved")' = R \cup {l}
    BY <1>2, <2>1 DEF Rows
  <2>4. ReservedBacked'
    <3> SUFFICES ASSUME NEW s \in Sellers PROVE reserved'[s] = Worth[Of(s, R \cup {l})]
      BY <2>3 DEF ReservedBacked, Of
    <3>1. reserved[s] = Worth[Of(s, R)]
      BY DEF PointsInv, PromisesOK, ReservedBacked
    <3>2. CASE s = S
      <4>1. /\ Of(s, R \cup {l}) = Of(s, R) \cup {l} /\ Of(s, R) \cap {l} = {}
            /\ Of(s, R) \in SUBSET Lines /\ {l} \in SUBSET Lines
        BY <1>1, <3>2 DEF Of
      <4>2. Worth[Of(s, R) \cup {l}] = Worth[Of(s, R)] + Worth[{l}]
        BY <4>1, PointsAssumption
      <4> QED
        BY <1>1, <1>2, <2>1, <3>1, <3>2, <4>1, <4>2
    <3>3. CASE s # S
      <4>1. Of(s, R \cup {l}) = Of(s, R)
        BY <3>3 DEF Of
      <4> QED
        BY <1>1, <1>2, <2>1, <3>1, <3>3, <4>1
    <3> QED
      BY <3>2, <3>3
  <2>5. PromiseWithinCredit'
    <3> SUFFICES ASSUME NEW s \in Sellers PROVE sellerPoints[s] - reserved'[s] >= -Credit
      BY <1>3 DEF PromiseWithinCredit
    <3>1. sellerPoints[s] - reserved[s] >= -Credit
      BY DEF PointsInv, PromisesOK, PromiseWithinCredit
    <3>2. CASE s = S
      BY <1>1, <1>2, <1>5, <2>1, <3>2
    <3>3. CASE s # S
      BY <1>1, <1>2, <2>1, <3>1, <3>3
    <3> QED
      BY <3>2, <3>3
  <2>6. LineKeys' /\ GiftKeys'
    BY <1>2, <1>3, <1>4, <2>1 DEF PointsInv, LineKeys, GiftKeys
  <2> QED
    BY <1>3, <2>2, <2>4, <2>5, <2>6 DEF PointsInv, PointsTypeOK, PromisesOK
<1>6. CASE ~(sellerPoints[S] - reserved[S] - w >= -Credit)
  <2>1. reward' = [reward EXCEPT ![l] = "none"] /\ reserved' = reserved
    BY <1>6 DEF reserveOrderRewards
  <2>2. reward' \in [Lines -> RewardStatuses] /\ Rows("reserved")' = Rows("reserved")
    BY <1>2, <1>4, <2>1 DEF RewardStatuses, Rows
  <2>3. PromisesOK'
    BY <1>2, <1>3, <2>1, <2>2, PromisesSame DEF PointsInv
  <2>4. LineKeys' /\ GiftKeys'
    BY <1>2, <1>3, <2>1 DEF PointsInv, LineKeys, GiftKeys
  <2> QED
    BY <1>3, <2>1, <2>2, <2>3, <2>4 DEF PointsInv, PointsTypeOK
<1> QED
  BY <1>5, <1>6

---------------------------------------------------------------------------
\* The earning job.
PassType == pass \in [Passes -> [step : Steps, rows : SUBSET (Lines \cup {Header})]]
Keeps == PointsInv' /\ (gift = "none" => gift' = "none")

LEMMA DoneType ==
    ASSUME PassType, NEW p \in Passes, NEW x, Done(p, x)
    PROVE  PassType'
<1>1. pass[p] \in [step : Steps, rows : SUBSET (Lines \cup {Header})]
  BY DEF PassType
<1>2. [pass[p] EXCEPT !.rows = @ \ {x}] \in [step : Steps, rows : SUBSET (Lines \cup {Header})]
  BY <1>1
<1>3. pass' = [pass EXCEPT ![p] = [pass[p] EXCEPT !.rows = @ \ {x}]]
  BY DEF Done
<1> QED
  BY <1>2, <1>3 DEF PassType

LEMMA NothingMoved ==
    ASSUME PointsInv, PassType',
           UNCHANGED <<atOrder, reward, gift, giftTo, points, sellerPoints, reserved, ledger>>
    PROVE  Keeps
<1>1. Rows("reserved")' = Rows("reserved")
  BY DEF Rows
<1>2. PromisesOK'
  BY <1>1 DEF PointsInv, PromisesOK, ReservedBacked, PromiseWithinCredit, Of
<1>3. LineKeys' /\ GiftKeys'
  BY DEF PointsInv, LineKeys, GiftKeys
<1> QED
  BY <1>2, <1>3 DEF Keeps, PointsInv, PointsTypeOK, PassType

LEMMA SkipKeeps ==
    ASSUME PointsInv, NEW p \in Passes, NEW x, Skip(p, x)
    PROVE  Keeps
<1>1. PassType'
  BY DoneType DEF Skip, PointsInv, PointsTypeOK, PassType
<1> QED
  BY <1>1, NothingMoved DEF Skip

LEMMA ApplyOneKeeps ==
    ASSUME PointsInv, NEW p \in Passes, NEW key \in {"order", "order-reversal"},
           NEW delta \in Int, ApplyOne(p, key, delta)
    PROVE  Keeps
<1>1. CASE Skip(p, Header)
  BY <1>1, SkipKeeps
<1>2. CASE /\ points[Sender] + delta >= 0
           /\ points' = [points EXCEPT ![Sender] = points[Sender] + delta]
           /\ ledger' = ledger \cup {<<key, Header>>}
           /\ Done(p, Header)
           /\ UNCHANGED <<atOrder, reward, gift, giftTo, sellerPoints, reserved>>
  <2>1. PassType'
    BY <1>2, DoneType DEF PointsInv, PointsTypeOK, PassType
  <2>2. points' \in [Customers -> Nat]
    BY <1>2, PointsAssumption DEF PointsInv, PointsTypeOK
  <2>3. ledger' \in SUBSET LedgerRows
    BY <1>2 DEF PointsInv, PointsTypeOK, LedgerRows, Kinds
  <2>4. Rows("reserved")' = Rows("reserved")
    BY <1>2 DEF Rows
  <2>5. PromisesOK'
    BY <1>2, <2>4 DEF PointsInv, PromisesOK, ReservedBacked, PromiseWithinCredit, Of
  <2>6. LineKeys' /\ GiftKeys'
    BY <1>2 DEF PointsInv, LineKeys, GiftKeys
  <2> QED
    BY <1>2, <2>1, <2>2, <2>3, <2>5, <2>6
       DEF Keeps, PointsInv, PointsTypeOK, PassType, LedgerRows
<1> QED
  BY <1>1, <1>2 DEF ApplyOne

LEMMA AwardOrderKeeps ==
    ASSUME PointsInv, NEW p \in Passes, AwardOrder(p)
    PROVE  Keeps
BY ApplyOneKeeps, PointsAssumption DEF AwardOrder

LEMMA ReverseOrderKeeps ==
    ASSUME PointsInv, NEW p \in Passes, ReverseOrder(p)
    PROVE  Keeps
<1>1. LeastOf(OrderPoints, points[Sender]) \in Int
  BY PointsAssumption DEF LeastOf, PointsInv, PointsTypeOK
<1>2. PICK t \in Int : t = LeastOf(OrderPoints, points[Sender])
  BY <1>1
<1>3. Skip(p, Header) \/ ApplyOne(p, "order-reversal", -t)
  BY <1>2 DEF ReverseOrder
<1>4. -t \in Int
  BY <1>2
<1> QED
  BY <1>3, <1>4, SkipKeeps, ApplyOneKeeps

LEMMA PayDeliveredKeeps ==
    ASSUME PointsInv, NEW p \in Passes, NEW l \in Lines, PayDelivered(p, l)
    PROVE  Keeps
<1>1. CASE Skip(p, l)
  BY <1>1, SkipKeeps
<1>2. CASE Abort(p)
  <2>1. PassType'
    BY <1>2 DEF Abort, PassType, Steps, PointsInv, PointsTypeOK
  <2> QED
    BY <1>2, <2>1, NothingMoved DEF Abort
<1>3. CASE /\ reward[l] = "reserved" /\ payLineRewards({l}, 0, {})
           /\ Done(p, l) /\ UNCHANGED <<atOrder, gift, giftTo, outside>>
  <2>1. {l} \in SUBSET Rows("reserved") /\ {l} \in SUBSET Lines
    BY <1>3 DEF Rows
  <2>2. points[Sender] + Worth[{l}] + 0 >= 0
    BY <2>1, WorthNat, PointsAssumption DEF PointsInv, PointsTypeOK
  <2>3. {} \in SUBSET {<<"gift-send", Header>>} /\ 0 \in Int
    OBVIOUS
  <2>4. /\ points' \in [Customers -> Nat]
        /\ sellerPoints' \in [Sellers -> Int] /\ reserved' \in [Sellers -> Nat]
        /\ reward' \in [Lines -> RewardStatuses]
        /\ ledger' \in SUBSET LedgerRows
        /\ PromisesOK' /\ LineKeys'
        /\ \A k \in Kinds \ {"gift-send"} :
             <<k, Header>> \in ledger' => <<k, Header>> \in ledger
    BY <1>3, <2>1, <2>2, <2>3, PayEffect
  <2>5. GiftKeys'
    BY <1>3, <2>4 DEF PointsInv, GiftKeys, Kinds
  <2>6. PassType'
    BY <1>3, DoneType DEF PointsInv, PointsTypeOK, PassType
  <2> QED
    BY <1>3, <2>4, <2>5, <2>6 DEF Keeps, PointsInv, PointsTypeOK, PassType, LedgerRows
<1> QED
  BY <1>1, <1>2, <1>3 DEF PayDelivered

LEMMA SettleDeadKeeps ==
    ASSUME PointsInv, NEW p \in Passes, SettleDead(p)
    PROVE  Keeps
<1>1. CASE Skip(p, Header)
  BY <1>1, SkipKeeps
<1>2. CASE /\ SettleUndeliveredPoints(status, line, {})
           /\ Done(p, Header) /\ UNCHANGED <<atOrder, giftTo, outside>>
  <2>1. points[Sender] + Returned(status) >= Worth[{}]
    BY WorthEmpty, PointsAssumption DEF Returned, PointsInv, PointsTypeOK
  <2>2. {} \in SUBSET Rows("awarded")
    OBVIOUS
  <2>3. /\ points' \in [Customers -> Nat]
        /\ sellerPoints' \in [Sellers -> Int] /\ reserved' \in [Sellers -> Nat]
        /\ reward' \in [Lines -> RewardStatuses] /\ gift' \in GiftStatuses
        /\ ledger' \in SUBSET LedgerRows
        /\ PromisesOK' /\ LineKeys' /\ GiftKeys'
    BY <1>2, <2>1, <2>2, SettleEffect
  <2>4. gift = "none" => gift' = "none"
    BY <1>2 DEF SettleUndeliveredPoints, GiftGoesBack
  <2>5. PassType'
    BY <1>2, DoneType DEF PointsInv, PointsTypeOK, PassType
  <2> QED
    BY <1>2, <2>3, <2>4, <2>5 DEF Keeps, PointsInv, PointsTypeOK, PassType, LedgerRows
<1> QED
  BY <1>1, <1>2 DEF SettleDead

LEMMA DeliverGiftKeeps ==
    ASSUME PointsInv, NEW p \in Passes, NEW c \in Customers \cup {Nobody}, DeliverGift(p, c)
    PROVE  Keeps
<1> PICK key \in {"gift-return", "gift-recv"} : key = IF c = Nobody THEN "gift-return" ELSE "gift-recv"
  OBVIOUS
<1> PICK to \in Customers : to = IF c = Nobody THEN Sender ELSE c
  BY PointsAssumption
<1>1. CASE Skip(p, Header)
  BY <1>1, SkipKeeps
<1>2. CASE /\ gift = "held"
           /\ points' = [points EXCEPT ![to] = points[to] + GiftPoints]
           /\ ledger' = ledger \cup {<<key, Header>>}
           /\ gift' = (IF c = Nobody THEN "returned" ELSE "delivered")
           /\ giftTo' = c
           /\ Done(p, Header)
           /\ UNCHANGED <<atOrder, reward, sellerPoints, reserved, outside>>
  <2>1. PassType'
    BY <1>2, DoneType DEF PointsInv, PointsTypeOK, PassType
  <2>2. points' \in [Customers -> Nat]
    BY <1>2, PointsAssumption DEF PointsInv, PointsTypeOK
  <2>3. ledger' \in SUBSET LedgerRows /\ gift' \in GiftStatuses
    BY <1>2 DEF PointsInv, PointsTypeOK, LedgerRows, Kinds, GiftStatuses
  <2>4. Rows("reserved")' = Rows("reserved")
    BY <1>2 DEF Rows
  <2>5. PromisesOK'
    BY <1>2, <2>4 DEF PointsInv, PromisesOK, ReservedBacked, PromiseWithinCredit, Of
  <2>6. LineKeys' /\ GiftKeys'
    BY <1>2 DEF PointsInv, LineKeys, GiftKeys
  <2> QED
    BY <1>2, <2>1, <2>2, <2>3, <2>5, <2>6
       DEF Keeps, PointsInv, PointsTypeOK, PassType, LedgerRows
<1> QED
  BY <1>1, <1>2 DEF DeliverGift

LEMMA ReverseRewardKeeps ==
    ASSUME PointsInv, NEW p \in Passes, NEW l \in Lines, ReverseReward(p, l)
    PROVE  Keeps
<1>0. LeastOf(Worth[{l}], points[Sender]) \in 0 .. points[Sender] /\ points[Sender] \in Nat
  BY WorthNat, PointsAssumption DEF LeastOf, PointsInv, PointsTypeOK
<1> PICK t \in 0 .. points[Sender] : t = LeastOf(Worth[{l}], points[Sender])
  BY <1>0
<1> PICK keys : keys = IF t = 0 THEN {} ELSE {"reward-reversal", "reward-return"} \X {l}
  OBVIOUS
<1>1. CASE Skip(p, l)
  BY <1>1, SkipKeeps
<1>2. CASE /\ reward[l] = "awarded"
           /\ points' = [points EXCEPT ![Sender] = points[Sender] - t]
           /\ sellerPoints' = [sellerPoints EXCEPT ![SellerOf[l]] = sellerPoints[SellerOf[l]] + t]
           /\ ledger' = ledger \cup keys
           /\ reward' = [reward EXCEPT ![l] = "reversed"]
           /\ Done(p, l)
           /\ UNCHANGED <<atOrder, gift, giftTo, reserved, outside>>
  <2>1. PassType'
    BY <1>2, DoneType DEF PointsInv, PointsTypeOK, PassType
  <2>2. points' \in [Customers -> Nat]
    BY <1>0, <1>2, PointsAssumption DEF PointsInv, PointsTypeOK
  <2>3. /\ sellerPoints' \in [Sellers -> Int]
        /\ \A s \in Sellers : sellerPoints'[s] >= sellerPoints[s]
    <3> PICK S \in Sellers : S = SellerOf[l]
      BY PointsAssumption
    <3>1. sellerPoints \in [Sellers -> Int] /\ t \in Nat
      BY <1>0 DEF PointsInv, PointsTypeOK
    <3>2. sellerPoints' = [sellerPoints EXCEPT ![S] = sellerPoints[S] + t]
      BY <1>2
    <3>3. sellerPoints[S] + t \in Int /\ sellerPoints[S] + t >= sellerPoints[S]
      BY <3>1
    <3>4. \A s \in Sellers : sellerPoints[s] >= sellerPoints[s]
      BY <3>1
    <3> QED
      BY <3>1, <3>2, <3>3, <3>4
  <2>4. ledger' \in SUBSET LedgerRows /\ reward' \in [Lines -> RewardStatuses]
    BY <1>2 DEF PointsInv, PointsTypeOK, LedgerRows, Kinds, RewardStatuses
  <2>5. Rows("reserved")' = Rows("reserved")
    BY <1>2 DEF Rows, PointsInv, PointsTypeOK
  <2>6. PromisesOK'
    BY <1>2, <2>3, <2>5, PromisesSame DEF PointsInv
  <2>7. \A k, x : <<k, x>> \in ledger' /\ x # l => <<k, x>> \in ledger
    BY <1>2
  <2>8. \A k \in {"reward-fund", "reward"} : \A x : <<k, x>> \in ledger' => <<k, x>> \in ledger
    BY <1>2
  <2>9. LineKeys'
    <3>1. \A x \in Lines : reward'[x] = IF x = l THEN "reversed" ELSE reward[x]
      BY <1>2 DEF PointsInv, PointsTypeOK
    <3> QED
      BY <2>7, <3>1 DEF PointsInv, LineKeys
  <2>10. GiftKeys'
    BY <1>2, <2>7, PointsAssumption DEF PointsInv, GiftKeys
  <2> QED
    BY <1>2, <2>1, <2>2, <2>3, <2>4, <2>6, <2>9, <2>10
       DEF Keeps, PointsInv, PointsTypeOK, PassType, LedgerRows
<1> QED
  BY <1>1, <1>2 DEF ReverseReward

LEMMA ReverseGiftKeeps ==
    ASSUME PointsInv, NEW p \in Passes, ReverseGift(p)
    PROVE  Keeps
<1> PICK t : t = IF giftTo \in Customers \ {Sender} THEN LeastOf(GiftPoints, points[giftTo]) ELSE 0
  OBVIOUS
<1> PICK keys : keys = IF t = 0 THEN {} ELSE {"gift-reversal", "gift-reversal-return"} \X {Header}
  OBVIOUS
<1>0. t \in Nat /\ (giftTo \in Customers \ {Sender} => t <= points[giftTo])
      /\ (giftTo \notin Customers \ {Sender} => t = 0)
  BY PointsAssumption DEF LeastOf, PointsInv, PointsTypeOK
<1>1. CASE Skip(p, Header)
  BY <1>1, SkipKeeps
<1>2. CASE /\ gift = "delivered"
           /\ points' = [c \in Customers |->
                  points[c] + (IF c = Sender THEN t ELSE 0)
                            - (IF c = giftTo THEN t ELSE 0)]
           /\ ledger' = ledger \cup keys
           /\ gift' = "reversed"
           /\ Done(p, Header)
           /\ UNCHANGED <<atOrder, reward, giftTo, sellerPoints, reserved, outside>>
  <2>1. PassType'
    BY <1>2, DoneType DEF PointsInv, PointsTypeOK, PassType
  <2>2. points' \in [Customers -> Nat]
    <3>1. ASSUME NEW c \in Customers
          PROVE points[c] + (IF c = Sender THEN t ELSE 0) - (IF c = giftTo THEN t ELSE 0) \in Nat
      <4>1. points[c] \in Nat
        BY DEF PointsInv, PointsTypeOK
      <4>2. CASE c = giftTo /\ c # Sender
        <5>1. t <= points[c]
          BY <1>0, <4>2
        <5> QED
          BY <1>0, <4>1, <4>2, <5>1
      <4>3. CASE c # giftTo \/ c = Sender
        BY <1>0, <4>1, <4>3
      <4> QED
        BY <4>2, <4>3
    <3> QED
      BY <1>2, <3>1
  <2>3. ledger' \in SUBSET LedgerRows /\ gift' \in GiftStatuses
    BY <1>2 DEF PointsInv, PointsTypeOK, LedgerRows, Kinds, GiftStatuses
  <2>4. Rows("reserved")' = Rows("reserved")
    BY <1>2 DEF Rows
  <2>5. PromisesOK'
    BY <1>2, <2>4 DEF PointsInv, PromisesOK, ReservedBacked, PromiseWithinCredit, Of
  <2>6. LineKeys' /\ GiftKeys'
    BY <1>2, PointsAssumption DEF PointsInv, LineKeys, GiftKeys
  <2> QED
    BY <1>2, <2>1, <2>2, <2>3, <2>5, <2>6
       DEF Keeps, PointsInv, PointsTypeOK, PassType, LedgerRows
<1> QED
  BY <1>1, <1>2 DEF ReverseGift

LEMMA SelectKeeps ==
    ASSUME PointsInv, NEW p \in Passes, Select(p)
    PROVE  Keeps
<1> PICK n : n = (pass[p].step + 1) % 8
  OBVIOUS
<1>1. pass[p].step \in 0 .. 7
  BY DEF PointsInv, PointsTypeOK, Steps
<1>2. n \in 0 .. 7
  BY <1>1
<1>3. Due(n) \in SUBSET (Lines \cup {Header})
  BY <1>2 DEF Due, Rows
<1>4. PassType'
  BY <1>2, <1>3 DEF Select, PassType, Steps, PointsInv, PointsTypeOK
<1> QED
  BY <1>4, NothingMoved DEF Select

LEMMA JobKeeps ==
    ASSUME PointsInv, NEW p \in Passes, Select(p) \/ Process(p) \/ Abort(p)
    PROVE  Keeps
<1>1. CASE Abort(p)
  <2>1. PassType'
    BY <1>1 DEF Abort, PassType, Steps, PointsInv, PointsTypeOK
  <2> QED
    BY <1>1, <2>1, NothingMoved DEF Abort
<1> QED
  BY <1>1, SelectKeeps, AwardOrderKeeps, ReverseOrderKeeps, PayDeliveredKeeps, SettleDeadKeeps,
     DeliverGiftKeeps, ReverseRewardKeeps, ReverseGiftKeeps DEF Process

---------------------------------------------------------------------------
\* Every step of a gift order.
IInv == OrdersTypeOK /\ PaymentsTypeOK /\ PointsInv /\ NoGiftYet

LEMMA NoNewCheckout ==
    ASSUME Next, status' = "checkout"
    PROVE  status = "checkout"
<1>1. \A ch, E : settle(ch, E) => status = "checkout"
  BY DEF settle, PaidStatus
<1>2. \A ch, E : expire(ch, E) => status = "checkout"
  BY DEF expire, orderVars
<1>3. \A ch, n, m : ApplyRefund(ch, n, m) => status = "checkout"
  BY DEF ApplyRefund, RefundedStatus, Dead
<1>4. \A st, ln : refreshOrderStatus(st, ln) = "checkout" => st = "checkout"
  BY DEF refreshOrderStatus
<1>5. CASE ShopStep
  BY <1>4, <1>5 DEF ShopStep, AcceptItemForSeller, RefreshOrderStatus, StartLocalDelivery,
     DispatchSellerManagedItems, CompleteLocalDelivery, MarkShopLocalDelivered,
     CommitDelivered, RollbackDelivered
<1>6. CASE CancelOrder \/ PlaceHeader
  BY <1>6 DEF CancelOrder, PlaceHeader
<1>7. CASE UNCHANGED orderVars
  BY <1>7 DEF orderVars
<1>8. CASE PaymentStep
  <2>1. ASSUME NEW ch \in Channels, reconcileOne(ch) PROVE status = "checkout"
    BY <1>1, <1>2, <2>1 DEF reconcileOne
  <2>2. ASSUME NEW e \in events, HandlePlatformWebhook(e) PROVE status = "checkout"
    BY <1>1, <1>2, <2>2 DEF HandlePlatformWebhook, ReadRefunds, orderVars
  <2>3. ASSUME NEW ch \in Channels, RefundInstead(ch) PROVE UNCHANGED orderVars
    BY <2>3 DEF RefundInstead
  <2>4. ASSUME NEW e \in events, EventLost(e) PROVE UNCHANGED orderVars
    BY <2>4 DEF EventLost
  <2>5. ASSUME NEW x \in work, WorkLost(x) PROVE UNCHANGED orderVars
    BY <2>5 DEF WorkLost
  <2>6. RefundOrder \/ ExpiredUnpaidOrders \/ NotCancelled => UNCHANGED orderVars
    BY DEF RefundOrder, ExpiredUnpaidOrders, NotCancelled
  <2>7. ASSUME NEW w \in Workers PROVE DueTransfers(w) => UNCHANGED orderVars
    BY DEF DueTransfers
  <2>8. ASSUME NEW w \in Workers, NEW l \in Lines, NEW charge \in BOOLEAN, NEW recorded \in BOOLEAN
        PROVE SendTransfer(w, l, charge, recorded) => UNCHANGED orderVars
    BY DEF SendTransfer
  <2>9. ASSUME NEW x \in reading, ApplyRefund(x[1], x[2], x[3]) PROVE status = "checkout"
    BY <1>3, <2>9
  <2> QED
    BY <1>7, <1>8, <2>1, <2>2, <2>3, <2>4, <2>5, <2>6, <2>7, <2>8, <2>9 DEF PaymentStep
<1> QED
  BY <1>5, <1>6, <1>7, <1>8 DEF Next, Promise, Create, CancelForCustomer, CancelExpiredUnpaid,
     OnOrderPaid, JobStep

LEMMA PointsUntouched ==
    ASSUME PointsInv, UNCHANGED pointVars
    PROVE  Keeps
<1>1. PassType'
  BY DEF pointVars, PassType, PointsInv, PointsTypeOK
<1> QED
  BY <1>1, NothingMoved DEF pointVars

LEMMA CreateKeeps ==
    ASSUME PointsInv, gift = "none", PlacePoints
    PROVE  PointsInv'
<1>1. PICK g \in {0, GiftPoints} :
        LET now == IF atOrder /\ ~card THEN Rows("reserved") ELSE {} IN
        /\ points[Sender] + Worth[now] >= g
        /\ gift' = IF g = 0 THEN "none" ELSE "held"
        /\ payLineRewards(now, -g, IF g = 0 THEN {} ELSE {<<"gift-send", Header>>})
  BY DEF PlacePoints
<1> PICK L : L = IF atOrder /\ ~card THEN Rows("reserved") ELSE {}
  OBVIOUS
<1> PICK K : K = IF g = 0 THEN {} ELSE {<<"gift-send", Header>>}
  OBVIOUS
<1>2. L \in SUBSET Rows("reserved") /\ K \in SUBSET {<<"gift-send", Header>>}
  OBVIOUS
<1>3. g \in Nat /\ -g \in Int /\ Worth[L] \in Nat /\ points[Sender] \in Nat
  BY <1>2, WorthNat, PointsAssumption DEF Rows, PointsInv, PointsTypeOK
<1>4. points[Sender] + Worth[L] >= g /\ payLineRewards(L, -g, K)
  BY <1>1
<1>5. points[Sender] + Worth[L] + (-g) >= 0
  BY <1>3, <1>4
<1>6. /\ points' \in [Customers -> Nat]
      /\ sellerPoints' \in [Sellers -> Int] /\ reserved' \in [Sellers -> Nat]
      /\ reward' \in [Lines -> RewardStatuses]
      /\ ledger' \in SUBSET LedgerRows
      /\ PromisesOK' /\ LineKeys'
      /\ \A k \in Kinds \ {"gift-send"} :
           <<k, Header>> \in ledger' => <<k, Header>> \in ledger
  BY <1>2, <1>3, <1>4, <1>5, PayEffect
<1>7. gift' \in {"none", "held"} /\ UNCHANGED <<atOrder, giftTo, pass, outside>>
  BY <1>1 DEF PlacePoints
<1>8. GiftKeys'
  BY <1>6, <1>7 DEF PointsInv, GiftKeys, Kinds
<1> QED
  BY <1>6, <1>7, <1>8 DEF PointsInv, PointsTypeOK, LedgerRows, GiftStatuses

LEMMA PaidOrderKeeps ==
    ASSUME PointsInv, PayRewardsForPaidOrder
    PROVE  Keeps
<1> PICK L : L = IF atOrder /\ status \notin Dead
                 THEN {l \in Rows("reserved") : line[l] # "cancelled"} ELSE {}
  OBVIOUS
<1>1. L \in SUBSET Rows("reserved") /\ {} \in SUBSET {<<"gift-send", Header>>} /\ 0 \in Int
  OBVIOUS
<1>2. points[Sender] + Worth[L] + 0 >= 0
  BY <1>1, WorthNat, PointsAssumption DEF Rows, PointsInv, PointsTypeOK
<1>3. payLineRewards(L, 0, {}) /\ UNCHANGED <<atOrder, gift, giftTo, pass, outside>>
  BY DEF PayRewardsForPaidOrder
<1>4. /\ points' \in [Customers -> Nat]
      /\ sellerPoints' \in [Sellers -> Int] /\ reserved' \in [Sellers -> Nat]
      /\ reward' \in [Lines -> RewardStatuses]
      /\ ledger' \in SUBSET LedgerRows
      /\ PromisesOK' /\ LineKeys'
      /\ \A k \in Kinds \ {"gift-send"} :
           <<k, Header>> \in ledger' => <<k, Header>> \in ledger
  BY <1>1, <1>2, <1>3, PayEffect
<1>5. GiftKeys'
  BY <1>3, <1>4 DEF PointsInv, GiftKeys, Kinds
<1> QED
  BY <1>3, <1>4, <1>5 DEF Keeps, PointsInv, PointsTypeOK, LedgerRows

LEMMA CancelKeeps ==
    ASSUME PointsInv, CancelPoints
    PROVE  PointsInv'
<1> PICK taken : taken = {l \in Rows("awarded") : line'[l] = "cancelled"}
  OBVIOUS
<1>1. taken \in SUBSET Rows("awarded")
  OBVIOUS
<1>2. /\ points[Sender] + Returned("cancelled") >= Worth[taken]
      /\ SettleUndeliveredPoints("cancelled", line', taken)
      /\ UNCHANGED <<atOrder, giftTo, pass, outside>>
  BY DEF CancelPoints
<1>3. /\ points' \in [Customers -> Nat]
      /\ sellerPoints' \in [Sellers -> Int] /\ reserved' \in [Sellers -> Nat]
      /\ reward' \in [Lines -> RewardStatuses] /\ gift' \in GiftStatuses
      /\ ledger' \in SUBSET LedgerRows
      /\ PromisesOK' /\ LineKeys' /\ GiftKeys'
  BY <1>1, <1>2, SettleEffect
<1> QED
  BY <1>2, <1>3 DEF PointsInv, PointsTypeOK, LedgerRows

LEMMA SpendKeeps ==
    ASSUME PointsInv, NEW c \in Customers, Spend(c)
    PROVE  Keeps
<1>1. points' \in [Customers -> Nat]
  BY DEF Spend, PointsInv, PointsTypeOK
<1>2. Rows("reserved")' = Rows("reserved")
  BY DEF Spend, Rows
<1>3. PromisesOK'
  BY <1>2 DEF Spend, PointsInv, PromisesOK, ReservedBacked, PromiseWithinCredit, Of
<1>4. LineKeys' /\ GiftKeys'
  BY DEF Spend, PointsInv, LineKeys, GiftKeys
<1> QED
  BY <1>1, <1>3, <1>4 DEF Spend, Keeps, PointsInv, PointsTypeOK

LEMMA InitInv == Init => IInv
<1> SUFFICES ASSUME Init PROVE IInv
  OBVIOUS
<1>1. OrdersTypeOK /\ PaymentsTypeOK
  BY OrdersInitType, PaymentsInitType DEF Init
<1>2. /\ reward = [l \in Lines |-> "unset"] /\ gift = "none" /\ giftTo = Nobody /\ ledger = {}
      /\ reserved = [s \in Sellers |-> 0]
      /\ pass = [p \in Passes |-> [step |-> 0, rows |-> {}]]
      /\ atOrder \in BOOLEAN
  BY PointsAssumption DEF Init, PointsInit
<1>3. points \in [Customers -> Nat]
  BY PointsAssumption DEF Init, PointsInit
<1>4. /\ sellerPoints \in [Sellers -> Int]
      /\ \A s \in Sellers : sellerPoints[s] >= -Credit
  BY PointsAssumption DEF Init, PointsInit
<1>5. reward \in [Lines -> RewardStatuses] /\ gift \in GiftStatuses
  BY <1>2 DEF RewardStatuses, GiftStatuses
<1>6. pass \in [Passes -> [step : Steps, rows : SUBSET (Lines \cup {Header})]]
  BY <1>2 DEF Steps
<1>7. PointsTypeOK
  BY <1>2, <1>3, <1>4, <1>5, <1>6 DEF PointsTypeOK
<1>8. \A s : Of(s, Rows("reserved")) = {}
  BY <1>2 DEF Of, Rows
<1>9. ReservedBacked
  BY <1>2, <1>8, WorthEmpty DEF ReservedBacked
<1>10. PromiseWithinCredit
  BY <1>2, <1>4, PointsAssumption DEF PromiseWithinCredit
<1>11. LineKeys /\ GiftKeys
  BY <1>2 DEF LineKeys, GiftKeys
<1> QED
  BY <1>1, <1>2, <1>7, <1>9, <1>10, <1>11 DEF IInv, PointsInv, PromisesOK, NoGiftYet

LEMMA StepInv ==
    ASSUME IInv, [Next]_vars
    PROVE  IInv'
<1> USE DEF IInv
<1> DEFINE Others == OrdersTypeOK' /\ PaymentsTypeOK'
<1>0. \A x : Keeps /\ (status' = "checkout" => status = "checkout") => PointsInv' /\ NoGiftYet'
  BY DEF Keeps, NoGiftYet
<1>u. UNCHANGED <<orderVars, paymentVars>> => Others
  BY DEF orderVars, paymentVars, stripeVars, OrdersTypeOK, PaymentsTypeOK
<1>p. UNCHANGED paymentVars => PaymentsTypeOK'
  BY DEF paymentVars, stripeVars, PaymentsTypeOK
<1>1. CASE UNCHANGED vars
  <2>1. UNCHANGED <<orderVars, pointVars, paymentVars>>
    BY <1>1 DEF vars
  <2> QED
    BY <1>0, <1>u, <2>1, PointsUntouched DEF orderVars
<1>2. ASSUME NEW l \in Lines, Promise(l) PROVE IInv'
  <2>1. gift' = gift /\ status' = status
    BY <1>2 DEF Promise, reserveOrderRewards, orderVars
  <2> QED
    BY <1>2, <1>u, <2>1, PromiseKeepsPoints DEF Promise, NoGiftYet
<1>3. CASE Create
  <2>1. OrdersTypeOK' /\ status' = "pending_payment"
    BY <1>3 DEF Create, PlaceHeader, OrdersTypeOK, Statuses
  <2>2. gift = "none"
    BY <1>3 DEF Create, PlaceHeader, NoGiftYet
  <2> QED
    BY <1>3, <1>p, <2>1, <2>2, CreateKeeps DEF Create, NoGiftYet
<1>4. CASE ShopStep /\ UNCHANGED <<pointVars, paymentVars>>
  BY <1>0, <1>4, <1>p, ShopStepType, PointsUntouched, NoNewCheckout DEF Next
<1>5. CASE CancelOrder /\ CancelPoints /\ (AfterCancel \/ CancelUnpaid)
  <2>1. PaymentsTypeOK'
    <3>1. <<"afterCancel", NoChannel>> \in Works
      BY DEF Works
    <3>2. CASE AfterCancel
      BY <3>1, <3>2 DEF AfterCancel, PaymentsTypeOK, stripeVars
    <3>3. CASE CancelUnpaid
      BY <3>3 DEF CancelUnpaid, PaymentsTypeOK, stripeVars
    <3> QED
      BY <1>5, <3>2, <3>3
  <2>2. status' = "cancelled"
    BY <1>5 DEF CancelOrder
  <2> QED
    BY <1>5, <2>1, <2>2, CancelOrderType, CancelKeeps DEF NoGiftYet
<1>6. CASE PaymentStep /\ UNCHANGED pointVars
  BY <1>0, <1>6, PaymentStepType, PointsUntouched, NoNewCheckout DEF Next
<1>7. ASSUME NEW ch \in Channels, OnOrderPaid(ch) PROVE IInv'
  <2>1. Others /\ status' = status
    BY <1>7 DEF OnOrderPaid, orderVars, stripeVars, OrdersTypeOK, PaymentsTypeOK
  <2> QED
    BY <1>0, <1>7, <2>1, PaidOrderKeeps DEF OnOrderPaid
<1>8. ASSUME NEW p \in Passes, JobStep(p) PROVE IInv'
  BY <1>0, <1>8, <1>u, JobKeeps DEF JobStep, orderVars
<1>9. ASSUME NEW p \in Passes, Abort(p), Fault,
             UNCHANGED <<orderVars, row, paidLast, refunds, reading, stripeVars, events, work,
                         listed, lateCancel, due, payouts, old>>
      PROVE  IInv'
  <2>1. Others /\ status' = status
    BY <1>9, PaymentsAssumption DEF Fault, orderVars, stripeVars, OrdersTypeOK, PaymentsTypeOK
  <2> QED
    BY <1>0, <1>9, <2>1, JobKeeps
<1>10. ASSUME NEW c \in Customers, Spend(c), UNCHANGED <<orderVars, paymentVars>> PROVE IInv'
  BY <1>0, <1>10, <1>u, SpendKeeps DEF orderVars
<1> QED
  BY <1>1, <1>2, <1>3, <1>4, <1>5, <1>6, <1>7, <1>8, <1>9, <1>10
     DEF Next, CancelForCustomer, CancelExpiredUnpaid

LEMMA InvConsequences ==
    ASSUME IInv
    PROVE  TypeOK /\ ReservedBacked /\ PromiseWithinCredit /\ NothingDueIsPosted
<1>1. TypeOK /\ ReservedBacked /\ PromiseWithinCredit
  BY DEF IInv, TypeOK, PointsInv, PromisesOK
<1>2. LineKeys /\ GiftKeys
  BY DEF IInv, PointsInv
<1>3. ASSUME NEW l \in Rows("reserved") PROVE RewardKeys({l}) \cap ledger = {}
  <2>1. <<"reward-fund", l>> \notin ledger /\ <<"reward", l>> \notin ledger
    BY <1>2 DEF LineKeys, Rows
  <2>2. RewardKeys({l}) = {<<"reward-fund", l>>, <<"reward", l>>}
    BY DEF RewardKeys
  <2> QED
    BY <2>1, <2>2
<1>4. ASSUME NEW l \in Rows("awarded")
      PROVE  ({"reward-reversal", "reward-return"} \X {l}) \cap ledger = {}
  <2>1. <<"reward-reversal", l>> \notin ledger /\ <<"reward-return", l>> \notin ledger
    BY <1>2 DEF LineKeys, Rows
  <2>2. {"reward-reversal", "reward-return"} \X {l} = {<<"reward-reversal", l>>, <<"reward-return", l>>}
    OBVIOUS
  <2> QED
    BY <2>1, <2>2
<1>5. gift = "held" => {<<"gift-return", Header>>, <<"gift-recv", Header>>} \cap ledger = {}
  BY <1>2 DEF GiftKeys
<1>6. gift = "delivered" =>
        {<<"gift-reversal", Header>>, <<"gift-reversal-return", Header>>} \cap ledger = {}
  BY <1>2 DEF GiftKeys
<1> QED
  BY <1>1, <1>3, <1>4, <1>5, <1>6 DEF NothingDueIsPosted

LEMMA Invariance == Spec => []IInv
BY InitInv, StepInv, PTL DEF Spec

\* Every variable keeps its type: no balance of a customer and no promise of
\* a seller is ever negative, the CHECKs of points.points_accounts and
\* points.seller_points_accounts.
THEOREM GiftOrderTypes == Spec => []TypeOK
BY Invariance, InvConsequences, PTL

\* seller_points_accounts.reserved is the sum of the rewards still reserved,
\* for any number of lines, sellers and overlapping passes.
THEOREM PromisesAreBacked == Spec => []ReservedBacked
BY Invariance, InvConsequences, PTL

\* A seller's promises never go past its points and its credit.
THEOREM PromisesWithinCredit == Spec => []PromiseWithinCredit
BY Invariance, InvConsequences, PTL

\* The ledger's idempotency keys never refuse a movement that is due.
THEOREM DueMovementsAreNew == Spec => []NothingDueIsPosted
BY Invariance, InvConsequences, PTL

\* payLineReward never finds too little promised for rewards that are
\* reserved, so its error, which would end every pass of the earning job
\* before its later selections, does not arise.
EverReservedIsPayable == \A L \in SUBSET Rows("reserved") : Promised(L)

THEOREM ReservedIsPayable == Spec => []EverReservedIsPayable
<1>1. IInv => EverReservedIsPayable
  <2> SUFFICES ASSUME IInv, NEW L \in SUBSET Rows("reserved"), NEW s \in Sellers
               PROVE  Worth[Of(s, L)] <= reserved[s]
    BY DEF EverReservedIsPayable, Promised
  <2> PICK R : R = Rows("reserved")
    OBVIOUS
  <2>1. R \in SUBSET Lines /\ L \in SUBSET R
    BY DEF Rows
  <2>2. reserved[s] = Worth[Of(s, R)]
    BY DEF IInv, PointsInv, PromisesOK, ReservedBacked
  <2>3. /\ Worth[Of(s, R)] = Worth[Of(s, L)] + Worth[Of(s, R \ L)]
        /\ Worth[Of(s, L)] \in Nat /\ Worth[Of(s, R \ L)] \in Nat
    BY <2>1, WorthSplit
  <2> QED
    BY <2>2, <2>3
<1> QED
  BY <1>1, Invariance, PTL


---------------------------------------------------------------------------
(***************************************************************************)
(* Conservation.  A reward moves its worth from its seller to the sender,  *)
(* line by line or for many lines of many sellers at once: what the        *)
(* sellers pay together is the worth of the lines (WorthOfSellers).        *)
(***************************************************************************)

AtCustomers == SumFunctionOnSet(points, Customers)
AtSellers == SumFunctionOnSet(sellerPoints, Sellers)
Shares(L) == [s \in Sellers |-> Worth[Of(s, L)]]

LEMMA WorthOfSellers ==
    ASSUME NEW L \in SUBSET Lines
    PROVE  SumFunctionOnSet(Shares(L), Sellers) = Worth[L]
<1> DEFINE Sold(T) == {l \in L : SellerOf[l] \in T}
           Q == {T \in SUBSET Sellers : SumFunctionOnSet(Shares(L), T) = Worth[Sold(T)]}
<1>1. {} \in Q
  <2>1. Sold({}) = {}
    OBVIOUS
  <2> QED
    BY <2>1, SumEmpty, WorthEmpty
<1>2. ASSUME NEW T \in Q, NEW s \in Sellers \ T PROVE T \cup {s} \in Q
  <2>1. IsFiniteSet(T) /\ T \cup {s} \in SUBSET Sellers
    BY PointsAssumption, FS_Subset
  <2>2. \A r \in T \cup {s} : Shares(L)[r] \in Int
    BY <2>1, WorthNat DEF Shares, Of
  <2>3. SumFunctionOnSet(Shares(L), T \cup {s}) = SumFunctionOnSet(Shares(L), T) + Shares(L)[s]
    BY <2>1, <2>2, SumAdd
  <2>4. /\ Sold(T \cup {s}) = Sold(T) \cup Of(s, L) /\ Sold(T) \cap Of(s, L) = {}
        /\ Sold(T) \in SUBSET Lines /\ Of(s, L) \in SUBSET Lines
    BY DEF Of
  <2>5. Worth[Sold(T \cup {s})] = Worth[Sold(T)] + Worth[Of(s, L)]
    BY <2>4, PointsAssumption
  <2>6. SumFunctionOnSet(Shares(L), T) = Worth[Sold(T)] /\ Shares(L)[s] = Worth[Of(s, L)]
    BY DEF Shares
  <2> QED
    BY <2>1, <2>3, <2>5, <2>6
<1>3. Sellers \in Q
  <2>1. Q \in SUBSET SUBSET Sellers /\ IsFiniteSet(Sellers)
    BY PointsAssumption
  <2> HIDE DEF Q
  <2>2. \A T \in SUBSET Sellers : T \in Q
    BY <1>1, <1>2, <2>1, SetInduction
  <2> QED
    BY <2>2
<1>4. Sold(Sellers) = L
  BY PointsAssumption
<1> QED
  BY <1>3, <1>4

LEMMA SumsInt ==
    ASSUME PointsInv
    PROVE  AtCustomers \in Int /\ AtSellers \in Int /\ Held \in Int
<1>1. IsFiniteSet(Customers) /\ IsFiniteSet(Sellers) /\ GiftPoints \in Nat
  BY PointsAssumption
<1>2. /\ \A c \in Customers : points[c] \in Int
      /\ \A s \in Sellers : sellerPoints[s] \in Int
  BY DEF PointsInv, PointsTypeOK
<1> QED
  BY <1>1, <1>2, SumInt DEF AtCustomers, AtSellers, Held

LEMMA SumOfCustomers ==
    ASSUME NEW f \in [Customers -> Int], NEW x \in Customers, NEW d \in Int,
           NEW g, g = [f EXCEPT ![x] = f[x] + d]
    PROVE  SumFunctionOnSet(g, Customers) = SumFunctionOnSet(f, Customers) + d
<1>1. IsFiniteSet(Customers)
  BY PointsAssumption
<1> QED
  BY <1>1, SumExcept

\* What one customer gives another changes no sum.
LEMMA BetweenCustomers ==
    ASSUME NEW f \in [Customers -> Int], NEW a \in Customers, NEW b \in Customers, a # b,
           NEW t \in Int, NEW g \in [Customers -> Int],
           g[a] = f[a] + t, g[b] = f[b] - t, \A c \in Customers \ {a, b} : g[c] = f[c]
    PROVE  SumFunctionOnSet(g, Customers) = SumFunctionOnSet(f, Customers)
<1> DEFINE h == [f EXCEPT ![a] = f[a] + t]
<1>1. h \in [Customers -> Int]
  OBVIOUS
<1>2. SumFunctionOnSet(h, Customers) = SumFunctionOnSet(f, Customers) + t
  BY SumOfCustomers
<1>3. /\ h[b] \in Int /\ g[b] \in Int /\ g[b] = h[b] - t
      /\ \A c \in Customers \ {b} : h[c] \in Int /\ g[c] = h[c]
  OBVIOUS
<1>4. IsFiniteSet(Customers)
  BY PointsAssumption
<1>5. SumFunctionOnSet(g, Customers) = SumFunctionOnSet(h, Customers) + g[b] - h[b]
  <2> HIDE DEF h
  <2> QED
    BY <1>3, <1>4, SumChange
<1>6. SumFunctionOnSet(f, Customers) \in Int
  BY <1>4, SumInt
<1> QED
  BY <1>2, <1>3, <1>5, <1>6

\* One customer's balance changes by d.
LEMMA CustomersChange ==
    ASSUME PointsInv, NEW c \in Customers, NEW d \in Int,
           points' = [points EXCEPT ![c] = points[c] + d]
    PROVE  AtCustomers' = AtCustomers + d
<1>1. points \in [Customers -> Int]
  BY DEF PointsInv, PointsTypeOK
<1>2. SumFunctionOnSet(points', Customers) = SumFunctionOnSet(points, Customers) + d
  BY <1>1, SumOfCustomers
<1> QED
  BY <1>2 DEF AtCustomers

\* One seller's balance changes by d.
LEMMA SellerChange ==
    ASSUME PointsInv, NEW s \in Sellers, NEW d \in Int,
           sellerPoints' = [sellerPoints EXCEPT ![s] = sellerPoints[s] + d]
    PROVE  AtSellers' = AtSellers + d
<1>1. sellerPoints \in [Sellers -> Int] /\ IsFiniteSet(Sellers)
  BY PointsAssumption DEF PointsInv, PointsTypeOK
<1>2. SumFunctionOnSet(sellerPoints', Sellers) = SumFunctionOnSet(sellerPoints, Sellers) + d
  BY <1>1, SumExcept
<1> QED
  BY <1>2 DEF AtSellers

\* Every seller takes back the worth of its lines of L.
LEMMA SellersTakeBack ==
    ASSUME PointsInv, NEW L \in SUBSET Lines,
           sellerPoints' = [s \in Sellers |-> sellerPoints[s] + Worth[Of(s, L)]]
    PROVE  AtSellers' = AtSellers + Worth[L]
<1>1. sellerPoints \in [Sellers -> Int] /\ IsFiniteSet(Sellers)
  BY PointsAssumption DEF PointsInv, PointsTypeOK
<1>2. \A s \in Sellers : /\ sellerPoints[s] \in Int /\ Shares(L)[s] \in Int
                         /\ sellerPoints'[s] = sellerPoints[s] + Shares(L)[s]
  BY <1>1, WorthNat DEF Shares, Of
<1>3. SumFunctionOnSet(sellerPoints', Sellers) =
        SumFunctionOnSet(sellerPoints, Sellers) + SumFunctionOnSet(Shares(L), Sellers)
  BY <1>1, <1>2, SumPlus
<1> QED
  BY <1>3, WorthOfSellers DEF AtSellers

\* Every seller pays the worth of its lines of L.
LEMMA SellersPay ==
    ASSUME PointsInv, NEW L \in SUBSET Lines,
           sellerPoints' = [s \in Sellers |-> sellerPoints[s] - Worth[Of(s, L)]]
    PROVE  AtSellers' = AtSellers - Worth[L]
<1>1. sellerPoints \in [Sellers -> Int] /\ IsFiniteSet(Sellers)
  BY PointsAssumption DEF PointsInv, PointsTypeOK
<1>2. \A s \in Sellers : Shares(L)[s] = Worth[Of(s, L)] /\ Worth[Of(s, L)] \in Int
  BY WorthNat DEF Shares, Of
<1>3. \A s \in Sellers : /\ sellerPoints'[s] \in Int /\ Shares(L)[s] \in Int
                         /\ sellerPoints[s] = sellerPoints'[s] + Shares(L)[s]
  BY <1>1, <1>2
<1>4. SumFunctionOnSet(sellerPoints, Sellers) =
        SumFunctionOnSet(sellerPoints', Sellers) + SumFunctionOnSet(Shares(L), Sellers)
  BY <1>1, <1>3, SumPlus
<1>5. AtSellers' \in Int /\ AtSellers \in Int /\ Worth[L] \in Int
  BY <1>1, <1>3, SumInt, SumsInt, WorthNat DEF AtSellers
<1>6. AtSellers = AtSellers' + Worth[L]
  BY <1>4, WorthOfSellers DEF AtSellers
<1> QED
  BY <1>5, <1>6

LEMMA PayMoves ==
    ASSUME PointsInv, NEW L \in SUBSET Lines, NEW d \in Int, NEW K, payLineRewards(L, d, K)
    PROVE  AtCustomers' + AtSellers' = AtCustomers + AtSellers + d
<1>1. Worth[L] \in Int /\ Sender \in Customers /\ points[Sender] \in Int
  BY WorthNat, PointsAssumption DEF PointsInv, PointsTypeOK
<1>2. points' = [points EXCEPT ![Sender] = points[Sender] + (Worth[L] + d)] /\ Worth[L] + d \in Int
  <2>1. points' = [points EXCEPT ![Sender] = points[Sender] + Worth[L] + d]
    BY DEF payLineRewards
  <2>2. points[Sender] + Worth[L] + d = points[Sender] + (Worth[L] + d) /\ Worth[L] + d \in Int
    BY <1>1
  <2> QED
    BY <2>1, <2>2
<1>3. AtCustomers' = AtCustomers + (Worth[L] + d)
  BY <1>1, <1>2, CustomersChange
<1>4. AtSellers' = AtSellers - Worth[L]
  BY SellersPay DEF payLineRewards
<1> QED
  BY <1>1, <1>3, <1>4, SumsInt

LEMMA SettleMoves ==
    ASSUME PointsInv, NEW st, NEW ln, NEW taken \in SUBSET Lines,
           SettleUndeliveredPoints(st, ln, taken)
    PROVE  AtCustomers' + AtSellers' + Held' = AtCustomers + AtSellers + Held
<1>1. /\ Worth[taken] \in Int /\ Sender \in Customers /\ points[Sender] \in Int
      /\ GiftPoints \in Int
  BY WorthNat, PointsAssumption DEF PointsInv, PointsTypeOK
<1>2. Returned(st) \in Int /\ Held' = Held - Returned(st) /\ Held \in Int
  BY <1>1 DEF SettleUndeliveredPoints, Returned, GiftGoesBack, Held
<1>3. /\ points' = [points EXCEPT ![Sender] = points[Sender] + (Returned(st) - Worth[taken])]
      /\ Returned(st) - Worth[taken] \in Int
  BY <1>1, <1>2 DEF SettleUndeliveredPoints
<1>4. AtCustomers' = AtCustomers + (Returned(st) - Worth[taken])
  BY <1>1, <1>3, CustomersChange
<1>5. AtSellers' = AtSellers + Worth[taken]
  BY SellersTakeBack DEF SettleUndeliveredPoints
<1> QED
  BY <1>1, <1>2, <1>4, <1>5, SumsInt

\* Nothing moves, or only what is not a point.
LEMMA StillConserved ==
    ASSUME PointsConserved, UNCHANGED <<points, sellerPoints, gift, outside>>
    PROVE  PointsConserved'
BY DEF PointsConserved, Held

LEMMA ApplyOneConserves ==
    ASSUME PointsInv, PointsConserved, NEW p \in Passes, NEW key, NEW d \in Int,
           ApplyOne(p, key, d)
    PROVE  PointsConserved'
<1>1. CASE Skip(p, Header)
  BY <1>1, StillConserved DEF Skip
<1>2. CASE /\ points' = [points EXCEPT ![Sender] = points[Sender] + d]
           /\ outside' = outside + d /\ gift' = gift /\ sellerPoints' = sellerPoints
  <2>1. AtCustomers' = AtCustomers + d
    BY <1>2, CustomersChange, PointsAssumption
  <2>2. AtSellers' = AtSellers /\ Held' = Held
    BY <1>2 DEF AtSellers, Held
  <2>3. outside = AtCustomers + AtSellers + Held
    BY DEF PointsConserved, AtCustomers, AtSellers
  <2>4. AtCustomers' + AtSellers' + Held' = outside'
    BY <1>2, <2>1, <2>2, <2>3, SumsInt
  <2> QED
    BY <2>4 DEF PointsConserved, AtCustomers, AtSellers
<1> QED
  BY <1>1, <1>2 DEF ApplyOne

LEMMA PayDeliveredConserves ==
    ASSUME PointsInv, PointsConserved, NEW p \in Passes, NEW l \in Lines, PayDelivered(p, l)
    PROVE  PointsConserved'
<1>1. CASE Skip(p, l) \/ Abort(p)
  BY <1>1, StillConserved DEF Skip, Abort
<1>2. CASE payLineRewards({l}, 0, {}) /\ UNCHANGED <<atOrder, gift, giftTo, outside>>
  <2>1. AtCustomers' + AtSellers' = AtCustomers + AtSellers
    BY <1>2, PayMoves, SumsInt
  <2>2. Held' = Held
    BY <1>2 DEF Held
  <2> QED
    BY <1>2, <2>1, <2>2 DEF PointsConserved, AtCustomers, AtSellers
<1> QED
  BY <1>1, <1>2 DEF PayDelivered

LEMMA SettleDeadConserves ==
    ASSUME PointsInv, PointsConserved, NEW p \in Passes, SettleDead(p)
    PROVE  PointsConserved'
<1>1. CASE Skip(p, Header)
  BY <1>1, StillConserved DEF Skip
<1>2. CASE SettleUndeliveredPoints(status, line, {}) /\ UNCHANGED <<atOrder, giftTo, outside>>
  <2>1. AtCustomers' + AtSellers' + Held' = AtCustomers + AtSellers + Held
    BY <1>2, SettleMoves
  <2> QED
    BY <1>2, <2>1 DEF PointsConserved, AtCustomers, AtSellers
<1> QED
  BY <1>1, <1>2 DEF SettleDead

LEMMA DeliverGiftConserves ==
    ASSUME PointsInv, PointsConserved, NEW p \in Passes, NEW c \in Customers \cup {Nobody},
           DeliverGift(p, c)
    PROVE  PointsConserved'
<1> PICK to \in Customers : to = IF c = Nobody THEN Sender ELSE c
  BY PointsAssumption
<1>1. CASE Skip(p, Header)
  BY <1>1, StillConserved DEF Skip
<1>2. CASE /\ gift = "held" /\ gift' = (IF c = Nobody THEN "returned" ELSE "delivered")
           /\ points' = [points EXCEPT ![to] = points[to] + GiftPoints]
           /\ UNCHANGED <<sellerPoints, outside>>
  <2>1. GiftPoints \in Int /\ Held = GiftPoints /\ Held' = 0
    BY <1>2, PointsAssumption DEF Held
  <2>2. AtCustomers' = AtCustomers + GiftPoints /\ AtSellers' = AtSellers
    BY <1>2, <2>1, CustomersChange DEF AtSellers
  <2>3. AtCustomers' + AtSellers' + Held' = AtCustomers + AtSellers + Held
    BY <2>1, <2>2, SumsInt
  <2> QED
    BY <1>2, <2>3 DEF PointsConserved, AtCustomers, AtSellers
<1> QED
  BY <1>1, <1>2 DEF DeliverGift

LEMMA ReverseRewardConserves ==
    ASSUME PointsInv, PointsConserved, NEW p \in Passes, NEW l \in Lines, ReverseReward(p, l)
    PROVE  PointsConserved'
<1>0. LeastOf(Worth[{l}], points[Sender]) \in Nat /\ points[Sender] \in Nat
  BY WorthNat, PointsAssumption DEF LeastOf, PointsInv, PointsTypeOK
<1> PICK t \in Nat : t = LeastOf(Worth[{l}], points[Sender])
  BY <1>0
<1> PICK S \in Sellers : S = SellerOf[l]
  BY PointsAssumption
<1>1. CASE Skip(p, l)
  BY <1>1, StillConserved DEF Skip
<1>2. CASE /\ points' = [points EXCEPT ![Sender] = points[Sender] - t]
           /\ sellerPoints' = [sellerPoints EXCEPT ![S] = sellerPoints[S] + t]
           /\ UNCHANGED <<gift, outside>>
  <2>1. points[Sender] - t = points[Sender] + (-t) /\ -t \in Int
    BY <1>0
  <2>2. points' = [points EXCEPT ![Sender] = points[Sender] + (-t)]
    BY <1>2, <2>1
  <2>3. AtCustomers' = AtCustomers + (-t)
    BY <2>1, <2>2, CustomersChange, PointsAssumption
  <2>4. AtSellers' = AtSellers + t
    <3>1. t \in Int /\ sellerPoints' = [sellerPoints EXCEPT ![S] = sellerPoints[S] + t]
      BY <1>2
    <3> QED
      BY <3>1, SellerChange
  <2>5. Held' = Held
    BY <1>2 DEF Held
  <2>6. AtCustomers' + AtSellers' + Held' = AtCustomers + AtSellers + Held
    BY <2>3, <2>4, <2>5, SumsInt
  <2> QED
    BY <1>2, <2>6 DEF PointsConserved, AtCustomers, AtSellers
<1> QED
  BY <1>1, <1>2 DEF ReverseReward

\* The recipient's points go to the sender in one step; a gift to oneself
\* moves nothing.
LEMMA ReverseGiftConserves ==
    ASSUME PointsInv, PointsConserved, NEW p \in Passes, ReverseGift(p)
    PROVE  PointsConserved'
<1> PICK t : t = IF giftTo \in Customers \ {Sender} THEN LeastOf(GiftPoints, points[giftTo]) ELSE 0
  OBVIOUS
<1>0. t \in Nat /\ (giftTo \notin Customers \ {Sender} => t = 0)
      /\ Sender \in Customers /\ points \in [Customers -> Nat] /\ IsFiniteSet(Customers)
  BY PointsAssumption DEF LeastOf, PointsInv, PointsTypeOK
<1>1. CASE Skip(p, Header)
  BY <1>1, StillConserved DEF Skip
<1>2. CASE /\ gift = "delivered" /\ gift' = "reversed"
           /\ points' = [c \in Customers |->
                  points[c] + (IF c = Sender THEN t ELSE 0)
                            - (IF c = giftTo THEN t ELSE 0)]
           /\ UNCHANGED <<sellerPoints, outside>>
  <2>1. AtCustomers' = AtCustomers
    <3>1. CASE giftTo \in Customers \ {Sender}
      <4>1. giftTo \in Customers /\ giftTo # Sender /\ t \in Int /\ points \in [Customers -> Int]
        BY <1>0, <3>1
      <4>2. /\ points' \in [Customers -> Int]
            /\ points'[Sender] = points[Sender] + t /\ points'[giftTo] = points[giftTo] - t
            /\ \A c \in Customers \ {Sender, giftTo} : points'[c] = points[c]
        BY <1>0, <1>2, <4>1
      <4> QED
        BY <1>0, <4>1, <4>2, BetweenCustomers DEF AtCustomers
    <3>2. CASE giftTo \notin Customers \ {Sender}
      <4>1. t = 0
        BY <1>0, <3>2
      <4>2. points' = points
        BY <1>0, <1>2, <4>1
      <4> QED
        BY <4>2 DEF AtCustomers
    <3> QED
      BY <3>1, <3>2
  <2>2. AtSellers' = AtSellers /\ Held' = Held
    BY <1>2 DEF AtSellers, Held
  <2> QED
    BY <1>2, <2>1, <2>2 DEF PointsConserved, AtCustomers, AtSellers
<1> QED
  BY <1>1, <1>2 DEF ReverseGift

LEMMA JobConserves ==
    ASSUME PointsInv, PointsConserved, NEW p \in Passes, Select(p) \/ Process(p) \/ Abort(p)
    PROVE  PointsConserved'
<1>1. CASE Select(p) \/ Abort(p)
  BY <1>1, StillConserved DEF Select, Abort
<1>2. CASE AwardOrder(p)
  BY <1>2, ApplyOneConserves, PointsAssumption DEF AwardOrder
<1>3. CASE ReverseOrder(p)
  <2>1. PICK t \in Int : t = LeastOf(OrderPoints, points[Sender])
    BY PointsAssumption DEF LeastOf, PointsInv, PointsTypeOK
  <2>2. Skip(p, Header) \/ ApplyOne(p, "order-reversal", -t)
    BY <1>3, <2>1 DEF ReverseOrder
  <2>3. Skip(p, Header) => PointsConserved'
    BY StillConserved DEF Skip
  <2>4. -t \in Int
    BY <2>1
  <2> QED
    BY <2>2, <2>3, <2>4, ApplyOneConserves
<1> QED
  BY <1>1, <1>2, <1>3, PayDeliveredConserves, SettleDeadConserves, DeliverGiftConserves,
     ReverseRewardConserves, ReverseGiftConserves DEF Process

LEMMA CreateConserves ==
    ASSUME PointsInv, PointsConserved, gift = "none", PlacePoints
    PROVE  PointsConserved'
<1>1. PICK g \in {0, GiftPoints} :
        LET now == IF atOrder /\ ~card THEN Rows("reserved") ELSE {} IN
        /\ gift' = IF g = 0 THEN "none" ELSE "held"
        /\ payLineRewards(now, -g, IF g = 0 THEN {} ELSE {<<"gift-send", Header>>})
  BY DEF PlacePoints
<1> PICK L : L = IF atOrder /\ ~card THEN Rows("reserved") ELSE {}
  OBVIOUS
<1> PICK K : K = IF g = 0 THEN {} ELSE {<<"gift-send", Header>>}
  OBVIOUS
<1>2. L \in SUBSET Lines /\ g \in Int /\ -g \in Int /\ payLineRewards(L, -g, K)
  BY <1>1, PointsAssumption DEF Rows
<1>3. AtCustomers' + AtSellers' = AtCustomers + AtSellers + (-g)
  BY <1>2, PayMoves
<1>4. Held' = g /\ Held = 0
  BY <1>1 DEF Held
<1>5. /\ AtCustomers' + AtSellers' + Held' = AtCustomers + AtSellers + Held
  BY <1>2, <1>3, <1>4, SumsInt
<1>6. outside' = outside
  BY DEF PlacePoints
<1> QED
  BY <1>5, <1>6 DEF PointsConserved, AtCustomers, AtSellers

LEMMA PaidOrderConserves ==
    ASSUME PointsInv, PointsConserved, PayRewardsForPaidOrder
    PROVE  PointsConserved'
<1> PICK L \in SUBSET Lines : L = IF atOrder /\ status \notin Dead
                 THEN {l \in Rows("reserved") : line[l] # "cancelled"} ELSE {}
  BY DEF Rows
<1>1. payLineRewards(L, 0, {}) /\ gift' = gift /\ outside' = outside
  BY DEF PayRewardsForPaidOrder
<1>2. AtCustomers' + AtSellers' = AtCustomers + AtSellers /\ Held' = Held
  BY <1>1, PayMoves, SumsInt DEF Held
<1> QED
  BY <1>1, <1>2 DEF PointsConserved, AtCustomers, AtSellers

LEMMA CancelConserves ==
    ASSUME PointsInv, PointsConserved, CancelPoints
    PROVE  PointsConserved'
<1> PICK taken \in SUBSET Lines : taken = {l \in Rows("awarded") : line'[l] = "cancelled"}
  BY DEF Rows
<1>1. SettleUndeliveredPoints("cancelled", line', taken) /\ outside' = outside
  BY DEF CancelPoints
<1>2. AtCustomers' + AtSellers' + Held' = AtCustomers + AtSellers + Held
  BY <1>1, SettleMoves
<1> QED
  BY <1>1, <1>2 DEF PointsConserved, AtCustomers, AtSellers

LEMMA SpendConserves ==
    ASSUME PointsInv, PointsConserved, NEW c \in Customers, Spend(c)
    PROVE  PointsConserved'
<1>1. points[c] \in Nat
  BY DEF PointsInv, PointsTypeOK
<1>2. points' = [points EXCEPT ![c] = points[c] + (-1)] /\ -1 \in Int
  <2>1. points' = [points EXCEPT ![c] = points[c] - 1]
    BY DEF Spend
  <2>2. points[c] - 1 = points[c] + (-1) /\ -1 \in Int
    BY <1>1
  <2> QED
    BY <2>1, <2>2
<1>3. AtCustomers' = AtCustomers + (-1)
  BY <1>2, CustomersChange
<1>4. AtSellers' = AtSellers /\ Held' = Held /\ outside' = outside - 1
  BY DEF Spend, AtSellers, Held
<1>5. outside = AtCustomers + AtSellers + Held
  BY DEF PointsConserved, AtCustomers, AtSellers
<1>6. AtCustomers' + AtSellers' + Held' = outside'
  BY <1>3, <1>4, <1>5, SumsInt
<1> QED
  BY <1>6 DEF PointsConserved, AtCustomers, AtSellers

LEMMA InitConserves == Init => PointsConserved
<1> SUFFICES ASSUME Init PROVE PointsConserved
  OBVIOUS
<1>1. PointsInv /\ Held = 0
  BY InitInv DEF IInv, Held, Init, PointsInit
<1>2. outside = AtCustomers + AtSellers
  BY DEF Init, PointsInit, AtCustomers, AtSellers
<1>3. AtCustomers + AtSellers + Held = outside
  BY <1>1, <1>2, SumsInt
<1> QED
  BY <1>3 DEF PointsConserved, AtCustomers, AtSellers

LEMMA StepConserves ==
    ASSUME IInv, PointsConserved, [Next]_vars
    PROVE  PointsConserved'
<1> USE DEF IInv
<1>1. CASE UNCHANGED pointVars
  BY <1>1, StillConserved DEF pointVars
<1>2. ASSUME NEW l \in Lines, Promise(l) PROVE PointsConserved'
  BY <1>2, StillConserved DEF Promise, reserveOrderRewards
<1>3. CASE Create
  BY <1>3, CreateConserves DEF Create, PlaceHeader, NoGiftYet
<1>4. CASE CancelForCustomer \/ CancelExpiredUnpaid
  BY <1>4, CancelConserves DEF CancelForCustomer, CancelExpiredUnpaid
<1>5. ASSUME NEW ch \in Channels, OnOrderPaid(ch) PROVE PointsConserved'
  BY <1>5, PaidOrderConserves DEF OnOrderPaid
<1>6. ASSUME NEW p \in Passes, JobStep(p) \/ Abort(p) PROVE PointsConserved'
  BY <1>6, JobConserves DEF JobStep
<1>7. ASSUME NEW c \in Customers, Spend(c) PROVE PointsConserved'
  BY <1>7, SpendConserves
<1> QED
  BY <1>1, <1>2, <1>3, <1>4, <1>5, <1>6, <1>7 DEF Next, vars

\* The points of the customers and the sellers and those the gift holds are
\* what came from outside, for any number of lines, sellers, customers and
\* overlapping passes: a movement that debits one side and not the other,
\* or moves a different amount, has no step.
THEOREM PointsAreConserved == Spec => []PointsConserved
BY Invariance, InitConserves, StepConserves, PTL DEF Spec

-----------------------------------------------------------------------------
(***************************************************************************)
(* Proofs about the money of a gift order: what is called refunded was     *)
(* given back in full, a cancelled order's money goes back but for the     *)
(* named gaps, and a line is transferred once when no call fails.          *)
(*                                                                         *)
(* MoneyInv is inductive together with the types: events, and the refunds  *)
(* being applied, tell what Stripe did, the sum such a refund was read on  *)
(* is at most today's, a settled row stands for money Stripe has, and the  *)
(* refund of an order was made in full for the payment its key was used    *)
(* for.                                                                    *)
(***************************************************************************)

Kept == {"succeeded", "refunded"}

EventsTrue ==
    \A ch \in Channels :
        /\ <<"paid", ch, 0>> \in events => intent[ch] = "paid"
        /\ \A n \in 1 .. Amount :
             <<"refunded", ch, n>> \in events => n <= returned[ch] /\ intent[ch] = "paid"

ReadingTrue ==
    \A ch \in Channels, n \in 1 .. Amount, already \in Nat :
        <<ch, n, already>> \in reading =>
            n <= returned[ch] /\ intent[ch] = "paid" /\ already <= refunds[ch]

RowsTrue ==
    \A ch \in Channels :
        /\ row[ch] \in Kept => intent[ch] = "paid"
        /\ row[ch] # "none" => card
        /\ intent[ch] # "none" => row[ch] # "none"
        /\ <<"refund", ch>> \in work => row[ch] \in Kept
        /\ <<"onPaid", ch>> \in work => row[ch] \in Kept
        /\ refundKey = ch => returned[ch] = Amount /\ row[ch] \in Kept

MoneyInv ==
    RefundedInFull /\ EventsTrue /\ ReadingTrue /\ RowsTrue /\ RefundFollowsCancel
Types == OrdersTypeOK /\ PaymentsTypeOK

LEMMA ReturnedSame ==
    ASSUME Types, returned' = returned, NEW c \in Channels
    PROVE  returned'[c] \in 0 .. Amount /\ returned[c] <= returned'[c]
<1>1. returned[c] \in 0 .. Amount /\ Amount \in Nat
  BY PaymentsAssumption DEF Types, PaymentsTypeOK
<1> QED
  BY <1>1

LEMMA NoChannelIsNone == NoChannel \notin Channels
BY PaymentsAssumption DEF NoChannel

LEMMA InitMoney == Init => MoneyInv
<1> SUFFICES ASSUME Init PROVE MoneyInv
  OBVIOUS
<1>1. /\ row = [ch \in Channels |-> "none"] /\ refunds = [ch \in Channels |-> 0]
      /\ returned = [ch \in Channels |-> 0] /\ events = {} /\ work = {} /\ transfers = {}
      /\ refundKey = NoChannel /\ intent = [ch \in Channels |-> "none"] /\ reading = {}
      /\ status = "checkout"
  BY DEF Init, PaymentsInit, OrdersInit
<1>2. RefundedInFull
  BY <1>1 DEF RefundedInFull
<1>3. EventsTrue /\ ReadingTrue /\ RowsTrue
  BY <1>1, NoChannelIsNone DEF EventsTrue, ReadingTrue, RowsTrue, Kept
<1>4. RefundFollowsCancel
  BY <1>1 DEF RefundFollowsCancel
<1> QED
  BY <1>2, <1>3, <1>4 DEF MoneyInv

\* A step that settles, refunds and cancels nothing.  It may forget work only
\* when a call failed.
LEMMA MoneyQuiet ==
    ASSUME Types, MoneyInv, EventsTrue',
           UNCHANGED <<card, refunds, reading, refundKey, transfers, lateCancel>>,
           status' \in Dead => status' = status,
           faults' = faults \/ (faults' \in Nat /\ faults' > 0),
           \A ch \in Channels :
             /\ intent[ch] = "paid" => intent'[ch] = "paid"
             /\ returned'[ch] \in 0 .. Amount /\ returned[ch] <= returned'[ch]
             /\ intent'[ch] # "none" => row'[ch] # "none"
             /\ row'[ch] = row[ch]
                  \/ (row[ch] \notin Kept /\ row'[ch] \notin Kept /\ (row'[ch] # "none" => card)),
           work' \subseteq work,
           \/ faults' > 0
           \/ /\ \A ch \in Channels : <<"refund", ch>> \in work => <<"refund", ch>> \in work'
              /\ <<"afterCancel", NoChannel>> \in work => <<"afterCancel", NoChannel>> \in work'
    PROVE  MoneyInv'
<1>0. /\ returned \in [Channels -> 0 .. Amount] /\ refunds \in [Channels -> Nat]
      /\ faults \in Nat /\ Amount \in Nat
  BY PaymentsAssumption DEF Types, PaymentsTypeOK
<1>1. RefundedInFull'
  <2>1. ASSUME NEW ch \in Channels, row'[ch] = "refunded"
        PROVE  returned'[ch] = Amount /\ refunds[ch] >= Amount
    <3>1. row[ch] = "refunded"
      BY <2>1 DEF Kept
    <3>2. returned[ch] = Amount /\ refunds[ch] >= Amount
      BY <3>1 DEF MoneyInv, RefundedInFull
    <3> QED
      BY <1>0, <3>2
  <2>2. ASSUME status' = "refunded" PROVE \E ch \in Channels : row'[ch] = "refunded"
    <3>1. PICK ch \in Channels : row[ch] = "refunded"
      BY <2>2 DEF MoneyInv, RefundedInFull, Dead
    <3> QED
      BY <3>1 DEF Kept
  <2> QED
    BY <2>1, <2>2 DEF RefundedInFull
<1>5. ReadingTrue'
  <2> SUFFICES ASSUME NEW ch \in Channels, NEW n \in 1 .. Amount, NEW already \in Nat,
                      <<ch, n, already>> \in reading
               PROVE  n <= returned'[ch] /\ intent'[ch] = "paid" /\ already <= refunds[ch]
    BY DEF ReadingTrue
  <2>1. n <= returned[ch] /\ intent[ch] = "paid" /\ already <= refunds[ch]
    BY DEF MoneyInv, ReadingTrue
  <2> QED
    BY <1>0, <2>1
<1>2. RowsTrue'
  <2> SUFFICES ASSUME NEW ch \in Channels
               PROVE  /\ row'[ch] \in Kept => intent'[ch] = "paid"
                      /\ row'[ch] # "none" => card
                      /\ intent'[ch] # "none" => row'[ch] # "none"
                      /\ <<"refund", ch>> \in work' => row'[ch] \in Kept
                      /\ <<"onPaid", ch>> \in work' => row'[ch] \in Kept
                      /\ refundKey = ch => returned'[ch] = Amount /\ row'[ch] \in Kept
    BY DEF RowsTrue
  <2>1. /\ row[ch] \in Kept => intent[ch] = "paid"
        /\ row[ch] # "none" => card
        /\ intent[ch] # "none" => row[ch] # "none"
        /\ <<"refund", ch>> \in work => row[ch] \in Kept
        /\ <<"onPaid", ch>> \in work => row[ch] \in Kept
        /\ refundKey = ch => returned[ch] = Amount /\ row[ch] \in Kept
    BY DEF MoneyInv, RowsTrue
  <2>2. returned[ch] = Amount => returned'[ch] = Amount
    BY <1>0
  <2> QED
    BY <2>1, <2>2
<1>3. RefundFollowsCancel'
  <2> SUFFICES ASSUME NEW ch \in Channels,
                      status' = "cancelled", row'[ch] = "succeeded", returned'[ch] < Amount
               PROVE  \/ work' \cap {<<"refund", ch>>, <<"afterCancel", NoChannel>>} # {}
                      \/ faults' > 0 \/ lateCancel'
                      \/ \E other \in Channels \ {ch} : row'[other] \in {"succeeded", "refunded"}
    BY DEF RefundFollowsCancel
  <2>1. status = "cancelled" /\ row[ch] = "succeeded" /\ returned[ch] < Amount
    BY <1>0 DEF Kept, Dead
  <2>2. \/ work \cap {<<"refund", ch>>, <<"afterCancel", NoChannel>>} # {}
        \/ faults > 0 \/ lateCancel
        \/ \E other \in Channels \ {ch} : row[other] \in {"succeeded", "refunded"}
    BY <2>1 DEF MoneyInv, RefundFollowsCancel
  <2>3. \A other \in Channels : row[other] \in {"succeeded", "refunded"} => row'[other] = row[other]
    BY DEF Kept
  <2> QED
    BY <2>2, <2>3
<1> QED
  BY <1>1, <1>2, <1>3, <1>5 DEF MoneyInv

LEMMA PayOrderMoney ==
    ASSUME Types, MoneyInv, NEW ch \in Channels, PayOrder(ch), UNCHANGED orderVars
    PROVE  MoneyInv'
<1>1. /\ row' = [row EXCEPT ![ch] = "requires_payment"] /\ row[ch] = "none" /\ card
      /\ intent' = [intent EXCEPT ![ch] = "open"]
      /\ UNCHANGED <<card, status, refunds, reading, returned, refundKey, transfers, events, work, faults, lateCancel>>
  BY DEF PayOrder, orderVars
<1>2. /\ row \in [Channels -> {"none", "requires_payment", "cancelled", "succeeded", "refunded"}]
      /\ intent \in [Channels -> {"none", "open", "paid", "expired"}]
      /\ returned \in [Channels -> 0 .. Amount]
  BY DEF Types, PaymentsTypeOK
<1>3. intent[ch] = "none"
  BY <1>1 DEF MoneyInv, RowsTrue
<1>4. EventsTrue'
  BY <1>1, <1>2, <1>3 DEF MoneyInv, EventsTrue
<1>5. ASSUME NEW c \in Channels
      PROVE  /\ intent[c] = "paid" => intent'[c] = "paid"
             /\ returned'[c] \in 0 .. Amount /\ returned[c] <= returned'[c]
             /\ intent'[c] # "none" => row'[c] # "none"
             /\ row'[c] = row[c]
                  \/ (row[c] \notin Kept /\ row'[c] \notin Kept /\ (row'[c] # "none" => card))
  <2>1. row'[c] = row[c] \/ (row[c] \notin Kept /\ row'[c] \notin Kept /\ (row'[c] # "none" => card))
    BY <1>1, <1>2 DEF Kept
  <2>2. intent'[c] # "none" => row'[c] # "none"
    BY <1>1, <1>2 DEF MoneyInv, RowsTrue
  <2>3. intent[c] = "paid" => intent'[c] = "paid"
    BY <1>1, <1>2, <1>3
  <2> QED
    BY <1>1, <2>1, <2>2, <2>3, ReturnedSame
<1> QED
  BY <1>1, <1>4, <1>5, MoneyQuiet

LEMMA CustomerPaysMoney ==
    ASSUME Types, MoneyInv, NEW ch \in Channels, CustomerPays(ch), UNCHANGED orderVars
    PROVE  MoneyInv'
<1>1. /\ intent' = [intent EXCEPT ![ch] = "paid"] /\ intent[ch] = "open"
      /\ events' = events \cup {<<"paid", ch, 0>>}
      /\ UNCHANGED <<card, status, row, refunds, reading, returned, refundKey, transfers, work, faults, lateCancel>>
  BY DEF CustomerPays, orderVars
<1>2. /\ intent \in [Channels -> {"none", "open", "paid", "expired"}]
      /\ returned \in [Channels -> 0 .. Amount]
  BY DEF Types, PaymentsTypeOK
<1>3. EventsTrue'
  BY <1>1, <1>2 DEF MoneyInv, EventsTrue
<1>4. ASSUME NEW c \in Channels
      PROVE  /\ intent[c] = "paid" => intent'[c] = "paid"
             /\ returned'[c] \in 0 .. Amount /\ returned[c] <= returned'[c]
             /\ intent'[c] # "none" => row'[c] # "none"
  <2>1. intent[c] # "none" => row[c] # "none"
    BY DEF MoneyInv, RowsTrue
  <2>2. /\ intent[c] = "paid" => intent'[c] = "paid"
        /\ intent'[c] # "none" => intent[c] # "none"
    BY <1>1, <1>2
  <2> QED
    BY <1>1, <2>1, <2>2, ReturnedSame
<1> QED
  BY <1>1, <1>3, <1>4, MoneyQuiet

LEMMA SessionLapsesMoney ==
    ASSUME Types, MoneyInv, SessionLapses, UNCHANGED orderVars
    PROVE  MoneyInv'
<1>1. /\ "cs" \in Channels /\ intent' = [intent EXCEPT !["cs"] = "expired"] /\ intent["cs"] = "open"
      /\ events' = events \cup {<<"expired", "cs", 0>>}
      /\ UNCHANGED <<card, status, row, refunds, reading, returned, refundKey, transfers, work, faults, lateCancel>>
  BY DEF SessionLapses, orderVars
<1>2. /\ intent \in [Channels -> {"none", "open", "paid", "expired"}]
      /\ returned \in [Channels -> 0 .. Amount]
  BY DEF Types, PaymentsTypeOK
<1>3. EventsTrue'
  BY <1>1, <1>2 DEF MoneyInv, EventsTrue
<1>4. ASSUME NEW c \in Channels
      PROVE  /\ intent[c] = "paid" => intent'[c] = "paid"
             /\ returned'[c] \in 0 .. Amount /\ returned[c] <= returned'[c]
             /\ intent'[c] # "none" => row'[c] # "none"
  <2>1. intent[c] # "none" => row[c] # "none"
    BY DEF MoneyInv, RowsTrue
  <2>2. /\ intent[c] = "paid" => intent'[c] = "paid"
        /\ intent'[c] # "none" => intent[c] # "none"
    BY <1>1, <1>2
  <2> QED
    BY <1>1, <2>1, <2>2, ReturnedSame
<1> QED
  BY <1>1, <1>3, <1>4, MoneyQuiet

LEMMA DashboardRefundMoney ==
    ASSUME Types, MoneyInv, NEW ch \in Channels, NEW n \in ByHand, DashboardRefund(ch, n),
           UNCHANGED orderVars
    PROVE  MoneyInv'
<1>1. /\ intent[ch] = "paid" /\ n > returned[ch]
      /\ returned' = [returned EXCEPT ![ch] = n]
      /\ events' = events \cup {<<"refunded", ch, n>>}
      /\ UNCHANGED <<card, status, row, refunds, reading, intent, refundKey, transfers, work, faults, lateCancel>>
  BY DEF DashboardRefund, RefundAtStripe, orderVars
<1>2. returned \in [Channels -> 0 .. Amount] /\ n \in 1 .. Amount /\ Amount \in Nat
  BY PaymentsAssumption DEF Types, PaymentsTypeOK
<1>3. \A c \in Channels : returned'[c] \in 0 .. Amount /\ returned[c] <= returned'[c]
  BY <1>1, <1>2
<1>4. EventsTrue'
  <2> SUFFICES ASSUME NEW c \in Channels
               PROVE  /\ <<"paid", c, 0>> \in events' => intent[c] = "paid"
                      /\ \A m \in 1 .. Amount :
                           <<"refunded", c, m>> \in events' => m <= returned'[c] /\ intent[c] = "paid"
    BY <1>1 DEF EventsTrue
  <2>1. <<"paid", c, 0>> \in events' => intent[c] = "paid"
    BY <1>1 DEF MoneyInv, EventsTrue
  <2>2. ASSUME NEW m \in 1 .. Amount, <<"refunded", c, m>> \in events'
        PROVE  m <= returned'[c] /\ intent[c] = "paid"
    <3>1. CASE <<"refunded", c, m>> \in events
      <4>1. m <= returned[c] /\ intent[c] = "paid"
        BY <3>1 DEF MoneyInv, EventsTrue
      <4> QED
        BY <1>2, <1>3, <4>1
    <3>2. CASE c = ch /\ m = n
      BY <1>1, <1>2, <3>2
    <3> QED
      BY <1>1, <2>2, <3>1, <3>2
  <2> QED
    BY <2>1, <2>2
<1> QED
  BY <1>1, <1>3, <1>4, MoneyQuiet DEF MoneyInv, RowsTrue

\* Steps that only forget an event or work, or leave the payments alone.
LEMMA ForgetMoney ==
    ASSUME Types, MoneyInv,
           UNCHANGED <<card, row, refunds, reading, intent, returned, refundKey, transfers, lateCancel>>,
           status' \in Dead => status' = status,
           faults' = faults \/ (faults' \in Nat /\ faults' > 0),
           events' \subseteq events, work' \subseteq work,
           \/ faults' > 0
           \/ /\ \A ch \in Channels : <<"refund", ch>> \in work => <<"refund", ch>> \in work'
              /\ <<"afterCancel", NoChannel>> \in work => <<"afterCancel", NoChannel>> \in work'
    PROVE  MoneyInv'
<1>1. returned \in [Channels -> 0 .. Amount] /\ Amount \in Nat
  BY PaymentsAssumption DEF Types, PaymentsTypeOK
<1>2. EventsTrue'
  BY DEF MoneyInv, EventsTrue
<1>3. \A c \in Channels : returned'[c] \in 0 .. Amount /\ returned[c] <= returned'[c]
  BY <1>1
<1>4. \A c \in Channels : intent[c] # "none" => row[c] # "none"
  BY DEF MoneyInv, RowsTrue
<1> QED
  BY <1>2, <1>3, <1>4, MoneyQuiet

LEMMA ExpireMoney ==
    ASSUME Types, MoneyInv, NEW ch \in Channels, NEW E \in SUBSET events, expire(ch, E)
    PROVE  MoneyInv'
<1>1. /\ row' = (IF row[ch] = "requires_payment" THEN [row EXCEPT ![ch] = "cancelled"] ELSE row)
      /\ events' = E
      /\ UNCHANGED <<card, status, refunds, reading, intent, returned, refundKey, transfers, work, faults, lateCancel>>
  BY DEF expire, orderVars, stripeVars
<1>2. /\ row \in [Channels -> {"none", "requires_payment", "cancelled", "succeeded", "refunded"}]
      /\ returned \in [Channels -> 0 .. Amount] /\ Amount \in Nat
  BY PaymentsAssumption DEF Types, PaymentsTypeOK
<1>3. EventsTrue'
  BY <1>1 DEF MoneyInv, EventsTrue
<1>4. ASSUME NEW c \in Channels
      PROVE  /\ returned'[c] \in 0 .. Amount /\ returned[c] <= returned'[c]
             /\ intent'[c] # "none" => row'[c] # "none"
             /\ row'[c] = row[c]
                  \/ (row[c] \notin Kept /\ row'[c] \notin Kept /\ (row'[c] # "none" => card))
  <2>1. intent[c] # "none" => row[c] # "none"
    BY DEF MoneyInv, RowsTrue
  <2>2. row[ch] # "none" => card
    BY DEF MoneyInv, RowsTrue
  <2>3. \/ row'[c] = row[c]
        \/ c = ch /\ row[c] = "requires_payment" /\ row'[c] = "cancelled"
    BY <1>1, <1>2
  <2> QED
    BY <1>1, <2>1, <2>2, <2>3, ReturnedSame DEF Kept
<1> QED
  BY <1>1, <1>3, <1>4, MoneyQuiet

\* settle, for a payment Stripe has.  On an order that died meanwhile it asks
\* for the refund; else the order is not cancelled afterwards either.
LEMMA SettleMoney ==
    ASSUME Types, MoneyInv, NEW ch \in Channels, NEW E \in SUBSET events, settle(ch, E),
           intent[ch] = "paid"
    PROVE  MoneyInv'
<1>0. UNCHANGED <<card, refunds, reading, intent, returned, refundKey, transfers, faults, lateCancel>>
      /\ events' \subseteq events
  BY DEF settle, stripeVars
<1>1. CASE ~Settleable(ch)
  BY <1>0, <1>1, ForgetMoney DEF settle
<1>2. CASE Settleable(ch)
  <2>1. /\ row' = [row EXCEPT ![ch] = "succeeded"]
        /\ status' = PaidStatus(status)
        /\ work' = work \cup {<<IF status \in Dead THEN "refund" ELSE "onPaid", ch>>}
        /\ row[ch] \in {"requires_payment", "cancelled"}
    BY <1>2 DEF settle, Settleable
  <2>2. row \in [Channels -> {"none", "requires_payment", "cancelled", "succeeded", "refunded"}]
        /\ returned \in [Channels -> 0 .. Amount] /\ Amount \in Nat /\ refunds \in [Channels -> Nat]
    BY PaymentsAssumption DEF Types, PaymentsTypeOK
  <2>3. \A c \in Channels : row'[c] = IF c = ch THEN "succeeded" ELSE row[c]
    BY <2>1, <2>2
  <2>4. EventsTrue' /\ ReadingTrue'
    BY <1>0, <2>3 DEF MoneyInv, EventsTrue, ReadingTrue
  <2>7. RefundedInFull'
    <3>1. ASSUME NEW c \in Channels, row'[c] = "refunded"
          PROVE  returned'[c] = Amount /\ refunds'[c] >= Amount
      BY <1>0, <2>3, <3>1 DEF MoneyInv, RefundedInFull
    <3>2. ASSUME status' = "refunded" PROVE \E c \in Channels : row'[c] = "refunded"
      <4>1. PICK c \in Channels : row[c] = "refunded"
        BY <2>1, <3>2 DEF PaidStatus, MoneyInv, RefundedInFull
      <4> QED
        BY <2>1, <2>3, <4>1
    <3> QED
      BY <3>1, <3>2 DEF RefundedInFull
  <2>5. RowsTrue'
    <3> SUFFICES ASSUME NEW c \in Channels
                 PROVE  /\ row'[c] \in Kept => intent'[c] = "paid"
                        /\ row'[c] # "none" => card'
                        /\ intent'[c] # "none" => row'[c] # "none"
                        /\ <<"refund", c>> \in work' => row'[c] \in Kept
                        /\ <<"onPaid", c>> \in work' => row'[c] \in Kept
                        /\ refundKey' = c => returned'[c] = Amount /\ row'[c] \in Kept
      BY DEF RowsTrue
    <3>1. /\ row[c] \in Kept => intent[c] = "paid"
          /\ row[c] # "none" => card
          /\ intent[c] # "none" => row[c] # "none"
          /\ <<"refund", c>> \in work => row[c] \in Kept
          /\ <<"onPaid", c>> \in work => row[c] \in Kept
          /\ refundKey = c => returned[c] = Amount /\ row[c] \in Kept
      BY DEF MoneyInv, RowsTrue
    <3>2. CASE c = ch
      BY <1>0, <2>1, <2>3, <3>1, <3>2 DEF Kept
    <3>3. CASE c # ch
      BY <1>0, <2>1, <2>3, <3>1, <3>3
    <3> QED
      BY <3>2, <3>3
  <2>6. RefundFollowsCancel'
    <3> SUFFICES ASSUME NEW c \in Channels,
                        status' = "cancelled", row'[c] = "succeeded", returned'[c] < Amount
                 PROVE  \/ work' \cap {<<"refund", c>>, <<"afterCancel", NoChannel>>} # {}
                        \/ faults' > 0 \/ lateCancel'
                        \/ \E other \in Channels \ {c} : row'[other] \in {"succeeded", "refunded"}
      BY DEF RefundFollowsCancel
    <3>1. status = "cancelled"
      BY <2>1 DEF PaidStatus
    <3>2. CASE c = ch
      BY <2>1, <3>1, <3>2 DEF Dead
    <3>3. CASE c # ch
      BY <2>3, <3>3
    <3> QED
      BY <3>2, <3>3
  <2> QED
    BY <2>4, <2>5, <2>6, <2>7 DEF MoneyInv
<1> QED
  BY <1>1, <1>2

\* A refund event begins to be applied, on the sum recorded so far.
LEMMA ReadRefundsMoney ==
    ASSUME Types, MoneyInv, NEW ch \in Channels, NEW n \in 1 .. Amount,
           <<"refunded", ch, n>> \in events, NEW E \in SUBSET events, ReadRefunds(ch, n, E)
    PROVE  MoneyInv'
<1>1. UNCHANGED <<card, status, row, refunds, intent, returned, refundKey, transfers, work,
                  faults, lateCancel>> /\ events' \subseteq events
  BY DEF ReadRefunds, stripeVars, orderVars
<1>2. reading' \subseteq reading \cup {<<ch, n, refunds[ch]>>}
  BY DEF ReadRefunds
<1>3. refunds[ch] \in Nat
  BY DEF Types, PaymentsTypeOK
<1>4. ReadingTrue'
  <2> SUFFICES ASSUME NEW c \in Channels, NEW m \in 1 .. Amount, NEW already \in Nat,
                      <<c, m, already>> \in reading'
               PROVE  m <= returned[c] /\ intent[c] = "paid" /\ already <= refunds[c]
    BY <1>1 DEF ReadingTrue
  <2>1. CASE <<c, m, already>> \in reading
    BY <2>1 DEF MoneyInv, ReadingTrue
  <2>2. CASE c = ch /\ m = n /\ already = refunds[ch]
    <3>1. n <= returned[ch] /\ intent[ch] = "paid"
      BY DEF MoneyInv, EventsTrue
    <3> QED
      BY <1>3, <2>2, <3>1
  <2> QED
    BY <1>2, <2>1, <2>2
<1>5. RefundedInFull' /\ EventsTrue' /\ RowsTrue' /\ RefundFollowsCancel'
  BY <1>1 DEF MoneyInv, RefundedInFull, EventsTrue, RowsTrue, RefundFollowsCancel
<1> QED
  BY <1>4, <1>5 DEF MoneyInv

\* It is applied on a sum that may have grown since: no less than what Stripe
\* gave back in full is recorded then.
LEMMA ApplyRefundMoney ==
    ASSUME Types, MoneyInv, NEW ch \in Channels, NEW n \in 1 .. Amount, NEW already \in Nat,
           ApplyRefund(ch, n, already)
    PROVE  MoneyInv'
<1>12. UNCHANGED <<card, intent, returned, refundKey, transfers, events, faults, lateCancel, work>>
  BY DEF ApplyRefund, stripeVars
<1>1. /\ refunds' = [refunds EXCEPT ![ch] = IF n > already THEN @ + (n - already) ELSE @]
      /\ row' = IF n >= Amount THEN [row EXCEPT ![ch] = "refunded"] ELSE row
      /\ status' = IF n >= Amount THEN RefundedStatus(status) ELSE status
      /\ <<ch, n, already>> \in reading /\ reading' = reading \ {<<ch, n, already>>}
  BY DEF ApplyRefund
<1>2. /\ row \in [Channels -> {"none", "requires_payment", "cancelled", "succeeded", "refunded"}]
      /\ returned \in [Channels -> 0 .. Amount] /\ Amount \in Nat
      /\ refunds \in [Channels -> Nat]
  BY PaymentsAssumption DEF Types, PaymentsTypeOK
<1>3. n <= returned[ch] /\ intent[ch] = "paid" /\ already <= refunds[ch]
  BY <1>1 DEF MoneyInv, ReadingTrue
<1>4. \A c \in Channels : row'[c] = IF c = ch /\ n >= Amount THEN "refunded" ELSE row[c]
  BY <1>1, <1>2
<1>5. \A c \in Channels :
         refunds'[c] = IF c = ch /\ n > already THEN refunds[c] + (n - already) ELSE refunds[c]
  BY <1>1, <1>2
<1>10. ASSUME NEW c \in Channels
       PROVE  refunds[c] \in Nat /\ refunds'[c] >= refunds[c]
              /\ (c = ch => refunds'[c] >= n)
  <2>1. refunds[c] \in Nat /\ n \in Nat /\ (c = ch => already <= refunds[c])
    BY <1>2, <1>3
  <2> QED
    BY <1>5, <2>1
<1>6. EventsTrue'
  BY <1>12 DEF MoneyInv, EventsTrue
<1>7. RefundedInFull'
  <2>1. ASSUME NEW c \in Channels, row'[c] = "refunded"
        PROVE  returned'[c] = Amount /\ refunds'[c] >= Amount
    <3>1. returned'[c] = returned[c] /\ returned[c] \in 0 .. Amount
      BY <1>12, <1>2
    <3>2. CASE row[c] = "refunded"
      <4>1. returned[c] = Amount /\ refunds[c] >= Amount
        BY <3>2 DEF MoneyInv, RefundedInFull
      <4> QED
        BY <1>2, <1>5, <1>10, <3>1, <4>1
    <3>3. CASE c = ch /\ n >= Amount
      BY <1>2, <1>3, <1>10, <3>1, <3>3
    <3> QED
      BY <1>4, <2>1, <3>2, <3>3
  <2>2. ASSUME status' = "refunded" PROVE \E c \in Channels : row'[c] = "refunded"
    <3>1. CASE n >= Amount
      BY <1>4, <3>1
    <3>2. CASE ~(n >= Amount)
      <4>1. PICK c \in Channels : row[c] = "refunded"
        BY <1>1, <2>2, <3>2 DEF MoneyInv, RefundedInFull
      <4> QED
        BY <1>4, <4>1
    <3> QED
      BY <3>1, <3>2
  <2> QED
    BY <2>1, <2>2 DEF RefundedInFull
<1>11. ReadingTrue'
  <2> SUFFICES ASSUME NEW c \in Channels, NEW m \in 1 .. Amount, NEW a \in Nat,
                      <<c, m, a>> \in reading
               PROVE  m <= returned[c] /\ intent[c] = "paid" /\ a <= refunds'[c]
    BY <1>12, <1>1 DEF ReadingTrue
  <2>1. m <= returned[c] /\ intent[c] = "paid" /\ a <= refunds[c]
    BY DEF MoneyInv, ReadingTrue
  <2>2. refunds'[c] \in Nat
    BY <1>2, <1>5
  <2> QED
    BY <1>10, <2>1, <2>2
<1>8. RowsTrue'
  <2> SUFFICES ASSUME NEW c \in Channels
               PROVE  /\ row'[c] \in Kept => intent'[c] = "paid"
                      /\ row'[c] # "none" => card'
                      /\ intent'[c] # "none" => row'[c] # "none"
                      /\ <<"refund", c>> \in work' => row'[c] \in Kept
                      /\ <<"onPaid", c>> \in work' => row'[c] \in Kept
                      /\ refundKey' = c => returned'[c] = Amount /\ row'[c] \in Kept
    BY DEF RowsTrue
  <2>1. /\ row[c] \in Kept => intent[c] = "paid"
        /\ row[c] # "none" => card
        /\ intent[c] # "none" => row[c] # "none"
        /\ <<"refund", c>> \in work => row[c] \in Kept
        /\ <<"onPaid", c>> \in work => row[c] \in Kept
        /\ refundKey = c => returned[c] = Amount /\ row[c] \in Kept
    BY DEF MoneyInv, RowsTrue
  <2> QED
    BY <1>12, <1>3, <1>4, <2>1 DEF Kept
<1>9. RefundFollowsCancel'
  <2> SUFFICES ASSUME NEW c \in Channels,
                      status' = "cancelled", row'[c] = "succeeded", returned'[c] < Amount
               PROVE  \/ work' \cap {<<"refund", c>>, <<"afterCancel", NoChannel>>} # {}
                      \/ faults' > 0 \/ lateCancel'
                      \/ \E other \in Channels \ {c} : row'[other] \in {"succeeded", "refunded"}
    BY DEF RefundFollowsCancel
  <2>1. status = "cancelled" /\ row[c] = "succeeded" /\ returned[c] < Amount
    BY <1>12, <1>1, <1>4 DEF RefundedStatus
  <2>2. \/ work \cap {<<"refund", c>>, <<"afterCancel", NoChannel>>} # {}
        \/ faults > 0 \/ lateCancel
        \/ \E other \in Channels \ {c} : row[other] \in {"succeeded", "refunded"}
    BY <2>1 DEF MoneyInv, RefundFollowsCancel
  <2> QED
    BY <1>12, <1>4, <2>2
<1> QED
  BY <1>6, <1>7, <1>8, <1>9, <1>11 DEF MoneyInv

\* A refund of a settled payment: afterwards it is refunded in full, or the
\* order's key was used for another settled payment.
LEMMA RefundCallMoney ==
    ASSUME Types, MoneyInv, NEW ch \in Channels, row[ch] \in Kept,
           CreateRefund(ch) \/ RefundRefused(ch),
           UNCHANGED <<orderVars, row, refunds, reading, intent, transfers, faults, lateCancel>>,
           work' \subseteq work,
           NEW x, work' = work \ {x}, x \in {<<"refund", ch>>, <<"afterCancel", NoChannel>>},
           row[ch] = "refunded" => x # <<"afterCancel", NoChannel>>
    PROVE  MoneyInv'
<1>0. /\ returned \in [Channels -> 0 .. Amount] /\ refunds \in [Channels -> Nat]
      /\ Amount \in Nat \ {0} /\ NoChannel \notin Channels
      /\ refundKey \in Channels \cup {NoChannel}
      /\ card' = card /\ status' = status
  BY PaymentsAssumption, NoChannelIsNone DEF Types, PaymentsTypeOK, orderVars
<1>1. \/ returned' = returned /\ events' = events /\ refundKey' = refundKey
      \/ /\ returned' = [returned EXCEPT ![ch] = Amount]
         /\ events' = events \cup {<<"refunded", ch, Amount>>}
         /\ refundKey = NoChannel /\ refundKey' = ch
  BY DEF CreateRefund, RefundRefused, RefundAtStripe
<1>2. intent[ch] = "paid"
  BY DEF MoneyInv, RowsTrue
<1>3. \A c \in Channels : returned'[c] = returned[c] \/ (c = ch /\ returned'[c] = Amount)
  BY <1>0, <1>1
<1>4. \A c \in Channels : returned[c] <= returned'[c] /\ returned[c] \in 0 .. Amount
  BY <1>0, <1>3
<1>5. RefundedInFull' /\ ReadingTrue'
  <2>1. ASSUME NEW c \in Channels, row[c] = "refunded"
        PROVE  returned'[c] = Amount /\ refunds[c] >= Amount
    <3>1. returned[c] = Amount /\ refunds[c] >= Amount
      BY <2>1 DEF MoneyInv, RefundedInFull
    <3> QED
      BY <1>3, <3>1
  <2>2. ASSUME NEW c \in Channels, NEW m \in 1 .. Amount, NEW already \in Nat,
               <<c, m, already>> \in reading
        PROVE  m <= returned'[c] /\ intent[c] = "paid" /\ already <= refunds[c]
    <3>1. m <= returned[c] /\ intent[c] = "paid" /\ already <= refunds[c]
      BY <2>2 DEF MoneyInv, ReadingTrue
    <3>2. returned'[c] \in 0 .. Amount
      BY <1>0, <1>3, <1>4
    <3> QED
      BY <1>4, <3>1, <3>2
  <2> QED
    BY <1>0, <2>1, <2>2 DEF MoneyInv, RefundedInFull, ReadingTrue
<1>6. EventsTrue'
  <2> SUFFICES ASSUME NEW c \in Channels
               PROVE  /\ <<"paid", c, 0>> \in events' => intent[c] = "paid"
                      /\ \A m \in 1 .. Amount :
                           <<"refunded", c, m>> \in events' => m <= returned'[c] /\ intent[c] = "paid"
    BY DEF EventsTrue
  <2>1. <<"paid", c, 0>> \in events' => intent[c] = "paid"
    BY <1>1 DEF MoneyInv, EventsTrue
  <2>2. ASSUME NEW m \in 1 .. Amount, <<"refunded", c, m>> \in events'
        PROVE  m <= returned'[c] /\ intent[c] = "paid"
    <3>1. CASE <<"refunded", c, m>> \in events
      <4>1. m <= returned[c] /\ intent[c] = "paid"
        BY <3>1 DEF MoneyInv, EventsTrue
      <4> QED
        BY <1>0, <1>3, <1>4, <4>1
    <3>2. CASE c = ch /\ m = Amount /\ returned' = [returned EXCEPT ![ch] = Amount]
      BY <1>0, <1>2, <3>2
    <3> QED
      BY <1>1, <2>2, <3>1, <3>2
  <2> QED
    BY <2>1, <2>2
<1>7. RowsTrue'
  <2> SUFFICES ASSUME NEW c \in Channels
               PROVE  /\ row[c] \in Kept => intent[c] = "paid"
                      /\ row[c] # "none" => card
                      /\ intent[c] # "none" => row[c] # "none"
                      /\ <<"refund", c>> \in work' => row[c] \in Kept
                      /\ <<"onPaid", c>> \in work' => row[c] \in Kept
                      /\ refundKey' = c => returned'[c] = Amount /\ row[c] \in Kept
    BY <1>0 DEF RowsTrue
  <2>1. /\ row[c] \in Kept => intent[c] = "paid"
        /\ row[c] # "none" => card
        /\ intent[c] # "none" => row[c] # "none"
        /\ <<"refund", c>> \in work => row[c] \in Kept
        /\ <<"onPaid", c>> \in work => row[c] \in Kept
        /\ refundKey = c => returned[c] = Amount /\ row[c] \in Kept
    BY DEF MoneyInv, RowsTrue
  <2>2. refundKey' = c => returned'[c] = Amount /\ row[c] \in Kept
    BY <1>0, <1>1, <2>1
  <2> QED
    BY <2>1, <2>2
<1>9. RefundFollowsCancel'
  <2> SUFFICES ASSUME NEW c \in Channels,
                      status = "cancelled", row[c] = "succeeded", returned'[c] < Amount
               PROVE  \/ work' \cap {<<"refund", c>>, <<"afterCancel", NoChannel>>} # {}
                      \/ faults > 0 \/ lateCancel
                      \/ \E other \in Channels \ {c} : row[other] \in {"succeeded", "refunded"}
    BY <1>0 DEF RefundFollowsCancel
  <2>1. returned[c] < Amount
    BY <1>0, <1>3, <1>4
  <2>2. \/ work \cap {<<"refund", c>>, <<"afterCancel", NoChannel>>} # {}
        \/ faults > 0 \/ lateCancel
        \/ \E other \in Channels \ {c} : row[other] \in {"succeeded", "refunded"}
    BY <2>1 DEF MoneyInv, RefundFollowsCancel
  <2>3. CASE c # ch
    BY <2>3 DEF Kept
  <2>4. CASE c = ch
    <3>1. refundKey # ch
      <4>1. refundKey = ch => returned[ch] = Amount
        BY DEF MoneyInv, RowsTrue
      <4>2. returned[ch] \in 0 .. Amount /\ returned[ch] < Amount
        BY <1>0, <2>1, <2>4
      <4> QED
        BY <1>0, <4>1, <4>2
    <3>2. refundKey # NoChannel
      <4> SUFFICES ASSUME refundKey = NoChannel PROVE FALSE
        OBVIOUS
      <4>1. returned'[ch] = Amount
        BY <1>0, <2>1, <2>4 DEF CreateRefund, RefundRefused, RefundAtStripe
      <4> QED
        BY <1>0, <2>4, <4>1
    <3>3. refundKey \in Channels \ {ch} /\ row[refundKey] \in Kept
      BY <1>0, <3>1, <3>2 DEF MoneyInv, RowsTrue
    <3> QED
      BY <2>4, <3>3 DEF Kept
  <2> QED
    BY <2>3, <2>4
<1> QED
  BY <1>5, <1>6, <1>7, <1>9 DEF MoneyInv

LEMMA RefundInsteadMoney ==
    ASSUME Types, MoneyInv, NEW ch \in Channels, RefundInstead(ch)
    PROVE  MoneyInv'
<1>1. /\ <<"refund", ch>> \in work /\ work' = work \ {<<"refund", ch>>}
      /\ CreateRefund(ch) \/ RefundRefused(ch)
      /\ UNCHANGED <<orderVars, row, refunds, reading, intent, transfers, faults, lateCancel>>
  BY DEF RefundInstead
<1>2. row[ch] \in Kept
  BY <1>1 DEF MoneyInv, RowsTrue
<1>3. <<"refund", ch>> # <<"afterCancel", NoChannel>>
  OBVIOUS
<1> QED
  BY <1>1, <1>2, <1>3, RefundCallMoney

\* AfterCancel refunds the payment paid last; with none settled nothing is due.
LEMMA RefundOrderMoney ==
    ASSUME Types, MoneyInv, RefundOrder
    PROVE  MoneyInv'
<1>1. /\ <<"afterCancel", NoChannel>> \in work
      /\ work' = work \ {<<"afterCancel", NoChannel>>}
      /\ UNCHANGED <<orderVars, row, refunds, reading, intent, transfers, faults, lateCancel>>
  BY DEF RefundOrder
<1>2. PaidIntentForOrder \subseteq Settled /\ (PaidIntentForOrder = {} => Settled = {})
  BY DEF PaidIntentForOrder
<1>3. CASE PaidIntentForOrder # {}
  <2>1. PICK ch \in PaidIntentForOrder : CreateRefund(ch) \/ RefundRefused(ch)
    BY <1>3 DEF RefundOrder
  <2>2. ch \in Channels /\ row[ch] = "succeeded"
    BY <1>2, <2>1 DEF Settled
  <2> QED
    BY <1>1, <2>1, <2>2, RefundCallMoney DEF Kept
<1>4. CASE PaidIntentForOrder = {}
  <2>1. returned' = returned /\ events' = events /\ refundKey' = refundKey
    BY <1>4 DEF RefundOrder
  <2>2. \A ch \in Channels : row[ch] # "succeeded"
    BY <1>2, <1>4 DEF Settled
  <2>3. RefundedInFull' /\ ReadingTrue' /\ EventsTrue'
    BY <1>1, <2>1 DEF MoneyInv, RefundedInFull, ReadingTrue, EventsTrue, orderVars
  <2>4. RowsTrue'
    BY <1>1, <2>1 DEF MoneyInv, RowsTrue, orderVars
  <2>5. RefundFollowsCancel'
    BY <1>1, <2>2 DEF RefundFollowsCancel
  <2> QED
    BY <2>3, <2>4, <2>5 DEF MoneyInv
<1> QED
  BY <1>3, <1>4

\* A cancellation by the customer: a settled payment has AfterCancel to come.
LEMMA CancelForCustomerMoney ==
    ASSUME Types, MoneyInv, CancelForCustomer
    PROVE  MoneyInv'
<1>1. /\ UNCHANGED <<card, row, refunds, reading, intent, returned, refundKey, transfers, events,
                    faults, lateCancel>>
      /\ status' = "cancelled"
      /\ work' = IF card THEN work \cup {<<"afterCancel", NoChannel>>} ELSE work
  BY DEF CancelForCustomer, CancelOrder, AfterCancel, stripeVars
<1>2. RefundedInFull' /\ ReadingTrue' /\ EventsTrue'
  BY <1>1 DEF MoneyInv, RefundedInFull, ReadingTrue, EventsTrue
<1>3. \A ch \in Channels : /\ <<"refund", ch>> \in work' => <<"refund", ch>> \in work
                          /\ <<"onPaid", ch>> \in work' => <<"onPaid", ch>> \in work
  BY <1>1
<1>4. RowsTrue'
  BY <1>1, <1>3 DEF MoneyInv, RowsTrue
<1>5. RefundFollowsCancel'
  <2> SUFFICES ASSUME NEW ch \in Channels, row'[ch] = "succeeded"
               PROVE  work' \cap {<<"refund", ch>>, <<"afterCancel", NoChannel>>} # {}
    BY DEF RefundFollowsCancel
  <2>1. card
    BY <1>1 DEF MoneyInv, RowsTrue
  <2> QED
    BY <1>1, <2>1
<1> QED
  BY <1>2, <1>4, <1>5 DEF MoneyInv

\* A cancellation by the expiry loop.
LEMMA CancelExpiredUnpaidMoney ==
    ASSUME Types, MoneyInv, CancelExpiredUnpaid
    PROVE  MoneyInv'
<1>1. /\ UNCHANGED <<card, row, refunds, reading, intent, returned, refundKey, transfers, events,
                    work, faults>>
      /\ status' = "cancelled"
      /\ lateCancel' = (Settled # {})
  BY DEF CancelExpiredUnpaid, CancelOrder, CancelUnpaid, stripeVars
<1>2. RefundedInFull' /\ ReadingTrue' /\ EventsTrue' /\ RowsTrue'
  BY <1>1 DEF MoneyInv, RefundedInFull, ReadingTrue, EventsTrue, RowsTrue
<1>3. RefundFollowsCancel'
  <2> SUFFICES ASSUME NEW ch \in Channels, row'[ch] = "succeeded" PROVE lateCancel'
    BY DEF RefundFollowsCancel
  <2> QED
    BY <1>1 DEF Settled
<1> QED
  BY <1>2, <1>3 DEF MoneyInv

\* A transfer moves nothing of the customer's.
LEMMA SendTransferMoney ==
    ASSUME Types, MoneyInv, NEW w \in Workers, NEW l \in Lines,
           NEW charge \in BOOLEAN, NEW recorded \in BOOLEAN,
           SendTransfer(w, l, charge, recorded)
    PROVE  MoneyInv'
<1>1. /\ UNCHANGED <<orderVars, row, refunds, reading, intent, returned, refundKey, events, work, lateCancel>>
      /\ IF charge /\ recorded THEN faults' = faults ELSE Fault
  BY DEF SendTransfer
<1>2. faults \in Nat
  BY PaymentsAssumption DEF Types, PaymentsTypeOK
<1>3. RefundedInFull' /\ ReadingTrue' /\ EventsTrue' /\ RowsTrue'
  BY <1>1 DEF MoneyInv, RefundedInFull, ReadingTrue, EventsTrue, RowsTrue, orderVars
<1>4. faults > 0 => faults' > 0
  BY <1>1, <1>2 DEF Fault
<1>5. RefundFollowsCancel'
  BY <1>1, <1>4 DEF MoneyInv, RefundFollowsCancel, orderVars
<1> QED
  BY <1>3, <1>5 DEF MoneyInv

\* Nor does the clock.
LEMMA AgesMoney ==
    ASSUME Types, MoneyInv, NEW ch \in Channels, Ages(ch), UNCHANGED orderVars
    PROVE  MoneyInv'
<1>1. UNCHANGED <<orderVars, row, refunds, reading, intent, returned, refundKey, events, work,
                  lateCancel, faults>>
  BY DEF Ages, stripeVars
<1>2. RefundedInFull' /\ ReadingTrue' /\ EventsTrue' /\ RowsTrue'
  BY <1>1 DEF MoneyInv, RefundedInFull, ReadingTrue, EventsTrue, RowsTrue, orderVars
<1>3. RefundFollowsCancel'
  BY <1>1 DEF MoneyInv, RefundFollowsCancel, orderVars
<1> QED
  BY <1>2, <1>3 DEF MoneyInv

\* The payments' own steps.
LEMMA PaymentStepMoney ==
    ASSUME Types, MoneyInv, PaymentStep
    PROVE  MoneyInv'
<1>0. faults \in Nat /\ (Fault => faults' \in Nat /\ faults' > 0)
  BY PaymentsAssumption DEF Types, PaymentsTypeOK, Fault
<1>1. ASSUME NEW ch \in Channels, UNCHANGED orderVars,
             \/ PayOrder(ch) \/ CustomerPays(ch) \/ Ages(ch)
             \/ \E n \in ByHand : DashboardRefund(ch, n)
      PROVE  MoneyInv'
  BY <1>1, PayOrderMoney, CustomerPaysMoney, AgesMoney, DashboardRefundMoney
<1>2. ASSUME NEW ch \in Channels, reconcileOne(ch) PROVE MoneyInv'
  BY <1>2, SettleMoney, ExpireMoney DEF reconcileOne
<1>7. ASSUME NEW x \in reading, ApplyRefund(x[1], x[2], x[3]) PROVE MoneyInv'
  <2>1. x[1] \in Channels /\ x[2] \in 1 .. Amount /\ x[3] \in Nat
    BY DEF Types, PaymentsTypeOK
  <2> QED
    BY <1>7, <2>1, ApplyRefundMoney
<1>3. ASSUME NEW e \in events, HandlePlatformWebhook(e) PROVE MoneyInv'
  <2>1. e \in Events /\ events \ {e} \in SUBSET events
    BY DEF Types, PaymentsTypeOK
  <2>2. CASE e[1] = "refunded"
    <3>1. PICK ch \in Channels, n \in 1 .. Amount : e = <<"refunded", ch, n>>
      BY <2>1, <2>2 DEF Events
    <3>2. ReadRefunds(ch, n, events \ {e})
      BY <1>3, <3>1 DEF HandlePlatformWebhook
    <3> QED
      BY <2>1, <3>1, <3>2, ReadRefundsMoney
  <2>3. CASE e[1] = "paid"
    <3>1. PICK ch \in Channels : e = <<"paid", ch, 0>>
      BY <2>1, <2>3 DEF Events
    <3>2. settle(ch, events \ {e})
      BY <1>3, <3>1 DEF HandlePlatformWebhook
    <3>3. intent[ch] = "paid"
      BY <3>1 DEF MoneyInv, EventsTrue
    <3> QED
      BY <2>1, <3>2, <3>3, SettleMoney
  <2>4. CASE e[1] = "expired"
    <3>1. PICK ch \in Channels : e = <<"expired", ch, 0>>
      BY <2>1, <2>4 DEF Events
    <3>2. expire(ch, events \ {e})
      BY <1>3, <3>1 DEF HandlePlatformWebhook
    <3> QED
      BY <2>1, <3>2, ExpireMoney
  <2> QED
    BY <1>3, <2>2, <2>3, <2>4 DEF HandlePlatformWebhook
<1>4. ASSUME NEW e \in events, EventLost(e) PROVE MoneyInv'
  BY <1>0, <1>4, ForgetMoney DEF EventLost, orderVars, stripeVars
<1>5. ASSUME NEW x \in work, WorkLost(x) PROVE MoneyInv'
  BY <1>0, <1>5, ForgetMoney DEF WorkLost, orderVars, stripeVars
<1>6. CASE ExpiredUnpaidOrders \/ NotCancelled \/ \E w \in Workers : DueTransfers(w)
  BY <1>6, ForgetMoney DEF ExpiredUnpaidOrders, NotCancelled, DueTransfers, orderVars, stripeVars
<1> QED
  BY <1>1, <1>2, <1>3, <1>4, <1>5, <1>6, <1>7, SessionLapsesMoney, RefundInsteadMoney,
     RefundOrderMoney, SendTransferMoney DEF PaymentStep

LEMMA ShopStepCancelsNothing ==
    ASSUME Types, ShopStep
    PROVE  card' = card /\ (status' \in Dead => status' = status)
<1>1. \A ln : refreshOrderStatus(status, ln) \in Dead => refreshOrderStatus(status, ln) = status
  BY DEF refreshOrderStatus, Dead
<1>2. ASSUME NEW l \in Lines, AcceptItemForSeller(l) \/ RefreshOrderStatus(l)
      PROVE  card' = card /\ (status' = status \/ status' = refreshOrderStatus(status, line))
  BY <1>2 DEF AcceptItemForSeller, RefreshOrderStatus
<1>3. ASSUME NEW s \in Shops,
             \/ StartLocalDelivery(s) \/ DispatchSellerManagedItems(s)
             \/ CompleteLocalDelivery(s) \/ MarkShopLocalDelivered(s)
             \/ CommitDelivered(s) \/ RollbackDelivered(s)
      PROVE  card' = card /\ (status' \in Dead => status' = status)
  <2>1. CASE DispatchSellerManagedItems(s)
    BY <1>1, <2>1 DEF DispatchSellerManagedItems
  <2>2. CASE CommitDelivered(s)
    BY <2>2 DEF CommitDelivered, Dead
  <2> QED
    BY <1>3, <2>1, <2>2
       DEF StartLocalDelivery, CompleteLocalDelivery, MarkShopLocalDelivered, RollbackDelivered
<1> QED
  BY <1>1, <1>2, <1>3 DEF ShopStep

LEMMA StepMoney ==
    ASSUME Types, MoneyInv, [Next]_vars
    PROVE  MoneyInv'
<1>0. faults \in Nat /\ (Fault => faults' \in Nat /\ faults' > 0)
  BY PaymentsAssumption DEF Types, PaymentsTypeOK, Fault
<1>1. ASSUME UNCHANGED paymentVars, card' = card, status' \in Dead => status' = status
      PROVE  MoneyInv'
  BY <1>1, ForgetMoney DEF paymentVars, stripeVars
<1>2. CASE UNCHANGED vars
  <2>1. UNCHANGED <<orderVars, pointVars, paymentVars>>
    BY <1>2 DEF vars
  <2> QED
    BY <1>1, <2>1 DEF orderVars
<1>3. ASSUME NEW l \in Lines, Promise(l) PROVE MoneyInv'
  BY <1>1, <1>3 DEF Promise, orderVars
<1>4. CASE Create
  BY <1>1, <1>4 DEF Create, PlaceHeader, Dead
<1>5. CASE ShopStep /\ UNCHANGED <<pointVars, paymentVars>>
  BY <1>1, <1>5, ShopStepCancelsNothing
<1>6. ASSUME NEW ch \in Channels, OnOrderPaid(ch) PROVE MoneyInv'
  <2>1. \A c \in Channels : <<"onPaid", ch>> # <<"refund", c>>
    OBVIOUS
  <2>2. <<"onPaid", ch>> # <<"afterCancel", NoChannel>>
    OBVIOUS
  <2> QED
    BY <1>6, <2>1, <2>2, ForgetMoney DEF OnOrderPaid, orderVars, stripeVars
<1>7. ASSUME NEW p \in Passes, JobStep(p) PROVE MoneyInv'
  BY <1>1, <1>7 DEF JobStep, orderVars
<1>8. ASSUME NEW p \in Passes, Fault,
             UNCHANGED <<orderVars, row, paidLast, refunds, reading, stripeVars, events, work,
                         listed, lateCancel, due, payouts, old>>
      PROVE  MoneyInv'
  BY <1>0, <1>8, ForgetMoney DEF orderVars, stripeVars
<1>9. ASSUME NEW c \in Customers, UNCHANGED <<orderVars, paymentVars>> PROVE MoneyInv'
  BY <1>1, <1>9 DEF orderVars
<1> QED
  BY <1>2, <1>3, <1>4, <1>5, <1>6, <1>7, <1>8, <1>9, CancelForCustomerMoney,
     CancelExpiredUnpaidMoney, PaymentStepMoney DEF Next

LEMMA MoneyInvariance == Spec => [](Types /\ MoneyInv)
<1>1. IInv => Types
  BY DEF IInv, Types
<1>2. Init => MoneyInv
  BY InitMoney
<1>3. Types /\ MoneyInv /\ [Next]_vars => MoneyInv'
  BY StepMoney
<1> QED
  BY <1>1, <1>2, <1>3, Invariance, PTL DEF Spec

\* The money of a cancelled order goes back in full, unless a call or a
\* process failed, the expiry loop cancelled an order paid since it looked,
\* or the order was paid twice: for any amount, lines and number of faults.
THEOREM CancelledMoneyGoesBack == Spec => []RefundFollowsCancel
<1>1. MoneyInv => RefundFollowsCancel
  BY DEF MoneyInv
<1> QED
  BY <1>1, MoneyInvariance, PTL

\* A payment or an order is called refunded only when Stripe gave all of it
\* back, and then no less is recorded, in whatever order the cumulative events
\* arrive and however many of them are applied at once.
THEOREM RefundsAreInFull == Spec => []RefundedInFull
<1>1. MoneyInv => RefundedInFull
  BY DEF MoneyInv
<1> QED
  BY <1>1, MoneyInvariance, PTL

---------------------------------------------------------------------------
(***************************************************************************)
(* Nothing ships unpaid.  While Stripe has no money for an order that      *)
(* waits for a card, no line of it moves but to be cancelled, no request   *)
(* of a shop holds one, and its rewards are at most promised; and a        *)
(* cancelled order has no line left that a shop could still accept.        *)
(***************************************************************************)
Unpaid == card /\ \A ch \in Channels : intent[ch] # "paid"

Untouched ==
    /\ status \in {"checkout", "pending_payment", "cancelled"}
    /\ \A l \in Lines : /\ line[l] \in {"none", "pending", "cancelled"}
                        /\ status = "cancelled" => line[l] # "pending"
                        /\ reward[l] \notin {"awarded", "reversed"}
    /\ \A s \in Shops : checked[s] = {} /\ handover[s] = Idle

ShipInv == Unpaid => Untouched

\* Steps that move neither lines nor requests, and pay no reward.
LEMMA ShipQuiet ==
    ASSUME ShipInv, Unpaid' => Unpaid, UNCHANGED <<line, checked, handover>>,
           Unpaid => status' = status \/ (status = "checkout" /\ status' = "pending_payment"),
           Unpaid => \A l \in Lines : reward'[l] \in {"awarded", "reversed"}
                                         => reward[l] \in {"awarded", "reversed"}
    PROVE  ShipInv'
BY DEF ShipInv, Untouched

LEMMA InitShip == Init => ShipInv
<1> SUFFICES ASSUME Init PROVE Untouched
  BY DEF ShipInv
<1>1. /\ status = "checkout" /\ checked = [s \in Shops |-> {}]
      /\ handover = [s \in Shops |-> Idle] /\ reward = [l \in Lines |-> "unset"]
  BY DEF Init, OrdersInit, PointsInit
<1>2. \A l \in Lines : line[l] \in {"none", "pending"}
  BY DEF Init, OrdersInit
<1> QED
  BY <1>1, <1>2 DEF Untouched

\* Shops: nothing is accepted, so nothing is started or handed over.
LEMMA ShopStepShip ==
    ASSUME Types, ShipInv, ShopStep, UNCHANGED <<pointVars, paymentVars>>
    PROVE  ShipInv'
<1> SUFFICES ASSUME Unpaid' PROVE Untouched'
  BY DEF ShipInv
<1>1. card' = card /\ intent' = intent /\ reward' = reward
  BY ShopStepCancelsNothing DEF paymentVars, stripeVars, pointVars
<1>2. Unpaid /\ Untouched
  BY <1>1 DEF ShipInv, Unpaid
<1>3. ASSUME NEW l \in Lines, AcceptItemForSeller(l) PROVE FALSE
  BY <1>2, <1>3 DEF AcceptItemForSeller, Unpaid, Untouched
<1>8. ASSUME NEW l \in Lines, RefreshOrderStatus(l) PROVE Untouched'
  <2>1. status' = status
    BY <1>2, <1>8 DEF RefreshOrderStatus, refreshOrderStatus, Untouched
  <2> QED
    BY <1>1, <1>2, <1>8, <2>1 DEF RefreshOrderStatus, Untouched
<1>4. ASSUME NEW s \in Shops, StartLocalDelivery(s) PROVE FALSE
  BY <1>2, <1>4 DEF StartLocalDelivery, Untouched, LinesOf
<1>5. ASSUME NEW s \in Shops, DispatchSellerManagedItems(s) PROVE FALSE
  BY <1>2, <1>5 DEF DispatchSellerManagedItems, Untouched
<1>6. ASSUME NEW s \in Shops, CompleteLocalDelivery(s) PROVE FALSE
  BY <1>2, <1>6 DEF CompleteLocalDelivery, Untouched, LinesOf
<1>7. ASSUME NEW s \in Shops,
             MarkShopLocalDelivered(s) \/ CommitDelivered(s) \/ RollbackDelivered(s)
      PROVE  FALSE
  BY <1>2, <1>7 DEF MarkShopLocalDelivered, CommitDelivered, RollbackDelivered, Untouched, Idle
<1> QED
  BY <1>3, <1>4, <1>5, <1>6, <1>7, <1>8 DEF ShopStep

\* Rewards are paid with the order only when no card is waited for, and
\* otherwise for lines that are delivered.
LEMMA PlacePointsShip ==
    ASSUME PointsInv, PlacePoints, card
    PROVE  \A l \in Lines : reward'[l] \in {"awarded", "reversed"} => reward[l] \in {"awarded", "reversed"}
<1>1. reward' = Marked({}, "awarded")
  BY DEF PlacePoints, payLineRewards
<1> QED
  BY <1>1 DEF Marked

LEMMA SettlePointsShip ==
    ASSUME NEW st, NEW ln, SettleUndeliveredPoints(st, ln, {})
    PROVE  \A l \in Lines : reward'[l] \in {"awarded", "reversed"} => reward[l] \in {"awarded", "reversed"}
<1>1. reward' = [l \in Lines |-> IF l \in ToRelease(st, ln) THEN "released"
                                 ELSE IF l \in {} THEN "reversed" ELSE reward[l]]
  BY DEF SettleUndeliveredPoints
<1> QED
  BY <1>1

LEMMA CancelShip ==
    ASSUME Types, ShipInv, CancelOrder, CancelPoints, AfterCancel \/ CancelUnpaid
    PROVE  ShipInv'
<1> SUFFICES ASSUME Unpaid' PROVE Untouched'
  BY DEF ShipInv
<1>1. card' = card /\ intent' = intent
  BY DEF CancelOrder, AfterCancel, CancelUnpaid, stripeVars
<1>2. Unpaid /\ Untouched
  BY <1>1 DEF ShipInv, Unpaid
<1>3. Rows("awarded") = {}
  BY <1>2 DEF Rows, Untouched
<1>4. SettleUndeliveredPoints("cancelled", line', {})
  <2>1. {l \in Rows("awarded") : line'[l] = "cancelled"} = {}
    BY <1>3
  <2> QED
    BY <2>1 DEF CancelPoints
<1>5. \A l \in Lines : reward'[l] \in {"awarded", "reversed"} => reward[l] \in {"awarded", "reversed"}
  BY <1>4, SettlePointsShip
<1>6. \A l \in Lines : line'[l] \in {"none", "cancelled"}
  BY <1>2 DEF CancelOrder, Untouched
<1>7. status' = "cancelled" /\ checked' = checked /\ handover' = handover
  BY DEF CancelOrder
<1> QED
  BY <1>2, <1>5, <1>6, <1>7 DEF Untouched

\* Payments: a settlement or a refund needs Stripe's money.
LEMMA PaymentStepShip ==
    ASSUME Types, MoneyInv, ShipInv, PaymentStep, UNCHANGED pointVars
    PROVE  ShipInv'
<1>0. reward' = reward
  BY DEF pointVars
<1>1. ASSUME UNCHANGED orderVars, \A ch \in Channels : intent[ch] = "paid" => intent'[ch] = "paid"
      PROVE  ShipInv'
  <2>1. Unpaid' => Unpaid
    BY <1>1 DEF Unpaid, orderVars
  <2> QED
    BY <1>0, <1>1, <2>1, ShipQuiet DEF orderVars
<1>2. intent \in [Channels -> {"none", "open", "paid", "expired"}]
  BY DEF Types, PaymentsTypeOK
<1>3. ASSUME intent' = intent, card' = card, NEW ch \in Channels, intent[ch] = "paid"
      PROVE  ShipInv'
  BY <1>3 DEF ShipInv, Unpaid
<1>4. ASSUME NEW ch \in Channels, NEW E, settle(ch, E), intent[ch] = "paid" PROVE ShipInv'
  BY <1>3, <1>4 DEF settle, stripeVars
<1>5. ASSUME NEW ch \in Channels, NEW E, expire(ch, E) PROVE ShipInv'
  BY <1>1, <1>5 DEF expire, stripeVars
<1>6. ASSUME NEW x \in reading, ApplyRefund(x[1], x[2], x[3]) PROVE ShipInv'
  <2>1. PICK ch \in Channels, n \in 1 .. Amount, already \in Nat : x = <<ch, n, already>>
    BY DEF Types, PaymentsTypeOK
  <2>2. intent[ch] = "paid"
    BY <2>1 DEF MoneyInv, ReadingTrue
  <2> QED
    BY <1>3, <1>6, <2>2 DEF ApplyRefund, stripeVars
<1>7. ASSUME NEW ch \in Channels, UNCHANGED orderVars,
             \/ PayOrder(ch) \/ CustomerPays(ch) \/ Ages(ch) \/ RefundInstead(ch)
             \/ \E n \in ByHand : DashboardRefund(ch, n)
      PROVE  ShipInv'
  <2>1. CASE PayOrder(ch)
    <3>1. intent[ch] # "paid"
      BY <2>1 DEF PayOrder, MoneyInv, RowsTrue
    <3> QED
      BY <1>1, <1>2, <1>7, <2>1, <3>1 DEF PayOrder
  <2>2. CASE CustomerPays(ch)
    BY <1>1, <1>2, <1>7, <2>2 DEF CustomerPays
  <2>3. CASE RefundInstead(ch) \/ \E n \in ByHand : DashboardRefund(ch, n)
    BY <1>1, <1>7, <2>3 DEF RefundInstead, DashboardRefund
  <2>4. CASE Ages(ch)
    BY <1>1, <1>7, <2>4 DEF Ages, stripeVars
  <2> QED
    BY <1>7, <2>1, <2>2, <2>3, <2>4
<1>8. ASSUME NEW ch \in Channels, reconcileOne(ch) PROVE ShipInv'
  BY <1>4, <1>5, <1>8 DEF reconcileOne
<1>9. ASSUME NEW e \in events, HandlePlatformWebhook(e) PROVE ShipInv'
  <2>1. e \in Events
    BY DEF Types, PaymentsTypeOK
  <2>2. CASE e[1] = "refunded"
    <3>1. PICK ch \in Channels, n \in 1 .. Amount : e = <<"refunded", ch, n>>
      BY <2>1, <2>2 DEF Events
    <3>2. ReadRefunds(ch, n, events \ {e})
      BY <1>9, <3>1 DEF HandlePlatformWebhook
    <3> QED
      BY <1>1, <3>2 DEF ReadRefunds, stripeVars
  <2>3. CASE e[1] = "paid"
    <3>1. PICK ch \in Channels : e = <<"paid", ch, 0>>
      BY <2>1, <2>3 DEF Events
    <3>2. settle(ch, events \ {e}) /\ intent[ch] = "paid"
      BY <1>9, <3>1 DEF HandlePlatformWebhook, MoneyInv, EventsTrue
    <3> QED
      BY <1>4, <3>2
  <2>4. CASE e[1] = "expired"
    <3>1. PICK ch \in Channels : e = <<"expired", ch, 0>>
      BY <2>1, <2>4 DEF Events
    <3>2. expire(ch, events \ {e})
      BY <1>9, <3>1 DEF HandlePlatformWebhook
    <3> QED
      BY <1>5, <3>2
  <2> QED
    BY <1>9, <2>2, <2>3, <2>4 DEF HandlePlatformWebhook
<1>10. CASE SessionLapses /\ UNCHANGED orderVars
  BY <1>1, <1>2, <1>10 DEF SessionLapses
<1>11. CASE (\E e \in events : EventLost(e)) \/ (\E x \in work : WorkLost(x)) \/ RefundOrder
  BY <1>1, <1>11 DEF EventLost, WorkLost, RefundOrder, stripeVars
<1>12. CASE \/ ExpiredUnpaidOrders \/ NotCancelled \/ \E w \in Workers : DueTransfers(w)
            \/ \E w \in Workers, l \in Lines, charge, recorded \in BOOLEAN :
                  SendTransfer(w, l, charge, recorded)
  BY <1>1, <1>12 DEF ExpiredUnpaidOrders, NotCancelled, DueTransfers, SendTransfer, stripeVars
<1>13. ASSUME NEW ch \in Channels, RefundInstead(ch) PROVE ShipInv'
  BY <1>1, <1>13 DEF RefundInstead
<1> QED
  BY <1>6, <1>7, <1>8, <1>9, <1>10, <1>11, <1>12, <1>13 DEF PaymentStep

\* The earning job pays the rewards of delivered lines only.
LEMMA JobShip ==
    ASSUME ShipInv, Unpaid, NEW p \in Passes, Select(p) \/ Process(p)
    PROVE  \A l \in Lines : reward'[l] \in {"awarded", "reversed"} => reward[l] \in {"awarded", "reversed"}
<1>0. Untouched
  BY DEF ShipInv
<1>1. \A x : Skip(p, x) => reward' = reward
  BY DEF Skip
<1>2. CASE Select(p) \/ AwardOrder(p) \/ ReverseOrder(p) \/ ReverseGift(p)
           \/ \E c \in Customers \cup {Nobody} : DeliverGift(p, c)
  BY <1>1, <1>2 DEF Select, AwardOrder, ReverseOrder, ReverseGift, DeliverGift, ApplyOne
<1>3. CASE SettleDead(p)
  BY <1>1, <1>3, SettlePointsShip DEF SettleDead
<1>4. ASSUME NEW l \in Lines, PayDelivered(p, l) PROVE reward' = reward
  <2>1. line[l] # "delivered"
    BY <1>0 DEF Untouched
  <2> QED
    BY <1>1, <1>4, <2>1 DEF PayDelivered
<1>5. ASSUME NEW l \in Lines, ReverseReward(p, l) PROVE reward' = reward
  <2>1. reward[l] # "awarded"
    BY <1>0 DEF Untouched
  <2> QED
    BY <1>1, <1>5, <2>1 DEF ReverseReward
<1> QED
  BY <1>2, <1>3, <1>4, <1>5 DEF Process

LEMMA StepShip ==
    ASSUME IInv, MoneyInv, ShipInv, [Next]_vars
    PROVE  ShipInv'
<1>0. Types /\ PointsInv
  BY DEF IInv, Types
<1>1. ASSUME UNCHANGED <<orderVars, paymentVars>>,
             Unpaid => \A l \in Lines : reward'[l] \in {"awarded", "reversed"}
                                            => reward[l] \in {"awarded", "reversed"}
      PROVE  ShipInv'
  <2>1. Unpaid' => Unpaid
    BY <1>1 DEF Unpaid, orderVars, paymentVars, stripeVars
  <2> QED
    BY <1>1, <2>1, ShipQuiet DEF orderVars
<1>2. CASE UNCHANGED vars
  <2>1. UNCHANGED <<orderVars, pointVars, paymentVars>>
    BY <1>2 DEF vars
  <2> QED
    BY <1>1, <2>1 DEF pointVars
<1>3. ASSUME NEW l \in Lines, Promise(l) PROVE ShipInv'
  <2>1. UNCHANGED <<orderVars, paymentVars>>
    BY <1>3 DEF Promise
  <2>2. \A k \in Lines : reward'[k] \in {"awarded", "reversed"} => reward[k] \in {"awarded", "reversed"}
    BY <1>0, <1>3 DEF Promise, reserveOrderRewards, PointsInv, PointsTypeOK
  <2> QED
    BY <1>1, <2>1, <2>2
<1>4. CASE Create
  <2>1. /\ status = "checkout" /\ status' = "pending_payment" /\ PlacePoints
        /\ UNCHANGED <<card, line, checked, handover, intent>>
    BY <1>4 DEF Create, PlaceHeader, paymentVars, stripeVars
  <2>2. Unpaid' => Unpaid
    BY <2>1 DEF Unpaid
  <2>3. Unpaid => \A l \in Lines : reward'[l] \in {"awarded", "reversed"}
                                      => reward[l] \in {"awarded", "reversed"}
    BY <1>0, <2>1, PlacePointsShip DEF Unpaid
  <2> QED
    BY <2>1, <2>2, <2>3, ShipQuiet
<1>5. CASE ShopStep /\ UNCHANGED <<pointVars, paymentVars>>
  BY <1>0, <1>5, ShopStepShip
<1>6. CASE CancelForCustomer \/ CancelExpiredUnpaid
  BY <1>0, <1>6, CancelShip DEF CancelForCustomer, CancelExpiredUnpaid
<1>7. CASE PaymentStep /\ UNCHANGED pointVars
  BY <1>0, <1>7, PaymentStepShip
<1>8. ASSUME NEW ch \in Channels, OnOrderPaid(ch) PROVE ShipInv'
  <2>1. intent[ch] = "paid" /\ intent' = intent
    BY <1>8 DEF OnOrderPaid, MoneyInv, RowsTrue, stripeVars
  <2> QED
    BY <2>1 DEF ShipInv, Unpaid
<1>9. ASSUME NEW p \in Passes, JobStep(p) PROVE ShipInv'
  BY <1>1, <1>9, JobShip DEF JobStep
<1>10. ASSUME NEW p \in Passes, Abort(p),
              UNCHANGED <<orderVars, row, paidLast, refunds, reading, stripeVars, events, work,
                          listed, lateCancel, due, payouts, old>>
       PROVE  ShipInv'
  <2>1. Unpaid' => Unpaid
    BY <1>10 DEF Unpaid, orderVars, stripeVars
  <2> QED
    BY <1>10, <2>1, ShipQuiet DEF Abort, orderVars
<1>11. ASSUME NEW c \in Customers, Spend(c), UNCHANGED <<orderVars, paymentVars>> PROVE ShipInv'
  BY <1>1, <1>11 DEF Spend
<1> QED
  BY <1>2, <1>3, <1>4, <1>5, <1>6, <1>7, <1>8, <1>9, <1>10, <1>11 DEF Next

\* Nothing of an order that waits for a card leaves a shop, and no reward of
\* it is paid, before Stripe has the money: whatever requests the shops have
\* open, whichever passes of the earning job overlap.
THEOREM UnpaidStaysHome == Spec => []NothingShipsUnpaid
<1>1. Init => ShipInv
  BY InitShip
<1>2. IInv /\ MoneyInv /\ ShipInv /\ [Next]_vars => ShipInv'
  BY StepShip
<1>3. ShipInv => NothingShipsUnpaid
  BY DEF ShipInv, Unpaid, Untouched, NothingShipsUnpaid
<1> QED
  BY <1>1, <1>2, <1>3, Invariance, MoneyInvariance, PTL DEF Spec
=============================================================================
