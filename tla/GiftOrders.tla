----------------------------- MODULE GiftOrders -----------------------------
(***************************************************************************)
(* A gift order as a whole: the order (Orders), the points that ride on it *)
(* (OrderPoints) and its money (OrderPayments), joined where the code      *)
(* joins them: placing, cancelling and settling an order change all three. *)
(***************************************************************************)
EXTENDS OrderPoints, OrderPayments

vars == <<orderVars, pointVars, paymentVars>>

TypeOK == OrdersTypeOK /\ PointsTypeOK /\ PaymentsTypeOK

Init == OrdersInit /\ PointsInit /\ PaymentsInit

\* OrderRepository.Create, its last part: the order is placed.
Create ==
    /\ PlaceHeader
    /\ PlacePoints
    /\ UNCHANGED paymentVars

Promise(l) ==
    /\ reserveOrderRewards(l)
    /\ UNCHANGED <<orderVars, paymentVars>>

CancelForCustomer ==
    /\ CancelOrder
    /\ CancelPoints
    /\ AfterCancel

CancelExpiredUnpaid ==
    /\ CancelUnpaid
    /\ CancelOrder
    /\ CancelPoints

OnOrderPaid(ch) ==
    /\ <<"onPaid", ch>> \in work
    /\ work' = work \ {<<"onPaid", ch>>}
    /\ PayRewardsForPaidOrder
    /\ UNCHANGED <<orderVars, row, paidLast, refunds, reading, stripeVars, events, listed,
                   lateCancel, due, payouts, old, faults>>

JobStep(p) ==
    /\ Select(p) \/ Process(p)
    /\ UNCHANGED <<orderVars, paymentVars>>

Next ==
    \/ \E l \in Lines : Promise(l)
    \/ Create
    \/ ShopStep /\ UNCHANGED <<pointVars, paymentVars>>
    \/ CancelForCustomer
    \/ CancelExpiredUnpaid
    \/ PaymentStep /\ UNCHANGED pointVars
    \/ \E ch \in Channels : OnOrderPaid(ch)
    \/ \E p \in Passes :
         \/ JobStep(p)
         \/ /\ Abort(p) /\ Fault
            /\ UNCHANGED <<orderVars, row, paidLast, refunds, reading, stripeVars, events, work,
                           listed, lateCancel, due, payouts, old>>
    \/ /\ \E c \in Customers : Spend(c)
       /\ UNCHANGED <<orderVars, paymentVars>>

(***************************************************************************)
(* The earning job and the reconciliation of the payout loop run again and *)
(* again, and an open transaction ends.  They are strongly fair, since a   *)
(* statement that waits for a row is given it in turn.  Nobody else has to *)
(* act: not the customer, the shops, the administrator, nor a webhook.     *)
(***************************************************************************)
Fairness ==
    /\ \A p \in Passes : SF_vars(JobStep(p))
    /\ \A ch \in Channels : SF_vars(reconcileOne(ch) /\ UNCHANGED pointVars)
    /\ \A s \in Shops : WF_vars((CommitDelivered(s) \/ RollbackDelivered(s))
                                  /\ UNCHANGED <<pointVars, paymentVars>>)

Spec == Init /\ [][Next]_vars
FairSpec == Spec /\ Fairness

---------------------------------------------------------------------------
(***************************************************************************)
(* Safety                                                                  *)
(***************************************************************************)

\* What a seller has promised is exactly the rewards of the lines still
\* waiting for theirs: else payLineReward finds too little promised and its
\* error ends every pass of the earning job before the later selections.
ReservedBacked ==
    \A s \in Sellers : reserved[s] = Worth[Of(s, Rows("reserved"))]

\* A seller promises no more than the points and the credit it has, the
\* CHECK of points.seller_points_accounts.
PromiseWithinCredit ==
    \A s \in Sellers : sellerPoints[s] - reserved[s] >= -Credit

\* No points are made or lost between the customers, the sellers and the
\* gift, whichever of the job's overlapping passes, checkouts, payments and
\* cancellations moved them.
Held == IF gift = "held" THEN GiftPoints ELSE 0
PointsConserved ==
    SumFunctionOnSet(points, Customers) + SumFunctionOnSet(sellerPoints, Sellers) + Held = outside

\* A movement that is due is never refused as a duplicate: the ledger's keys
\* say no more than the statuses do, so no reward or gift is stuck behind a
\* key an earlier movement used up.
NothingDueIsPosted ==
    /\ \A l \in Rows("reserved") : RewardKeys({l}) \cap ledger = {}
    /\ \A l \in Rows("awarded") :
         ({"reward-reversal", "reward-return"} \X {l}) \cap ledger = {}
    /\ gift = "held" => {<<"gift-return", Header>>, <<"gift-recv", Header>>} \cap ledger = {}
    /\ gift = "delivered" =>
         {<<"gift-reversal", Header>>, <<"gift-reversal-return", Header>>} \cap ledger = {}

\* The customer's money for a cancelled order goes back in full.  It stays
\* with the shop only when a call or a process failed, when the expiry loop
\* cancelled an order paid since it looked, or when the order was paid twice:
\* AfterCancel and settle between them leave no other gap, whichever of the
\* payment and the cancellation comes first.
RefundFollowsCancel ==
    \A ch \in Channels :
        status = "cancelled" /\ row[ch] = "succeeded" /\ returned[ch] < Amount
            => \/ work \cap {<<"refund", ch>>, <<"afterCancel", NoChannel>>} # {}
               \/ faults > 0
               \/ lateCancel
               \/ \E other \in Channels \ {ch} : row[other] \in {"succeeded", "refunded"}

\* charge.refunded carries what was refunded so far; its events overtake each
\* other and are applied on sums read before.  A payment, and its order, is
\* called refunded only when Stripe has given all of it back, and then no less
\* than that is recorded.
RefundedInFull ==
    /\ \A ch \in Channels :
         row[ch] = "refunded" => returned[ch] = Amount /\ refunds[ch] >= Amount
    /\ status = "refunded" => \E ch \in Channels : row[ch] = "refunded"

\* Nothing of an order paid by card leaves a shop, and no reward is paid on
\* it, unless Stripe has the customer's money: neither a start request that
\* read its lines earlier nor a cancelled line sent after all gets around it.
NothingShipsUnpaid ==
    \A l \in Lines :
        /\ card
        /\ \/ line[l] \in {"accepted", "dispatched", "delivered"}
           \/ reward[l] \in {"awarded", "reversed"}
        => \E ch \in Channels : intent[ch] = "paid"

---------------------------------------------------------------------------
(***************************************************************************)
(* Liveness                                                                *)
(***************************************************************************)

\* Points do not stay in between.  When an order was cancelled or refunded,
\* its rewards are all released or taken back, and the gift points it holds
\* go back, or on to their recipient after a delivery: whatever ended the
\* order, whichever pass failed over it, and whatever a delivery that was
\* under way still does to its status.
Owed ==
    \/ status \in Dead /\ \E l \in Lines : reward[l] \in {"reserved", "awarded"}
    \/ status \in Dead \cup {"delivered"} /\ gift = "held"
PointsResolve == Owed ~> ~Owed

\* A payment the customer made is settled even when every webhook is lost,
\* also on an order that was cancelled before the payment arrived, as long as
\* the payment was made within three days of asking for it.  After that only
\* the webhook can tell of one made in the app.
Unnoticed ==
    \E ch \in Channels \ old : intent[ch] = "paid" /\ row[ch] \notin {"succeeded", "refunded"}
PaymentNoticed == Unnoticed ~> ~Unnoticed
=============================================================================
