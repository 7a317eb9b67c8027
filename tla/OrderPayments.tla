---------------------------- MODULE OrderPayments ----------------------------
(***************************************************************************)
(* The money of a gift order paid by card: its rows of finance.payments    *)
(* and finance.refunds, the payments as Stripe has them (external), the    *)
(* webhook events on their way, the reconciliation that does without them, *)
(* and the transfers to the sellers.                                       *)
(*                                                                         *)
(* An order can be paid on Stripe's page ("cs", a Checkout Session) and in *)
(* the app ("pi", a PaymentIntent): each has a row of its own.  A row of a *)
(* session carries the session's id until it is settled.                   *)
(*                                                                         *)
(* A failed call to Stripe, and a process that dies between two of its     *)
(* steps, is a fault.                                                      *)
(*                                                                         *)
(* A Mut... operator is a faulty variant of the definition after it, for   *)
(* mutation tests.                                                         *)
(***************************************************************************)
EXTENDS Orders, Integers

CONSTANTS Amount,     \* the order's total
          Workers,    \* the payout loop and a seller's withdrawal
          Channels,   \* the ways to pay: "cs", "pi"
          ByHand,     \* bound: what refunds by hand may add up to
          MaxFaults   \* bound: faults in one behaviour

ASSUME PaymentsAssumption ==
    /\ Amount \in Nat \ {0} /\ MaxFaults \in Nat
    /\ Channels \subseteq {"cs", "pi"}
    /\ ByHand \subseteq 1 .. Amount

NoChannel == "none"

VARIABLES row,        \* payments.status; "none" = no row
          paidLast,   \* the row with the latest paid_at
          refunds,    \* sum of the payment's rows of finance.refunds
          reading,    \* refund events being applied: payment, amount refunded
                      \* so far, and the sum of refunds their handler read
          intent,     \* external: the payment as Stripe has it
          returned,   \* external: what Stripe has refunded of it
          refundKey,  \* external: the payment "refund-order-<id>" was used for
          transfers,  \* external: idempotency keys of the transfers made
          events,     \* webhook events sent and not handled
          work,       \* what a request or handler does after its commit
          listed,     \* the expiry loop has found the order unpaid
          lateCancel, \* it was cancelled by that loop after it was paid
          due,        \* the lines each payout worker still has to send
          payouts,    \* lines with a row of finance.payouts
          old,        \* payments made more than three days ago
          faults      \* faults so far

stripeVars == <<intent, returned, refundKey, transfers>>
paymentVars == <<row, paidLast, refunds, reading, intent, returned, refundKey, transfers,
                 events, work, listed, lateCancel, due, payouts, old, faults>>

Events == ({"paid", "expired"} \X Channels \X {0})
          \cup ({"refunded"} \X Channels \X (1 .. Amount))
Works == {"refund", "onPaid"} \X Channels \cup {<<"afterCancel", NoChannel>>}
TransferKeys == Lines \X {"transfer", "transfer-src"}

PaymentsTypeOK ==
    /\ row \in [Channels -> {"none", "requires_payment", "cancelled", "succeeded",
                             "refunded"}]
    /\ paidLast \in Channels \cup {NoChannel}
    /\ refunds \in [Channels -> Nat]
    /\ reading \in SUBSET (Channels \X (1 .. Amount) \X Nat)
    /\ intent \in [Channels -> {"none", "open", "paid", "expired"}]
    /\ returned \in [Channels -> 0 .. Amount]
    /\ refundKey \in Channels \cup {NoChannel}
    /\ transfers \in SUBSET TransferKeys
    /\ events \in SUBSET Events
    /\ work \in SUBSET Works
    /\ {listed, lateCancel} \subseteq BOOLEAN
    /\ due \in [Workers -> SUBSET Lines]
    /\ payouts \in SUBSET Lines /\ old \in SUBSET Channels
    /\ faults \in 0 .. MaxFaults

PaymentsInit ==
    /\ row = [ch \in Channels |-> "none"] /\ paidLast = NoChannel
    /\ refunds = [ch \in Channels |-> 0] /\ reading = {}
    /\ intent = [ch \in Channels |-> "none"]
    /\ returned = [ch \in Channels |-> 0]
    /\ refundKey = NoChannel /\ transfers = {}
    /\ events = {} /\ work = {}
    /\ listed = FALSE /\ lateCancel = FALSE
    /\ due = [w \in Workers |-> {}] /\ payouts = {} /\ old = {}
    /\ faults = 0

Fault ==
    /\ faults < MaxFaults
    /\ faults' = faults + 1

Settled == {ch \in Channels : row[ch] = "succeeded"}

---------------------------------------------------------------------------
\* The customer.  Asking again for the same payment changes nothing.
PayOrder(ch) ==
    /\ card /\ status = "pending_payment" /\ Settled = {}
    /\ row[ch] = "none"
    /\ row' = [row EXCEPT ![ch] = "requires_payment"]
    /\ intent' = [intent EXCEPT ![ch] = "open"]
    /\ UNCHANGED <<paidLast, refunds, reading, returned, refundKey, transfers, events, work,
                   listed, lateCancel, due, payouts, old, faults>>

CustomerPays(ch) ==
    /\ intent[ch] = "open"
    /\ intent' = [intent EXCEPT ![ch] = "paid"]
    /\ events' = events \cup {<<"paid", ch, 0>>}
    /\ UNCHANGED <<row, paidLast, refunds, reading, returned, refundKey, transfers, work,
                   listed, lateCancel, due, payouts, old, faults>>

\* Only a session lapses.
SessionLapses ==
    /\ "cs" \in Channels /\ intent["cs"] = "open"
    /\ intent' = [intent EXCEPT !["cs"] = "expired"]
    /\ events' = events \cup {<<"expired", "cs", 0>>}
    /\ UNCHANGED <<row, paidLast, refunds, reading, returned, refundKey, transfers, work,
                   listed, lateCancel, due, payouts, old, faults>>

\* A refund at Stripe, up to a total of n, and its event.
RefundAtStripe(ch, n) ==
    /\ returned' = [returned EXCEPT ![ch] = n]
    /\ events' = events \cup {<<"refunded", ch, n>>}

\* An administrator refunds in Stripe's dashboard, in part or in full.
DashboardRefund(ch, n) ==
    /\ intent[ch] = "paid" /\ n > returned[ch]
    /\ RefundAtStripe(ch, n)
    /\ UNCHANGED <<row, paidLast, refunds, reading, intent, refundKey, transfers, work,
                   listed, lateCancel, due, payouts, old, faults>>

---------------------------------------------------------------------------
\* settle: MarkCheckoutPaid, on the payment and on the header, and what
\* follows it: onPaid, or a refund when the order was cancelled meanwhile.
Settleable(ch) == row[ch] \in {"requires_payment", "cancelled"}

MutSettle(ch, keepEvents) ==
    /\ events' = keepEvents
    /\ IF Settleable(ch)
       THEN /\ OrderFree
            /\ row' = [row EXCEPT ![ch] = "succeeded"]
            /\ paidLast' = ch
            /\ status' = PaidStatus(status)
            /\ work' = work \cup {<<"onPaid", ch>>}
       ELSE UNCHANGED <<row, paidLast, status, work>>
    /\ UNCHANGED <<card, line, checked, handover, refunds, reading, stripeVars, listed,
                   lateCancel, due, payouts, old, faults>>

settle(ch, keepEvents) ==
    /\ events' = keepEvents
    /\ IF Settleable(ch)
       THEN /\ OrderFree
            /\ row' = [row EXCEPT ![ch] = "succeeded"]
            /\ paidLast' = ch
            /\ status' = PaidStatus(status)
            /\ work' = work \cup {<<IF status \in Dead THEN "refund" ELSE "onPaid", ch>>}
       ELSE UNCHANGED <<row, paidLast, status, work>>
    /\ UNCHANGED <<card, line, checked, handover, refunds, reading, stripeVars, listed,
                   lateCancel, due, payouts, old, faults>>

expire(ch, keepEvents) ==
    /\ events' = keepEvents
    /\ row' = IF row[ch] = "requires_payment" THEN [row EXCEPT ![ch] = "cancelled"] ELSE row
    /\ UNCHANGED <<orderVars, paidLast, refunds, reading, stripeVars, work, listed,
                   lateCancel, due, payouts, old, faults>>

\* The row a PaymentIntent's id finds: a session's only once it was settled.
FoundByIntent(ch) ==
    IF ch = "cs" THEN row[ch] \in {"succeeded", "refunded"} ELSE row[ch] # "none"

(***************************************************************************)
(* ApplyRefund, from the cumulative amount n of charge.refunded.  Its first *)
(* statement locks the payment and reads the sum of the refunds recorded,  *)
(* as of when that statement began; two handlers may both read before the  *)
(* first of them has the lock.                                             *)
(***************************************************************************)
ReadRefunds(ch, n, keepEvents) ==
    /\ events' = keepEvents
    /\ reading' = IF FoundByIntent(ch) THEN reading \cup {<<ch, n, refunds[ch]>>} ELSE reading
    /\ UNCHANGED <<orderVars, row, paidLast, refunds, stripeVars, work, listed,
                   lateCancel, due, payouts, old, faults>>

MutApplyRefund(ch, n, already) ==
    /\ <<ch, n, already>> \in reading
    /\ n >= Amount => OrderFree
    /\ reading' = reading \ {<<ch, n, already>>}
    /\ refunds' = [refunds EXCEPT ![ch] = IF n > already THEN @ + (n - already) ELSE @]
    /\ row' = [row EXCEPT ![ch] = "refunded"]
    /\ status' = IF n >= Amount THEN RefundedStatus(status) ELSE status
    /\ UNCHANGED <<card, line, checked, handover, paidLast, stripeVars, events, work,
                   listed, lateCancel, due, payouts, old, faults>>

ApplyRefund(ch, n, already) ==
    /\ <<ch, n, already>> \in reading
    /\ n >= Amount => OrderFree
    /\ reading' = reading \ {<<ch, n, already>>}
    /\ refunds' = [refunds EXCEPT ![ch] = IF n > already THEN @ + (n - already) ELSE @]
    /\ row' = IF n >= Amount THEN [row EXCEPT ![ch] = "refunded"] ELSE row
    /\ status' = IF n >= Amount THEN RefundedStatus(status) ELSE status
    /\ UNCHANGED <<card, line, checked, handover, paidLast, stripeVars, events, work,
                   listed, lateCancel, due, payouts, old, faults>>

\* HandlePlatformWebhook: RecordEvent first, so an event is handled once.
HandlePlatformWebhook(e) ==
    /\ e \in events
    /\ \/ e[1] = "paid" /\ settle(e[2], events \ {e})
       \/ e[1] = "expired" /\ expire(e[2], events \ {e})
       \/ e[1] = "refunded" /\ ReadRefunds(e[2], e[3], events \ {e})

\* The process dies after RecordEvent: the event counts as handled.  (When a
\* handler fails, its event is forgotten and sent again, as if not begun.)
EventLost(e) ==
    /\ e \in events /\ Fault
    /\ events' = events \ {e}
    /\ UNCHANGED <<orderVars, row, paidLast, refunds, reading, stripeVars, work, listed,
                   lateCancel, due, payouts, old>>

(***************************************************************************)
(* PendingPayments lists the payments of the last three days.  A session   *)
(* has lapsed long before; a PaymentIntent never does, and can be paid     *)
(* when nobody looks at it any more.  A payment made in time is looked at  *)
(* in time, since the job runs every few minutes (external: the clock).    *)
(***************************************************************************)
Ages(ch) ==
    /\ ch # "cs" /\ ch \notin old /\ intent[ch] = "open"
    /\ old' = old \cup {ch}
    /\ UNCHANGED <<row, paidLast, refunds, reading, stripeVars, events, work, listed,
                   lateCancel, due, payouts, faults>>

Pending(ch) == row[ch] = "requires_payment" /\ ch \notin old

\* ReconcilePending, and SyncOrderPayment when the customer comes back.
MutReconcileOne(ch) ==
    /\ Pending(ch) /\ status = "pending_payment"
    /\ \/ intent[ch] = "paid" /\ settle(ch, events)
       \/ intent[ch] = "expired" /\ expire(ch, events)

reconcileOne(ch) ==
    /\ Pending(ch)
    /\ \/ intent[ch] = "paid" /\ settle(ch, events)
       \/ intent[ch] = "expired" /\ expire(ch, events)

---------------------------------------------------------------------------
\* CreateRefund, in full.  Every refund of an order uses one idempotency key:
\* Stripe repeats its answer for the same payment and refuses another one.
CreateRefund(ch) ==
    /\ refundKey \in {NoChannel, ch}
    /\ IF refundKey = NoChannel /\ returned[ch] < Amount
       THEN /\ RefundAtStripe(ch, Amount)
            /\ refundKey' = ch
       ELSE UNCHANGED <<returned, events, refundKey>>

RefundRefused(ch) ==
    /\ refundKey \notin {NoChannel, ch}
    /\ UNCHANGED <<returned, events, refundKey>>

\* PaidIntentForOrder: the settled payment paid last.
PaidIntentForOrder == IF paidLast \in Settled THEN {paidLast} ELSE Settled

\* The refund a settlement of a cancelled order asks for.  When the call
\* fails the event comes again, and finds the payment settled.
RefundInstead(ch) ==
    /\ <<"refund", ch>> \in work
    /\ work' = work \ {<<"refund", ch>>}
    /\ CreateRefund(ch) \/ RefundRefused(ch)
    /\ UNCHANGED <<orderVars, row, paidLast, refunds, reading, intent, transfers, listed,
                   lateCancel, due, payouts, old, faults>>

\* AfterCancel: RefundOrder, after the customer's cancellation committed.
RefundOrder ==
    /\ <<"afterCancel", NoChannel>> \in work
    /\ work' = work \ {<<"afterCancel", NoChannel>>}
    /\ \/ /\ PaidIntentForOrder = {}
          /\ UNCHANGED <<returned, events, refundKey>>
       \/ \E ch \in PaidIntentForOrder : CreateRefund(ch) \/ RefundRefused(ch)
    /\ UNCHANGED <<orderVars, row, paidLast, refunds, reading, intent, transfers, listed,
                   lateCancel, due, payouts, old, faults>>

\* A refund call fails, or the process dies before it: nobody asks again.
WorkLost(x) ==
    /\ x \in work /\ Fault
    /\ work' = work \ {x}
    /\ UNCHANGED <<orderVars, row, paidLast, refunds, reading, stripeVars, events, listed,
                   lateCancel, due, payouts, old>>

\* CancelForCustomer, its part on the payments, for the customer.
AfterCancel ==
    /\ work' = IF card THEN work \cup {<<"afterCancel", NoChannel>>} ELSE work
    /\ UNCHANGED <<row, paidLast, refunds, reading, stripeVars, events, listed, lateCancel,
                   due, payouts, old, faults>>

\* The expiry loop lists the order, and cancels it in a second step that
\* calls no AfterCancel.
ExpiredUnpaidOrders ==
    /\ card /\ ~listed /\ status = "pending_payment" /\ Settled = {}
    /\ listed' = TRUE
    /\ UNCHANGED <<orderVars, row, paidLast, refunds, reading, stripeVars, events, work,
                   lateCancel, due, payouts, old, faults>>

CancelUnpaid ==
    /\ listed
    /\ listed' = FALSE
    /\ lateCancel' = (Settled # {})
    /\ UNCHANGED <<row, paidLast, refunds, reading, stripeVars, events, work, due, payouts, old,
                   faults>>

\* The order it listed is not cancelled: the attempt is refused, or dies.
NotCancelled ==
    /\ listed
    /\ listed' = FALSE
    /\ UNCHANGED <<orderVars, row, paidLast, refunds, reading, stripeVars, events, work,
                   lateCancel, due, payouts, old, faults>>

---------------------------------------------------------------------------
\* DueTransfers, for the payout loop and for a seller's withdrawal.
DueTransfers(w) ==
    /\ due[w] = {}
    /\ due' = [due EXCEPT ![w] = {l \in Lines \ payouts : line[l] = "delivered"
                                    /\ status # "refunded" /\ Settled # {}}]
    /\ due'[w] # {}
    /\ UNCHANGED <<orderVars, row, paidLast, refunds, reading, stripeVars, events, work,
                   listed, lateCancel, payouts, old, faults>>

transferKey(l, charge) == <<l, IF charge THEN "transfer-src" ELSE "transfer">>

\* sendTransfers, one line: read the payment for its charge, transfer under
\* the line's key, record.  Stripe makes one transfer per key.
SendTransfer(w, l, charge, recorded) ==
    /\ l \in due[w]
    /\ transfers' = transfers \cup {transferKey(l, charge)}
    /\ payouts' = IF recorded THEN payouts \cup {l} ELSE payouts
    /\ due' = [due EXCEPT ![w] = @ \ {l}]
    /\ IF charge /\ recorded THEN UNCHANGED faults ELSE Fault
    /\ UNCHANGED <<orderVars, row, paidLast, refunds, reading, intent, returned, refundKey,
                   events, work, listed, lateCancel, old>>

\* What changes nothing but the payments.
PaymentStep ==
    \/ \E ch \in Channels :
         \/ PayOrder(ch) /\ UNCHANGED orderVars
         \/ CustomerPays(ch) /\ UNCHANGED orderVars
         \/ Ages(ch) /\ UNCHANGED orderVars
         \/ \E n \in ByHand : DashboardRefund(ch, n) /\ UNCHANGED orderVars
         \/ reconcileOne(ch)
         \/ RefundInstead(ch)
    \/ SessionLapses /\ UNCHANGED orderVars
    \/ \E e \in events : HandlePlatformWebhook(e) \/ EventLost(e)
    \/ \E x \in reading : ApplyRefund(x[1], x[2], x[3])
    \/ \E x \in work : WorkLost(x)
    \/ RefundOrder
    \/ ExpiredUnpaidOrders \/ NotCancelled
    \/ \E w \in Workers :
         \/ DueTransfers(w)
         \/ \E l \in Lines, charge, recorded \in BOOLEAN : SendTransfer(w, l, charge, recorded)
=============================================================================
