---------------------------- MODULE Memberships -----------------------------
(***************************************************************************)
(* The paid memberships of one customer and the bonus of each paid period: *)
(* membership.subscriptions, paid_periods and bonus_slots, Stripe's        *)
(* checkout pages, subscriptions, invoices and webhooks, and the gifts     *)
(* whose completion unlocks a bonus (points.gift_qualifications).          *)
(*                                                                         *)
(* A period, and its slot, is named by the invoice that paid for it: the   *)
(* subscription and the number of its invoice.  RecordPaidPeriod and       *)
(* StartSubscription take the advisory lock of the customer, so each is    *)
(* one step; SetPeriodPaymentStatus takes the row of the period only, and  *)
(* claimBonus reads the period before it locks the slot: a step each.      *)
(*                                                                         *)
(* A Mut... operator is a faulty variant of the definition after it.       *)
(***************************************************************************)
EXTENDS Naturals, FiniteSets, FiniteSetsExt

CONSTANTS Subs,         \* the joins the customer can ask for
          Gifts,        \* the gift orders the customer can pay for
          Offered,      \* the bonus triggers of the offers on sale
          Length,       \* how long a period lasts
          MaxTime,      \* bound: the clock
          MaxInvoices,  \* bound: invoices of a subscription
          MaxChanges,   \* bound: cancellations, resumptions, failed renewals
          MaxRefunds,   \* bound: refunds and disputes
          MaxPending,   \* bound: webhooks on their way
          NoGift, NoSlot

\* plan_offers.bonus_trigger, or "none" for an offer without a bonus.
Triggers == {"payment", "first_gift", "none"}
Invoices == Subs \X (1..MaxInvoices)

ASSUME MembershipsAssumption ==
    /\ Offered \subseteq Triggers
    /\ Length \in Nat \ {0}
    /\ {MaxTime, MaxInvoices, MaxChanges, MaxRefunds, MaxPending} \subseteq Nat
    /\ NoGift \notin Gifts
    /\ NoSlot \notin Invoices

VARIABLES clock,
          sub,       \* membership.subscriptions
          stripe,    \* Stripe: the checkout page, the subscription, its paid invoices
          hooks,     \* webhooks sent and not yet handled
          replies,   \* Stripe's stored answers to the idempotency keys of a cancellation
          period,    \* membership.paid_periods
          slot,      \* membership.bonus_slots
          cases,     \* points.cp_review_cases
          order,     \* marketplace.orders: the gifts
          anchor,    \* when a gift's payment was captured
          gift,      \* points.gift_qualifications.status
          bonus,     \* gift_qualifications.bonus_slot_id
          claiming,  \* the slot claimBonus read, before it locks it
          late,      \* history: slots locked after their period was refunded
          changes, refunds

stripeVars == <<stripe, hooks, replies>>
periodVars == <<period, slot, cases>>
giftVars == <<order, anchor, gift, bonus, claiming, late>>
counts == <<changes, refunds>>
vars == <<clock, sub, stripeVars, periodVars, giftVars, counts>>

Live == {"incomplete", "active", "past_due", "cancelling"}
SubStatuses == Live \cup {"none", "cancelled", "abandoned"}
StripeStatuses == {"none", "incomplete", "active", "past_due", "canceled"}
Pages == {"none", "open", "expired", "complete"}
Snapshots == [status : StripeStatuses, ending : BOOLEAN, end : Nat]
CancelKeys == {"membership-cancel", "membership-renewal-stop"}
Webhooks == ({"completed", "expired"} \X Subs) \cup ({"update"} \X (Subs \X Snapshots))
            \cup ({"invoice", "refunded", "disputed"} \X Invoices)
NoEnd == 0
NoReply == [status |-> "none", ending |-> FALSE, end |-> NoEnd]
NotRecorded == [status |-> "none", start |-> 0]
NotOpened == [status |-> "none", gift |-> NoGift]

TypeOK ==
    /\ clock \in Nat
    /\ sub \in [Subs -> [status : SubStatuses, offer : Triggers, page : BOOLEAN,
                         ref : BOOLEAN, ending : BOOLEAN, end : Nat]]
    /\ stripe \in [Subs -> [page : Pages, status : StripeStatuses, ending : BOOLEAN,
                            from : Nat, issued : Nat, paid : SUBSET (1..MaxInvoices)]]
    /\ hooks \in SUBSET Webhooks
    /\ replies \in [Subs -> [CancelKeys -> Snapshots]]
    /\ period \in [Invoices -> [status : {"none", "paid", "refunded", "disputed"}, start : Nat]]
    /\ slot \in [Invoices -> [status : {"none", "unawarded", "awarded", "reversed"},
                              gift : Gifts \cup {NoGift}]]
    /\ cases \in SUBSET (({"reconciliation", "membership_dispute"} \X Invoices)
                         \cup ({"refund_after_spend"} \X Gifts))
    /\ order \in [Gifts -> {"none", "paid", "delivered", "undone"}]
    /\ anchor \in [Gifts -> Nat]
    /\ gift \in [Gifts -> {"none", "pending", "awarded", "reversed", "review", "cancelled"}]
    /\ bonus \in [Gifts -> Invoices \cup {NoSlot}]
    /\ claiming \in [Gifts -> Invoices \cup {NoSlot}]
    /\ late \in SUBSET Invoices
    /\ changes \in Nat /\ refunds \in Nat

Init ==
    /\ clock = 1
    /\ sub = [s \in Subs |-> [status |-> "none", offer |-> "none", page |-> FALSE,
                              ref |-> FALSE, ending |-> FALSE, end |-> NoEnd]]
    /\ stripe = [s \in Subs |-> [page |-> "none", status |-> "none", ending |-> FALSE,
                                 from |-> 0, issued |-> 0, paid |-> {}]]
    /\ hooks = {}
    /\ replies = [s \in Subs |-> [k \in CancelKeys |-> NoReply]]
    /\ period = [i \in Invoices |-> NotRecorded]
    /\ slot = [i \in Invoices |-> NotOpened]
    /\ cases = {}
    /\ order = [g \in Gifts |-> "none"]
    /\ anchor = [g \in Gifts |-> 0]
    /\ gift = [g \in Gifts |-> "none"]
    /\ bonus = [g \in Gifts |-> NoSlot]
    /\ claiming = [g \in Gifts |-> NoSlot]
    /\ late = {}
    /\ changes = 0 /\ refunds = 0

Tick == /\ clock < MaxTime
        /\ clock' = clock + 1
        /\ UNCHANGED <<sub, stripeVars, periodVars, giftVars, counts>>

------------------------------- (* Joining *) -------------------------------

IsLive(s) == sub[s].status \in Live
\* The unique index subscriptions_one_live.
OnlyLive(s) == \A t \in Subs \ {s} : ~IsLive(t)

\* An unpaid checkout that is given up: only while nothing says it was paid.
Unpaid(s) == sub[s].status = "incomplete" /\ ~sub[s].ref
Abandoned(S) == [t \in Subs |-> IF t \in S /\ Unpaid(t)
                                THEN [sub[t] EXCEPT !.status = "abandoned"] ELSE sub[t]]

\* Join records the request before any payment; an unpaid one is replaced,
\* and with another membership live it fails.
StartSubscription(s, o) ==
    /\ sub[s].status = "none"
    /\ \A t \in Subs : IsLive(t) => Unpaid(t)
    /\ sub' = [Abandoned(Subs) EXCEPT ![s].status = "incomplete", ![s].offer = o]
    /\ UNCHANGED <<clock, stripeVars, periodVars, giftVars, counts>>

\* Join goes on to open Stripe's page and stores it, whatever became of the row.
OpenCheckout(s) ==
    /\ sub[s].status \in {"incomplete", "abandoned"} /\ ~sub[s].page
    /\ sub' = [sub EXCEPT ![s].page = TRUE]
    /\ stripe' = [stripe EXCEPT ![s].page = "open"]
    /\ UNCHANGED <<clock, hooks, replies, periodVars, giftVars, counts>>

\* Stripe could not be reached.
CheckoutFails(s) ==
    /\ sub[s].status = "incomplete" /\ ~sub[s].page
    /\ sub' = Abandoned({s})
    /\ UNCHANGED <<clock, stripeVars, periodVars, giftVars, counts>>

-------------------------------- (* Stripe *) -------------------------------

EndOf(st) == st.from + st.issued * Length
Snapshot(st) == [status |-> st.status, ending |-> st.ending, end |-> EndOf(st)]

\* Each webhook is on its way, or lost; at most MaxPending are.
Sends(new) == hooks' \in {h \in SUBSET (hooks \cup new) : hooks \subseteq h /\ Cardinality(h) <= MaxPending}
Takes(hook) == hook \in hooks /\ hooks' = hooks \ {hook}
Update(s, st) == <<"update", <<s, Snapshot(st)>>>>

\* Stripe's page stays open for a day, also for a subscription that was replaced.
Pay(s) ==
    /\ stripe[s].page = "open" /\ MaxInvoices > 0
    /\ LET st == [page |-> "complete", status |-> "active", ending |-> FALSE,
                  from |-> clock, issued |-> 1, paid |-> {1}]
       IN  /\ stripe' = [stripe EXCEPT ![s] = st]
           /\ Sends({<<"completed", s>>, <<"invoice", <<s, 1>>>>, Update(s, st)})
    /\ UNCHANGED <<clock, sub, replies, periodVars, giftVars, counts>>

PageExpires(s) ==
    /\ stripe[s].page = "open"
    /\ stripe' = [stripe EXCEPT ![s].page = "expired"]
    /\ Sends({<<"expired", s>>})
    /\ UNCHANGED <<clock, sub, replies, periodVars, giftVars, counts>>

\* The period is over: Stripe charges for the next one.
Renew(s) ==
    /\ stripe[s].status = "active" /\ ~stripe[s].ending
    /\ clock >= EndOf(stripe[s]) /\ stripe[s].issued < MaxInvoices
    /\ LET n == stripe[s].issued + 1
           st == [stripe[s] EXCEPT !.issued = n, !.paid = @ \cup {n}]
       IN  /\ stripe' = [stripe EXCEPT ![s] = st]
           /\ Sends({<<"invoice", <<s, n>>>>, Update(s, st)})
    /\ UNCHANGED <<clock, sub, replies, periodVars, giftVars, counts>>

\* The charge fails: the next period is open and not paid for.
RenewalFails(s) ==
    /\ changes < MaxChanges /\ changes' = changes + 1
    /\ stripe[s].status = "active" /\ ~stripe[s].ending
    /\ clock >= EndOf(stripe[s]) /\ stripe[s].issued < MaxInvoices
    /\ LET st == [stripe[s] EXCEPT !.issued = @ + 1, !.status = "past_due"]
       IN  /\ stripe' = [stripe EXCEPT ![s] = st]
           /\ Sends({Update(s, st)})
    /\ UNCHANGED <<clock, sub, replies, periodVars, giftVars, refunds>>

\* A later attempt succeeds.
PayLate(s) ==
    /\ stripe[s].status = "past_due"
    /\ LET st == [stripe[s] EXCEPT !.status = "active", !.paid = @ \cup {stripe[s].issued}]
       IN  /\ stripe' = [stripe EXCEPT ![s] = st]
           /\ Sends({<<"invoice", <<s, st.issued>>>>, Update(s, st)})
    /\ UNCHANGED <<clock, sub, replies, periodVars, giftVars, counts>>

\* The subscription runs out, Stripe gives up on its payment, or it is ended
\* at Stripe at once.
End(s) ==
    /\ \/ stripe[s].status = "active" /\ stripe[s].ending /\ clock >= EndOf(stripe[s])
          /\ UNCHANGED changes
       \/ stripe[s].status = "past_due" /\ UNCHANGED changes
       \/ stripe[s].status = "active" /\ changes < MaxChanges /\ changes' = changes + 1
    /\ LET st == [stripe[s] EXCEPT !.status = "canceled"]
       IN  /\ stripe' = [stripe EXCEPT ![s] = st]
           /\ Sends({Update(s, st)})
    /\ UNCHANGED <<clock, sub, replies, periodVars, giftVars, refunds>>

\* A paid invoice is refunded in full, or disputed.
Refund(i, as) ==
    /\ refunds < MaxRefunds /\ refunds' = refunds + 1
    /\ i[2] \in stripe[i[1]].paid
    /\ Sends({<<as, i>>})
    /\ UNCHANGED <<clock, sub, stripe, replies, periodVars, giftVars, changes>>

\* Stripe keeps the answer to an idempotency key for a day.
ForgetReply(s, k) ==
    /\ replies[s][k] # NoReply
    /\ replies' = [replies EXCEPT ![s][k] = NoReply]
    /\ UNCHANGED <<clock, sub, stripe, hooks, periodVars, giftVars, counts>>

-------------------------- (* What Stripe reports *) ------------------------

MutMapProviderStatus(st) == IF st.status = "active" /\ st.ending THEN "cancelling" ELSE st.status
mapProviderStatus(st) ==
    CASE st.status = "active" -> IF st.ending THEN "cancelling" ELSE "active"
      [] st.status = "past_due" -> "past_due"
      [] st.status = "canceled" -> "cancelled"
      [] OTHER -> "incomplete"

\* The provider's view of a membership: an ended one stays ended, and a
\* second live one is refused by the index, which fails the whole request.
Reported(s, st) ==
    [sub[s] EXCEPT !.ref = TRUE,
                   !.status = IF @ = "cancelled" THEN @ ELSE mapProviderStatus(st),
                   !.ending = st.ending,
                   !.end = IF st.end = NoEnd THEN @ ELSE st.end]

ApplyProviderSubscription(s, st) ==
    /\ Reported(s, st).status \in Live => OnlyLive(s)
    /\ sub' = [sub EXCEPT ![s] = Reported(s, st)]

\* What a webhook says when the subscription cannot be read from Stripe.
Unread == [status |-> "incomplete", ending |-> FALSE, end |-> NoEnd]

CompletedHook(s) ==
    /\ Takes(<<"completed", s>>)
    /\ \E st \in {Snapshot(stripe[s]), Unread} : ApplyProviderSubscription(s, st)
    /\ UNCHANGED <<clock, stripe, replies, periodVars, giftVars, counts>>

ExpiredHook(s) ==
    /\ Takes(<<"expired", s>>)
    /\ sub' = Abandoned({s})
    /\ UNCHANGED <<clock, stripe, replies, periodVars, giftVars, counts>>

UpdateHook(s, st) ==
    /\ Takes(<<"update", <<s, st>>>>)
    /\ ApplyProviderSubscription(s, st)
    /\ UNCHANGED <<clock, stripe, replies, periodVars, giftVars, counts>>

----------------------------- (* Paid periods *) ----------------------------

StartOf(i) == stripe[i[1]].from + (i[2] - 1) * Length
PaidFrom(i) == [status |-> "paid", start |-> StartOf(i)]
Overlap(a, b) == a.start < b.start + Length /\ b.start < a.start + Length

\* Some period of the customer is paid for, by whichever membership, and meets it.
MutOverlapping(i) == \E j \in Invoices : j[1] = i[1] /\ period[j].status = "paid" /\ Overlap(period[j], PaidFrom(i))
Overlapping(i) == \E j \in Invoices : period[j].status = "paid" /\ Overlap(period[j], PaidFrom(i))

\* The membership after invoices of its own are recorded.
Recorded(st, new) ==
    IF new = {} THEN st
    ELSE [st EXCEPT !.status = IF @ = "cancelled" THEN "cancelled"
                               ELSE IF st.ending THEN "cancelling" ELSE "active",
                    !.end = Max({@} \cup {StartOf(i) + Length : i \in new})]

\* Each invoice becomes a period once; one that overlaps a period already paid
\* for opens no second slot.
RecordPaidPeriods(s, st, invoices) ==
    LET new == {i \in invoices : period[i] = NotRecorded}
        overlapping == {i \in new : Overlapping(i)}
        opened == CASE st.offer = "payment" -> "awarded"
                    [] st.offer = "first_gift" -> "unawarded"
                    [] OTHER -> "none"
    IN  /\ Recorded(st, new).status \in Live => OnlyLive(s)
        /\ sub' = [sub EXCEPT ![s] = Recorded(st, new)]
        /\ period' = [i \in Invoices |-> IF i \in new THEN PaidFrom(i) ELSE period[i]]
        /\ slot' = [i \in Invoices |-> IF i \in new \ overlapping
                                       THEN [slot[i] EXCEPT !.status = opened] ELSE slot[i]]
        /\ cases' = cases \cup {<<"reconciliation", i>> : i \in overlapping}

InvoiceHook(i) ==
    /\ Takes(<<"invoice", i>>)
    /\ RecordPaidPeriods(i[1], sub[i[1]], {i})
    /\ UNCHANGED <<clock, stripe, replies, giftVars, counts>>

\* A refund or dispute: a bonus credited with the payment is taken back, as
\* far as it is not spent; one a gift unlocked goes to a case.
MutSetPeriodPaymentStatus(i, as, spent) ==
    /\ period' = IF period[i] = NotRecorded THEN period ELSE [period EXCEPT ![i].status = as]
    /\ slot' = IF slot[i].status = "awarded" /\ slot[i].gift = NoGift
               THEN [slot EXCEPT ![i].status = "reversed"] ELSE slot
    /\ UNCHANGED cases
SetPeriodPaymentStatus(i, as, spent) ==
    IF period[i].status \in {"none", as} THEN UNCHANGED <<period, slot, cases>>
    ELSE LET took == slot[i].status = "awarded" /\ slot[i].gift = NoGift
             asked == slot[i].status = "awarded" /\ (slot[i].gift # NoGift \/ spent)
         IN  /\ period' = [period EXCEPT ![i].status = as]
             /\ slot' = IF took THEN [slot EXCEPT ![i].status = "reversed"] ELSE slot
             /\ cases' = IF asked THEN cases \cup {<<"membership_dispute", i>>} ELSE cases

RefundHook(i, as) ==
    /\ Takes(<<as, i>>)
    /\ \E spent \in BOOLEAN : SetPeriodPaymentStatus(i, as, spent)
    /\ UNCHANGED <<clock, sub, stripe, replies, giftVars, counts>>

--------------------------- (* Reading it back *) ---------------------------

\* The memberships the job checks with Stripe.
MutStripeSubscriptionsToSync ==
    {s \in Subs : IsLive(s) /\ sub[s].status # "incomplete" /\ sub[s].end # NoEnd /\ sub[s].end <= clock}
StripeSubscriptionsToSync ==
    {s \in Subs : IsLive(s) /\ \/ sub[s].status = "incomplete"
                               \/ \A n \in 1..MaxInvoices : period[<<s, n>>] = NotRecorded
                               \/ sub[s].end # NoEnd /\ sub[s].end <= clock}

\* The page was never paid for, or expired.
SyncUnpaid(s) ==
    /\ ~sub[s].ref /\ sub[s].page /\ stripe[s].page = "expired"
    /\ sub' = Abandoned({s})
    /\ UNCHANGED periodVars

\* Stripe fails once the page was read, or once the subscription was.
SyncCut(s) ==
    /\ \/ sub[s].ref /\ ApplyProviderSubscription(s, Snapshot(stripe[s]))
       \/ /\ ~sub[s].ref /\ sub[s].page /\ stripe[s].page = "complete"
          /\ \E st \in {Unread, Snapshot(stripe[s])} : ApplyProviderSubscription(s, st)
    /\ UNCHANGED periodVars

\* The subscription, then its paid invoices.
SyncPaid(s) ==
    /\ sub[s].ref \/ (sub[s].page /\ stripe[s].page = "complete")
    /\ RecordPaidPeriods(s, Reported(s, Snapshot(stripe[s])), {<<s, n>> : n \in stripe[s].paid})

syncStripeSubscription(s) ==
    /\ SyncUnpaid(s) \/ SyncCut(s) \/ SyncPaid(s)
    /\ UNCHANGED <<clock, stripeVars, giftVars, counts>>

\* The customer's page asks for their live membership, whatever is recorded.
SyncMembership == \E s \in Subs : IsLive(s) /\ syncStripeSubscription(s)
syncStripeMemberships(s) == s \in StripeSubscriptionsToSync /\ syncStripeSubscription(s)

------------------------------ (* Cancelling *) -----------------------------

\* A request with a key Stripe has seen gets the stored answer and does nothing.
CancelAtPeriodEnd(s, k) ==
    IF replies[s][k] # NoReply
    THEN /\ ApplyProviderSubscription(s, replies[s][k])
         /\ UNCHANGED stripeVars
    ELSE LET st == [stripe[s] EXCEPT !.ending = TRUE]
         IN  /\ stripe[s].status \in {"active", "past_due"}
             /\ ApplyProviderSubscription(s, Snapshot(st))
             /\ stripe' = [stripe EXCEPT ![s] = st]
             /\ replies' = [replies EXCEPT ![s][k] = Snapshot(st)]
             /\ Sends({Update(s, st)})

\* A membership the provider's subscription is not known of counts as unpaid.
Cancel(s) ==
    /\ changes < MaxChanges /\ changes' = changes + 1
    /\ IsLive(s)
    /\ \/ ~sub[s].ref /\ sub' = Abandoned({s}) /\ UNCHANGED stripeVars
       \/ sub[s].ref /\ CancelAtPeriodEnd(s, "membership-cancel")
    /\ UNCHANGED <<clock, periodVars, giftVars, refunds>>

\* Renewing is no longer approved where the customer is.
enforceRenewals(s) ==
    /\ changes < MaxChanges /\ changes' = changes + 1
    /\ sub[s].status \in {"active", "past_due"} /\ ~sub[s].ending /\ sub[s].ref
    /\ CancelAtPeriodEnd(s, "membership-renewal-stop")
    /\ UNCHANGED <<clock, periodVars, giftVars, refunds>>

Resume(s) ==
    /\ sub[s].status \in {"cancelling", "active"} /\ sub[s].ref /\ sub[s].ending
    /\ stripe[s].status \in {"active", "past_due"}
    /\ LET st == [stripe[s] EXCEPT !.ending = FALSE]
       IN  /\ ApplyProviderSubscription(s, Snapshot(st))
           /\ stripe' = [stripe EXCEPT ![s] = st]
           /\ Sends({Update(s, st)})
    /\ UNCHANGED <<clock, replies, periodVars, giftVars, counts>>

----------------------------- (* Gifts and bonus *) -------------------------

\* A gift is paid for, now; the capture time is its anchor for good.
PayGift(g) ==
    /\ order[g] = "none"
    /\ order' = [order EXCEPT ![g] = "paid"]
    /\ anchor' = [anchor EXCEPT ![g] = clock]
    /\ UNCHANGED <<clock, sub, stripeVars, periodVars, gift, bonus, claiming, late, counts>>

DeliverGift(g) ==
    /\ order[g] = "paid"
    /\ order' = [order EXCEPT ![g] = "delivered"]
    /\ UNCHANGED <<clock, sub, stripeVars, periodVars, anchor, gift, bonus, claiming, late, counts>>

\* Cancelled, or its payment refunded, also after delivery.
UndoGift(g) ==
    /\ order[g] \in {"paid", "delivered"}
    /\ order' = [order EXCEPT ![g] = "undone"]
    /\ UNCHANGED <<clock, sub, stripeVars, periodVars, anchor, gift, bonus, claiming, late, counts>>

\* A paid gift earns under the policy in force, or does not qualify.
qualifyPaidGifts(g) ==
    /\ order[g] \in {"paid", "delivered"} /\ gift[g] = "none"
    /\ \E st \in {"pending", "cancelled"} : gift' = [gift EXCEPT ![g] = st]
    /\ UNCHANGED <<clock, sub, stripeVars, periodVars, order, anchor, bonus, claiming, late, counts>>

cancelUnfinishedGifts(g) ==
    /\ gift[g] = "pending" /\ order[g] = "undone" /\ claiming[g] = NoSlot
    /\ gift' = [gift EXCEPT ![g] = "cancelled"]
    /\ UNCHANGED <<clock, sub, stripeVars, periodVars, order, anchor, bonus, claiming, late, counts>>

\* awardGift and awardDeferredBonuses, under the lock of the gift's row.
MutAwards(g) == gift[g] = "pending" /\ claiming[g] = NoSlot
Awards(g) == /\ gift[g] = "pending" \/ (gift[g] = "awarded" /\ bonus[g] = NoSlot)
             /\ claiming[g] = NoSlot

\* The slots of the paid periods the gift's payment falls in.
Claimable(g) == {i \in Invoices : /\ slot[i].status = "unawarded" /\ period[i].status = "paid"
                                  /\ period[i].start <= anchor[g]
                                  /\ anchor[g] < period[i].start + Length}

\* claimBonus reads the first such slot; the period's row is not locked.
ReadSlot(g) ==
    /\ Awards(g) /\ order[g] = "delivered"
    /\ \E i \in Claimable(g) :
          /\ \A j \in Claimable(g) : period[i].start <= period[j].start
          /\ claiming' = [claiming EXCEPT ![g] = i]
    /\ UNCHANGED <<clock, sub, stripeVars, periodVars, order, anchor, gift, bonus, late, counts>>

\* The slot's row is locked and read again: of two gifts the second finds it
\* awarded and gets its ordinary points only.
MutClaimBonus(g) ==
    /\ claiming[g] # NoSlot
    /\ slot' = [slot EXCEPT ![claiming[g]] = [status |-> "awarded", gift |-> g]]
    /\ bonus' = [bonus EXCEPT ![g] = claiming[g]]
    /\ gift' = [gift EXCEPT ![g] = "awarded"]
    /\ claiming' = [claiming EXCEPT ![g] = NoSlot]
    /\ UNCHANGED <<clock, sub, stripeVars, period, cases, order, anchor, late, counts>>
ClaimBonus(g) ==
    /\ claiming[g] # NoSlot
    /\ LET i == claiming[g]
       IN  IF slot[i].status = "unawarded"
           THEN /\ slot' = [slot EXCEPT ![i] = [status |-> "awarded", gift |-> g]]
                /\ bonus' = [bonus EXCEPT ![g] = i]
                /\ late' = IF period[i].status = "paid" THEN late ELSE late \cup {i}
           ELSE UNCHANGED <<slot, bonus, late>>
    /\ gift' = [gift EXCEPT ![g] = "awarded"]
    /\ claiming' = [claiming EXCEPT ![g] = NoSlot]
    /\ UNCHANGED <<clock, sub, stripeVars, period, cases, order, anchor, counts>>

\* No slot to claim, or the row of each is locked by another gift's claim.
AwardGift(g) ==
    /\ gift[g] = "pending" /\ Awards(g) /\ order[g] = "delivered"
    /\ \A i \in Claimable(g) : \E h \in Gifts : claiming[h] = i
    /\ gift' = [gift EXCEPT ![g] = "awarded"]
    /\ UNCHANGED <<clock, sub, stripeVars, periodVars, order, anchor, bonus, claiming, late, counts>>

\* What the gift granted is taken back, once no entry holds any of it; units
\* spent open a case.
reverseRefundedGifts(g, spent) ==
    /\ gift[g] = "awarded" /\ order[g] = "undone" /\ claiming[g] = NoSlot
    /\ gift' = [gift EXCEPT ![g] = IF spent THEN "review" ELSE "reversed"]
    /\ cases' = IF spent THEN cases \cup {<<"refund_after_spend", g>>} ELSE cases
    /\ slot' = [i \in Invoices |-> IF i = bonus[g] /\ slot[i].gift = g /\ slot[i].status = "awarded"
                                   THEN [slot[i] EXCEPT !.status = "reversed"] ELSE slot[i]]
    /\ UNCHANGED <<clock, sub, stripeVars, period, order, anchor, bonus, claiming, late, counts>>

-----------------------------------------------------------------------------

StripeActs(s) ==
    \/ Pay(s) \/ PageExpires(s) \/ Renew(s) \/ RenewalFails(s) \/ PayLate(s) \/ End(s)
    \/ \E k \in CancelKeys : ForgetReply(s, k)

CustomerActs(s) ==
    \/ \E o \in Offered : StartSubscription(s, o)
    \/ OpenCheckout(s) \/ CheckoutFails(s) \/ Cancel(s) \/ Resume(s)

Hooks(s) ==
    \/ CompletedHook(s) \/ ExpiredHook(s)
    \/ \E h \in hooks : h[1] = "update" /\ h[2][1] = s /\ UpdateHook(s, h[2][2])

OfInvoice(i) ==
    \/ InvoiceHook(i)
    \/ \E as \in {"refunded", "disputed"} : Refund(i, as) \/ RefundHook(i, as)

OfGift(g) ==
    \/ PayGift(g) \/ DeliverGift(g) \/ UndoGift(g)
    \/ qualifyPaidGifts(g) \/ cancelUnfinishedGifts(g)
    \/ ReadSlot(g) \/ ClaimBonus(g) \/ AwardGift(g)
    \/ \E spent \in BOOLEAN : reverseRefundedGifts(g, spent)

Next ==
    \/ Tick
    \/ \E s \in Subs : StripeActs(s) \/ CustomerActs(s) \/ Hooks(s) \/ enforceRenewals(s)
                        \/ syncStripeMemberships(s)
    \/ SyncMembership
    \/ \E i \in Invoices : OfInvoice(i)
    \/ \E g \in Gifts : OfGift(g)

Spec == Init /\ [][Next]_vars

\* The job comes round every minute, and Stripe answers it within the days it
\* looks at a membership.  No webhook, customer, shop or Stripe's own step is
\* assumed to happen.
Job ==
    /\ \A s \in Subs : WF_vars(s \in StripeSubscriptionsToSync /\ SyncPaid(s)
                                /\ UNCHANGED <<clock, stripeVars, giftVars, counts>>)
    /\ \A g \in Gifts : WF_vars(ReadSlot(g)) /\ WF_vars(ClaimBonus(g))
FairSpec == Spec /\ Job

------------------------------ (* Properties *) -----------------------------

\* RecordPaidPeriod, claimBonus, SetPeriodPaymentStatus: two periods that
\* overlap, of one membership or of two, never both have a bonus that counts:
\* one to be unlocked in a paid period, or one given.  Two given ones do not
\* count.  That of a period whose payment came back, when a case puts it
\* before a person; and that of a slot in late, which a claim that had read
\* the period paid locked after the refund: nobody looks at it again, and a
\* join that overlaps its period brings the customer a second bonus.
Gives(i) == \/ slot[i].status = "unawarded" /\ period[i].status = "paid"
            \/ slot[i].status = "awarded" /\ <<"membership_dispute", i>> \notin cases /\ i \notin late
OneBonusPerMoment ==
    \A i, j \in Invoices : i # j /\ Gives(i) /\ Gives(j) => ~Overlap(period[i], period[j])

\* SetPeriodPaymentStatus: the bonus of a period whose payment came back was
\* taken back, never unlocked, or put before a person, unless a claim had
\* read the period before and locked its slot after.
RefundAnswered ==
    \A i \in Invoices : period[i].status \in {"refunded", "disputed"} /\ slot[i].status = "awarded"
                          => <<"membership_dispute", i>> \in cases \/ i \in late

\* claimBonus, reverseRefundedGifts: a gift and the slot it unlocked name each
\* other, whichever of two gifts came first, and are taken back together.
GiftsHaveTheirSlots ==
    /\ \A g \in Gifts : bonus[g] # NoSlot => slot[bonus[g]].gift = g
    /\ \A i \in Invoices, g \in Gifts :
          slot[i].gift = g => /\ bonus[g] = i
                              /\ slot[i].status = "awarded" <=> gift[g] = "awarded"

\* syncStripeMemberships: a membership that is paid for gets a paid period
\* though every webhook is lost, as long as it is live.
PaymentRecorded ==
    \A s \in Subs : IsLive(s) /\ stripe[s].paid # {}
                      ~> ~IsLive(s) \/ \E n \in 1..MaxInvoices : period[<<s, n>>] # NotRecorded

\* awardCompletedGifts, awardDeferredBonuses: a delivered gift unlocks the slot
\* of its period though the membership's payment is recorded later, unless
\* another gift does, or one of the two payments comes back.
Waits(g, i) == /\ gift[g] \in {"pending", "awarded"} /\ bonus[g] = NoSlot
               /\ order[g] = "delivered" /\ i \in Claimable(g)
BonusReachesGift == \A g \in Gifts, i \in Invoices : Waits(g, i) ~> ~Waits(g, i)
=============================================================================
