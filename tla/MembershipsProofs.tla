-------------------------- MODULE MembershipsProofs --------------------------
(***************************************************************************)
(* Theorems about the paid periods, their slots and the gifts that unlock  *)
(* them, and the types, for any joins, gifts, invoices and number of       *)
(* webhooks under way.                                                     *)
(*                                                                         *)
(* Inv is inductive.  A slot opened later can only overlap one whose       *)
(* payment came back, and RefundAnswered says what became of that one.     *)
(***************************************************************************)
EXTENDS Memberships, SumTheorems

StripeRow == [page : Pages, status : StripeStatuses, ending : BOOLEAN,
              from : Nat, issued : Nat, paid : SUBSET Nat]
StripeInv == clock \in Nat /\ stripe \in [Subs -> StripeRow]

BonusTypes ==
    /\ period \in [Invoices -> [status : {"none", "paid", "refunded", "disputed"}, start : Nat]]
    /\ slot \in [Invoices -> [status : {"none", "unawarded", "awarded", "reversed"},
                              gift : Gifts \cup {NoGift}]]
    /\ gift \in [Gifts -> {"none", "pending", "awarded", "reversed", "review", "cancelled"}]
    /\ bonus \in [Gifts -> Invoices \cup {NoSlot}]
    /\ claiming \in [Gifts -> Invoices \cup {NoSlot}]

\* Only a recorded period has a slot, and only an awarded one had a gift.
SlotsOpened ==
    \A i \in Invoices : /\ period[i].status = "none" => slot[i].status = "none"
                        /\ slot[i].status \in {"none", "unawarded"} => slot[i].gift = NoGift

\* A gift that is claiming a slot has none, nor has one not awarded yet.
ClaimsOpen ==
    \A g \in Gifts : /\ gift[g] \in {"none", "pending", "cancelled"} => bonus[g] = NoSlot
                     /\ claiming[g] # NoSlot => /\ gift[g] \in {"pending", "awarded"}
                                                /\ bonus[g] = NoSlot

BonusInv == /\ BonusTypes /\ SlotsOpened /\ ClaimsOpen
            /\ RefundAnswered /\ OneBonusPerMoment /\ GiftsHaveTheirSlots
Inv == StripeInv /\ BonusInv

bonusVars == <<period, slot, cases, gift, bonus, claiming, late>>

-----------------------------------------------------------------------------
(* Periods of one membership do not overlap.                               *)

LEMMA ProductInNat == ASSUME NEW n \in Nat, NEW L \in Nat PROVE n * L \in Nat
  OBVIOUS

LEMMA Distributes ==
    ASSUME NEW m \in Nat, NEW n \in Nat, NEW L \in Nat PROVE (m + n) * L = m * L + n * L
  BY SMT

LEMMA Later ==
    ASSUME NEW a \in Nat \ {0}, NEW b \in Nat \ {0}, a < b, NEW L \in Nat
    PROVE  /\ (a - 1) * L \in Nat /\ (b - 1) * L \in Nat
           /\ (a - 1) * L + L <= (b - 1) * L
  <1>1. a - 1 \in Nat /\ b - 1 \in Nat /\ b - a \in Nat /\ b - a - 1 \in Nat
    OBVIOUS
  <1>2. b - 1 = (a - 1) + (b - a) /\ b - a = (b - a - 1) + 1
    OBVIOUS
  <1>3. (b - 1) * L = (a - 1) * L + (b - a) * L
    BY <1>1, <1>2, Distributes
  <1>4. (b - a) * L = (b - a - 1) * L + 1 * L
    BY <1>1, <1>2, Distributes
  <1>5. (a - 1) * L \in Nat /\ (b - a - 1) * L \in Nat /\ (b - 1) * L \in Nat
    BY <1>1, ProductInNat
  <1> QED
    BY <1>3, <1>4, <1>5

LEMMA Apart ==
    ASSUME StripeInv, NEW i \in Invoices, NEW j \in Invoices, i[1] = j[1], i # j
    PROVE  ~Overlap(PaidFrom(i), PaidFrom(j))
  <1> DEFINE f == stripe[i[1]].from
  <1>1. /\ f \in Nat /\ Length \in Nat
        /\ i[2] \in Nat \ {0} /\ j[2] \in Nat \ {0} /\ i[2] # j[2]
    BY MembershipsAssumption DEF StripeInv, StripeRow, Invoices
  <1>2. CASE i[2] < j[2]
    <2>1. /\ (i[2] - 1) * Length \in Nat /\ (j[2] - 1) * Length \in Nat
          /\ (i[2] - 1) * Length + Length <= (j[2] - 1) * Length
      BY <1>1, <1>2, Later
    <2>2. f + (i[2] - 1) * Length + Length <= f + (j[2] - 1) * Length
      BY <1>1, <2>1
    <2> QED
      BY <1>1, <2>1, <2>2 DEF Overlap, PaidFrom, StartOf
  <1>3. CASE j[2] < i[2]
    <2>1. /\ (i[2] - 1) * Length \in Nat /\ (j[2] - 1) * Length \in Nat
          /\ (j[2] - 1) * Length + Length <= (i[2] - 1) * Length
      BY <1>1, <1>3, Later
    <2>2. f + (j[2] - 1) * Length + Length <= f + (i[2] - 1) * Length
      BY <1>1, <2>1
    <2> QED
      BY <1>1, <2>1, <2>2 DEF Overlap, PaidFrom, StartOf
  <1> QED
    BY <1>1, <1>2, <1>3

LEMMA StartsInNat == ASSUME StripeInv, NEW i \in Invoices PROVE PaidFrom(i).start \in Nat
  <1>1. stripe[i[1]].from \in Nat /\ Length \in Nat /\ i[2] - 1 \in Nat
    BY MembershipsAssumption DEF StripeInv, StripeRow, Invoices
  <1>2. (i[2] - 1) * Length \in Nat
    BY <1>1, ProductInNat
  <1> QED
    BY <1>1, <1>2 DEF PaidFrom, StartOf

-----------------------------------------------------------------------------
(* Stripe's side is well typed.                                            *)

LEMMA Row == ASSUME StripeInv, NEW s \in Subs
             PROVE  /\ stripe[s] \in StripeRow
                    /\ stripe[s].issued \in Nat /\ stripe[s].paid \in SUBSET Nat
  BY DEF StripeInv, StripeRow

LEMMA RowStep ==
    ASSUME StripeInv, NEW s \in Subs, NEW st \in StripeRow, stripe' = [stripe EXCEPT ![s] = st],
           clock' = clock
    PROVE  StripeInv'
  BY DEF StripeInv

LEMMA StripeStep == ASSUME StripeInv, [Next]_vars PROVE StripeInv'
  <1> USE DEF StripeInv, StripeRow, Pages, StripeStatuses
  <1>1. ASSUME stripe' = stripe, clock' = clock PROVE StripeInv'
    BY <1>1
  <1>2. CASE Tick
    BY <1>2, MembershipsAssumption DEF Tick, stripeVars
  <1>3. ASSUME NEW s \in Subs, StripeActs(s) PROVE StripeInv'
    <2>1. CASE Pay(s)
      BY <2>1 DEF Pay
    <2>2. CASE PageExpires(s)
      BY <2>2 DEF PageExpires
    <2>3. CASE Renew(s)
      <3>1. stripe[s].issued + 1 \in Nat /\ stripe[s].paid \cup {stripe[s].issued + 1} \in SUBSET Nat
        BY Row
      <3> DEFINE st == [stripe[s] EXCEPT !.issued = stripe[s].issued + 1,
                                          !.paid = stripe[s].paid \cup {stripe[s].issued + 1}]
      <3>2. stripe' = [stripe EXCEPT ![s] = st] /\ clock' = clock
        BY <2>3 DEF Renew
      <3>3. stripe[s] \in StripeRow
        BY Row
      <3>4. st \in StripeRow
        BY <3>1, <3>3
      <3> QED
        BY <3>2, <3>4, RowStep
    <2>4. CASE RenewalFails(s)
      <3>1. stripe[s].issued + 1 \in Nat
        BY Row
      <3> DEFINE st == [stripe[s] EXCEPT !.issued = stripe[s].issued + 1, !.status = "past_due"]
      <3>2. stripe' = [stripe EXCEPT ![s] = st] /\ clock' = clock
        BY <2>4 DEF RenewalFails
      <3>3. stripe[s] \in StripeRow
        BY Row
      <3>4. st \in StripeRow
        BY <3>1, <3>3
      <3> QED
        BY <3>2, <3>4, RowStep
    <2>5. CASE PayLate(s)
      BY <2>5 DEF PayLate
    <2>6. CASE End(s)
      BY <2>6 DEF End
    <2>7. CASE \E k \in CancelKeys : ForgetReply(s, k)
      BY <2>7, <1>1 DEF ForgetReply
    <2> QED
      BY <1>3, <2>1, <2>2, <2>3, <2>4, <2>5, <2>6, <2>7 DEF StripeActs
  <1>4. ASSUME NEW s \in Subs, NEW k, CancelAtPeriodEnd(s, k), clock' = clock PROVE StripeInv'
    <2>1. CASE UNCHANGED stripeVars
      BY <1>1, <1>4, <2>1 DEF stripeVars
    <2>2. CASE stripe' = [stripe EXCEPT ![s] = [stripe[s] EXCEPT !.ending = TRUE]]
      BY <1>4, <2>2
    <2> QED
      BY <1>4, <2>1, <2>2 DEF CancelAtPeriodEnd
  <1>5. ASSUME NEW s \in Subs, CustomerActs(s) PROVE StripeInv'
    <2>1. CASE OpenCheckout(s)
      BY <2>1 DEF OpenCheckout
    <2>2. CASE Cancel(s)
      BY <2>2, <1>1, <1>4 DEF Cancel, stripeVars
    <2>3. CASE Resume(s)
      BY <2>3 DEF Resume
    <2>4. CASE (\E o \in Offered : StartSubscription(s, o)) \/ CheckoutFails(s)
      BY <2>4, <1>1 DEF StartSubscription, CheckoutFails, stripeVars
    <2> QED
      BY <1>5, <2>1, <2>2, <2>3, <2>4 DEF CustomerActs
  <1>6. ASSUME NEW s \in Subs, Hooks(s) PROVE StripeInv'
    BY <1>1, <1>6 DEF Hooks, CompletedHook, ExpiredHook, UpdateHook
  <1>7. ASSUME NEW s \in Subs, enforceRenewals(s) PROVE StripeInv'
    BY <1>4, <1>7 DEF enforceRenewals
  <1>8. ASSUME NEW s \in Subs, syncStripeSubscription(s) PROVE StripeInv'
    BY <1>1, <1>8 DEF syncStripeSubscription, stripeVars
  <1>9. ASSUME NEW i \in Invoices, OfInvoice(i) PROVE StripeInv'
    BY <1>1, <1>9 DEF OfInvoice, InvoiceHook, Refund, RefundHook
  <1>10. ASSUME NEW g \in Gifts, OfGift(g) PROVE StripeInv'
    BY <1>1, <1>10 DEF OfGift, PayGift, DeliverGift, UndoGift, qualifyPaidGifts,
          cancelUnfinishedGifts, ReadSlot, ClaimBonus, AwardGift, reverseRefundedGifts, stripeVars
  <1>11. CASE UNCHANGED vars
    BY <1>1, <1>11 DEF vars, stripeVars
  <1> QED
    BY <1>2, <1>3, <1>5, <1>6, <1>7, <1>8, <1>9, <1>10, <1>11
       DEF Next, SyncMembership, syncStripeMemberships

-----------------------------------------------------------------------------
(* The steps of the paid periods and their slots.                          *)

LEMMA Quiet == ASSUME BonusInv, UNCHANGED bonusVars PROVE BonusInv'
  BY DEF bonusVars, BonusInv, BonusTypes, SlotsOpened, ClaimsOpen, RefundAnswered,
         OneBonusPerMoment, Gives, GiftsHaveTheirSlots, Overlap

LEMMA Disjoint ==
    ASSUME BonusInv, NEW i \in Invoices, NEW j \in Invoices, ~Overlapping(i), Gives(j)
    PROVE  ~Overlap(PaidFrom(i), period[j])
  <1>1. period[j].status \in {"none", "paid", "refunded", "disputed"}
    BY DEF BonusInv, BonusTypes
  <1>2. period[j].status = "paid"
    BY <1>1 DEF BonusInv, SlotsOpened, RefundAnswered, Gives
  <1> QED
    BY <1>2 DEF Overlapping, Overlap

\* Invoices of one membership become periods: none overlaps another, and one
\* with a slot overlaps no period that still gives a bonus.
LEMMA RecordKeeps ==
    ASSUME Inv, NEW s, NEW st, NEW invoices, \A i \in invoices : i[1] = s,
           RecordPaidPeriods(s, st, invoices), UNCHANGED <<gift, bonus, claiming, late>>
    PROVE  BonusInv'
  <1> DEFINE new == {i \in invoices : period[i] = NotRecorded}
             overlapping == {i \in new : Overlapping(i)}
             opened == CASE st.offer = "payment" -> "awarded"
                         [] st.offer = "first_gift" -> "unawarded"
                         [] OTHER -> "none"
  <1>1. /\ period' = [i \in Invoices |-> IF i \in new THEN PaidFrom(i) ELSE period[i]]
        /\ slot' = [i \in Invoices |-> IF i \in new \ overlapping
                                       THEN [slot[i] EXCEPT !.status = opened] ELSE slot[i]]
        /\ cases' = cases \cup {<<"reconciliation", i>> : i \in overlapping}
    BY DEF RecordPaidPeriods
  <1>2. opened \in {"none", "unawarded", "awarded"}
    OBVIOUS
  <1> HIDE DEF opened
  <1>3. \A i : <<"membership_dispute", i>> \in cases' <=> <<"membership_dispute", i>> \in cases
    BY <1>1
  <1>4. ASSUME NEW i \in Invoices
        PROVE  /\ period[i] \in [status : {"none", "paid", "refunded", "disputed"}, start : Nat]
               /\ slot[i] \in [status : {"none", "unawarded", "awarded", "reversed"},
                               gift : Gifts \cup {NoGift}]
    BY DEF Inv, BonusInv, BonusTypes
  <1>5. ASSUME NEW i \in Invoices, i \in new
        PROVE  /\ slot[i].status = "none" /\ slot[i].gift = NoGift
               /\ period'[i] = PaidFrom(i) /\ period'[i].status = "paid"
               /\ slot'[i].gift = NoGift
               /\ i \in overlapping => slot'[i].status = "none"
               /\ i \notin overlapping => slot'[i].status = opened
    <2>1. period[i].status = "none"
      BY <1>5 DEF NotRecorded
    <2>2. slot[i].status = "none" /\ slot[i].gift = NoGift
      BY <2>1 DEF Inv, BonusInv, SlotsOpened
    <2>3. period'[i] = PaidFrom(i) /\ period'[i].status = "paid"
      BY <1>1, <1>5 DEF PaidFrom
    <2> QED
      BY <1>1, <1>4, <1>5, <2>2, <2>3
  <1>6. ASSUME NEW i \in Invoices, i \notin new
        PROVE  period'[i] = period[i] /\ slot'[i] = slot[i]
    BY <1>1, <1>6
  <1>7. BonusTypes'
    <2>1. ASSUME NEW i \in Invoices
          PROVE  /\ period'[i] \in [status : {"none", "paid", "refunded", "disputed"}, start : Nat]
                 /\ slot'[i] \in [status : {"none", "unawarded", "awarded", "reversed"},
                                  gift : Gifts \cup {NoGift}]
      <3>1. CASE i \in new
        <4>1. PaidFrom(i) \in [status : {"none", "paid", "refunded", "disputed"}, start : Nat]
          BY StartsInNat DEF Inv, PaidFrom
        <4>2. [slot[i] EXCEPT !.status = opened]
                \in [status : {"none", "unawarded", "awarded", "reversed"},
                     gift : Gifts \cup {NoGift}]
          BY <1>2, <1>4
        <4> QED
          BY <1>1, <1>4, <3>1, <4>1, <4>2
      <3>2. CASE i \notin new
        BY <1>4, <1>6, <3>2
      <3> QED
        BY <3>1, <3>2
    <2> QED
      BY <1>1, <2>1 DEF Inv, BonusInv, BonusTypes
  <1>8. SlotsOpened'
    <2>1. ASSUME NEW i \in Invoices
          PROVE  /\ period'[i].status = "none" => slot'[i].status = "none"
                 /\ slot'[i].status \in {"none", "unawarded"} => slot'[i].gift = NoGift
      BY <1>5, <1>6 DEF Inv, BonusInv, SlotsOpened
    <2> QED
      BY <2>1 DEF SlotsOpened
  <1>9. ClaimsOpen'
    BY DEF Inv, BonusInv, ClaimsOpen
  <1>10. RefundAnswered'
    <2>1. ASSUME NEW i \in Invoices, period'[i].status \in {"refunded", "disputed"},
                 slot'[i].status = "awarded"
          PROVE  <<"membership_dispute", i>> \in cases' \/ i \in late'
      <3>1. i \notin new
        BY <1>5, <2>1
      <3>2. period[i].status \in {"refunded", "disputed"} /\ slot[i].status = "awarded"
        BY <1>6, <2>1, <3>1
      <3> QED
        BY <1>3, <3>2 DEF Inv, BonusInv, RefundAnswered
    <2> QED
      BY <2>1 DEF RefundAnswered
  <1>11. OneBonusPerMoment'
    <2> SUFFICES ASSUME NEW i \in Invoices, NEW j \in Invoices, i # j, Gives(i)', Gives(j)'
                 PROVE  ~Overlap(period'[i], period'[j])
      BY DEF OneBonusPerMoment, Overlap
    <2>1. ASSUME NEW k \in Invoices, k \in new, Gives(k)' PROVE ~Overlapping(k)
      BY <1>5, <2>1 DEF Gives
    <2>2. ASSUME NEW k \in Invoices, k \notin new, Gives(k)' PROVE Gives(k)
      BY <1>3, <1>6, <2>2 DEF Gives
    <2>3. CASE i \in new /\ j \in new
      BY <1>5, <2>3, Apart DEF Inv
    <2>4. CASE i \in new /\ j \notin new
      BY <1>5, <1>6, <2>1, <2>2, <2>4, Disjoint DEF Inv
    <2>5. CASE i \notin new /\ j \in new
      <3>1. ~Overlap(period'[j], period'[i])
        BY <1>5, <1>6, <2>1, <2>2, <2>5, Disjoint DEF Inv
      <3> QED
        BY <3>1 DEF Overlap
    <2>6. CASE i \notin new /\ j \notin new
      BY <1>6, <2>2, <2>6 DEF Inv, BonusInv, OneBonusPerMoment
    <2> QED
      BY <2>3, <2>4, <2>5, <2>6
  <1>12. GiftsHaveTheirSlots'
    <2>1. \A i \in Invoices : slot'[i].gift = slot[i].gift
      BY <1>5, <1>6
    <2>2. ASSUME NEW g \in Gifts, bonus'[g] # NoSlot PROVE slot'[bonus'[g]].gift = g
      <3>1. bonus[g] \in Invoices
        BY <2>2 DEF Inv, BonusInv, BonusTypes
      <3> QED
        BY <2>1, <2>2, <3>1 DEF Inv, BonusInv, GiftsHaveTheirSlots
    <2>3. ASSUME NEW i \in Invoices, NEW g \in Gifts, slot'[i].gift = g
          PROVE  bonus'[g] = i /\ (slot'[i].status = "awarded" <=> gift'[g] = "awarded")
      <3>1. i \notin new
        BY <1>5, <2>3, MembershipsAssumption
      <3> QED
        BY <1>6, <2>3, <3>1 DEF Inv, BonusInv, GiftsHaveTheirSlots
    <2> QED
      BY <2>2, <2>3 DEF GiftsHaveTheirSlots
  <1> QED
    BY <1>7, <1>8, <1>9, <1>10, <1>11, <1>12 DEF BonusInv

LEMMA Fewer ==
    ASSUME BonusInv, \A i \in Invoices : period'[i].start = period[i].start,
           \A i \in Invoices : Gives(i)' => Gives(i)
    PROVE  OneBonusPerMoment'
  <1> SUFFICES ASSUME NEW i \in Invoices, NEW j \in Invoices, i # j, Gives(i)', Gives(j)'
               PROVE  ~Overlap(period'[i], period'[j])
    BY DEF OneBonusPerMoment, Overlap
  <1>1. ~Overlap(period[i], period[j])
    BY DEF BonusInv, OneBonusPerMoment
  <1> QED
    BY <1>1 DEF Overlap

LEMMA RefundKeeps ==
    ASSUME BonusInv, NEW i \in Invoices, NEW as \in {"refunded", "disputed"}, RefundHook(i, as)
    PROVE  BonusInv'
  <1>1. PICK spent \in BOOLEAN : SetPeriodPaymentStatus(i, as, spent)
    BY DEF RefundHook
  <1>2. UNCHANGED <<gift, bonus, claiming, late>>
    BY DEF RefundHook, giftVars
  <1>3. CASE period[i].status \in {"none", as}
    BY <1>1, <1>2, <1>3, Quiet DEF SetPeriodPaymentStatus, bonusVars
  <1>4. CASE period[i].status \notin {"none", as}
    <2> DEFINE took == slot[i].status = "awarded" /\ slot[i].gift = NoGift
               asked == slot[i].status = "awarded" /\ (slot[i].gift # NoGift \/ spent)
    <2>1. /\ period' = [period EXCEPT ![i].status = as]
          /\ slot' = IF took THEN [slot EXCEPT ![i].status = "reversed"] ELSE slot
          /\ cases' = IF asked THEN cases \cup {<<"membership_dispute", i>>} ELSE cases
      BY <1>1, <1>4 DEF SetPeriodPaymentStatus
    <2>2. /\ period \in [Invoices -> [status : {"none", "paid", "refunded", "disputed"}, start : Nat]]
          /\ slot \in [Invoices -> [status : {"none", "unawarded", "awarded", "reversed"},
                                    gift : Gifts \cup {NoGift}]]
      BY DEF BonusInv, BonusTypes
    <2>3. /\ period'[i].status = as /\ period'[i].start = period[i].start
          /\ slot'[i].gift = slot[i].gift
          /\ slot'[i].status = IF took THEN "reversed" ELSE slot[i].status
          /\ \A j \in Invoices \ {i} : period'[j] = period[j] /\ slot'[j] = slot[j]
      BY <2>1, <2>2
    <2>4. BonusTypes'
      <3>1. period' \in [Invoices -> [status : {"none", "paid", "refunded", "disputed"}, start : Nat]]
        BY <2>1, <2>2
      <3>2. slot' \in [Invoices -> [status : {"none", "unawarded", "awarded", "reversed"},
                                    gift : Gifts \cup {NoGift}]]
        BY <2>1, <2>2
      <3> QED
        BY <1>2, <3>1, <3>2 DEF BonusInv, BonusTypes
    <2>5. SlotsOpened'
      <3>1. ASSUME NEW j \in Invoices
            PROVE  /\ period'[j].status = "none" => slot'[j].status = "none"
                   /\ slot'[j].status \in {"none", "unawarded"} => slot'[j].gift = NoGift
        BY <2>3 DEF BonusInv, SlotsOpened
      <3> QED
        BY <3>1 DEF SlotsOpened
    <2>6. ClaimsOpen'
      BY <1>2 DEF BonusInv, ClaimsOpen
    <2>7. RefundAnswered'
      <3>1. ASSUME NEW j \in Invoices, period'[j].status \in {"refunded", "disputed"},
                   slot'[j].status = "awarded"
            PROVE  <<"membership_dispute", j>> \in cases' \/ j \in late'
        <4>1. CASE j = i
          BY <2>1, <2>3, <3>1, <4>1
        <4>2. CASE j # i
          BY <1>2, <2>1, <2>3, <3>1, <4>2 DEF BonusInv, RefundAnswered
        <4> QED
          BY <4>1, <4>2
      <3> QED
        BY <3>1 DEF RefundAnswered
    <2>8. OneBonusPerMoment'
      <3>1. ASSUME NEW j \in Invoices, Gives(j)' PROVE Gives(j)
        BY <1>2, <2>1, <2>3, <3>1 DEF Gives
      <3>2. \A j \in Invoices : period'[j].start = period[j].start
        BY <2>3
      <3> QED
        BY <3>1, <3>2, Fewer
    <2>9. GiftsHaveTheirSlots'
      <3>1. ASSUME NEW g \in Gifts, bonus'[g] # NoSlot PROVE slot'[bonus'[g]].gift = g
        <4>1. bonus[g] \in Invoices
          BY <1>2, <3>1 DEF BonusInv, BonusTypes
        <4> QED
          BY <1>2, <2>3, <3>1, <4>1 DEF BonusInv, GiftsHaveTheirSlots
      <3>2. ASSUME NEW j \in Invoices, NEW g \in Gifts, slot'[j].gift = g
            PROVE  bonus'[g] = j /\ (slot'[j].status = "awarded" <=> gift'[g] = "awarded")
        <4>1. slot'[j] = slot[j]
          BY <2>1, <2>2, <2>3, <3>2, MembershipsAssumption
        <4> QED
          BY <1>2, <3>2, <4>1 DEF BonusInv, GiftsHaveTheirSlots
      <3> QED
        BY <3>1, <3>2 DEF GiftsHaveTheirSlots
    <2> QED
      BY <2>4, <2>5, <2>6, <2>7, <2>8, <2>9 DEF BonusInv
  <1> QED
    BY <1>3, <1>4

-----------------------------------------------------------------------------
(* The steps of the gifts.                                                 *)

\* A gift without a slot that is earning, dropped or awarded.
LEMMA StatusKeeps ==
    ASSUME BonusInv, NEW g \in Gifts, bonus[g] = NoSlot, claiming[g] = NoSlot,
           NEW st \in {"pending", "cancelled", "awarded"}, gift' = [gift EXCEPT ![g] = st],
           UNCHANGED <<period, slot, cases, bonus, claiming, late>>
    PROVE  BonusInv'
  <1>1. BonusTypes'
    BY DEF BonusInv, BonusTypes
  <1>2. \A h \in Gifts : gift'[h] = IF h = g THEN st ELSE gift[h]
    BY DEF BonusInv, BonusTypes
  <1>3. ClaimsOpen'
    BY <1>2 DEF BonusInv, ClaimsOpen
  <1>4. GiftsHaveTheirSlots'
    <2>1. \A i \in Invoices : slot[i].gift # g
      BY MembershipsAssumption DEF BonusInv, GiftsHaveTheirSlots
    <2> QED
      BY <1>2, <2>1 DEF BonusInv, GiftsHaveTheirSlots
  <1> QED
    BY <1>1, <1>3, <1>4 DEF BonusInv, SlotsOpened, RefundAnswered, OneBonusPerMoment, Gives, Overlap

LEMMA ReadKeeps == ASSUME BonusInv, NEW g \in Gifts, ReadSlot(g) PROVE BonusInv'
  <1>1. /\ gift[g] = "pending" \/ (gift[g] = "awarded" /\ bonus[g] = NoSlot)
        /\ UNCHANGED <<period, slot, cases, gift, bonus, late>>
    BY DEF ReadSlot, Awards, periodVars
  <1>2. PICK i \in Invoices : claiming' = [claiming EXCEPT ![g] = i]
    BY DEF ReadSlot, Claimable
  <1>3. BonusTypes'
    BY <1>1, <1>2 DEF BonusInv, BonusTypes
  <1>4. \A h \in Gifts : claiming'[h] = IF h = g THEN i ELSE claiming[h]
    BY <1>2 DEF BonusInv, BonusTypes
  <1>5. ClaimsOpen'
    BY <1>1, <1>4 DEF BonusInv, ClaimsOpen
  <1> QED
    BY <1>1, <1>3, <1>5 DEF BonusInv, SlotsOpened, RefundAnswered, OneBonusPerMoment, Gives,
                            Overlap, GiftsHaveTheirSlots

LEMMA ClaimKeeps == ASSUME BonusInv, NEW g \in Gifts, ClaimBonus(g) PROVE BonusInv'
  <1> DEFINE i == claiming[g]
  <1>1. /\ i \in Invoices /\ gift[g] \in {"pending", "awarded"} /\ bonus[g] = NoSlot
        /\ gift' = [gift EXCEPT ![g] = "awarded"]
        /\ claiming' = [claiming EXCEPT ![g] = NoSlot]
        /\ UNCHANGED <<period, cases>>
    BY DEF BonusInv, BonusTypes, ClaimsOpen, ClaimBonus
  <1> HIDE DEF i
  <1>2. /\ \A h \in Gifts : gift'[h] = IF h = g THEN "awarded" ELSE gift[h]
        /\ \A h \in Gifts : claiming'[h] = IF h = g THEN NoSlot ELSE claiming[h]
    BY <1>1 DEF BonusInv, BonusTypes
  <1>3. \A j \in Invoices : slot[j].gift # g
    BY <1>1, MembershipsAssumption DEF BonusInv, GiftsHaveTheirSlots
  <1>4. CASE slot[i].status = "unawarded"
    <2>1. /\ slot' = [slot EXCEPT ![i] = [status |-> "awarded", gift |-> g]]
          /\ bonus' = [bonus EXCEPT ![g] = i]
          /\ late' = IF period[i].status = "paid" THEN late ELSE late \cup {i}
      BY <1>4 DEF ClaimBonus, i
    <2>2. /\ slot'[i].status = "awarded" /\ slot'[i].gift = g
          /\ \A j \in Invoices \ {i} : slot'[j] = slot[j]
          /\ \A h \in Gifts : bonus'[h] = IF h = g THEN i ELSE bonus[h]
          /\ \A j \in Invoices \ {i} : j \in late' <=> j \in late
      BY <1>1, <2>1 DEF BonusInv, BonusTypes
    <2>3. period[i].status \in {"paid", "refunded", "disputed"} /\ slot[i].gift = NoGift
      <3>1. period[i].status \in {"none", "paid", "refunded", "disputed"}
        BY <1>1 DEF BonusInv, BonusTypes
      <3> QED
        BY <1>1, <1>4, <3>1 DEF BonusInv, SlotsOpened
    <2>4. BonusTypes'
      <3>1. slot' \in [Invoices -> [status : {"none", "unawarded", "awarded", "reversed"},
                                    gift : Gifts \cup {NoGift}]]
        BY <2>1 DEF BonusInv, BonusTypes
      <3>2. bonus' \in [Gifts -> Invoices \cup {NoSlot}] /\ claiming' \in [Gifts -> Invoices \cup {NoSlot}]
        BY <1>1, <2>1 DEF BonusInv, BonusTypes
      <3>3. gift' \in [Gifts -> {"none", "pending", "awarded", "reversed", "review", "cancelled"}]
        BY <1>1 DEF BonusInv, BonusTypes
      <3> QED
        BY <1>1, <3>1, <3>2, <3>3 DEF BonusInv, BonusTypes
    <2>5. SlotsOpened'
      <3>1. ASSUME NEW j \in Invoices
            PROVE  /\ period'[j].status = "none" => slot'[j].status = "none"
                   /\ slot'[j].status \in {"none", "unawarded"} => slot'[j].gift = NoGift
        BY <1>1, <2>2, <2>3 DEF BonusInv, SlotsOpened
      <3> QED
        BY <3>1 DEF SlotsOpened
    <2>6. ClaimsOpen'
      BY <1>2, <2>2 DEF BonusInv, ClaimsOpen
    <2>7. RefundAnswered'
      <3>1. ASSUME NEW j \in Invoices, period'[j].status \in {"refunded", "disputed"},
                   slot'[j].status = "awarded"
            PROVE  <<"membership_dispute", j>> \in cases' \/ j \in late'
        BY <1>1, <2>1, <2>2, <3>1 DEF BonusInv, RefundAnswered
      <3> QED
        BY <3>1 DEF RefundAnswered
    <2>8. OneBonusPerMoment'
      <3>1. ASSUME NEW j \in Invoices, Gives(j)' PROVE Gives(j)
        BY <1>1, <1>4, <2>1, <2>2, <2>3, <3>1 DEF Gives
      <3> QED
        BY <1>1, <3>1, Fewer
    <2>9. GiftsHaveTheirSlots'
      <3>1. ASSUME NEW h \in Gifts, bonus'[h] # NoSlot PROVE slot'[bonus'[h]].gift = h
        <4>1. CASE h = g
          BY <2>2, <4>1
        <4>2. CASE h # g
          <5>1. bonus'[h] = bonus[h] /\ bonus[h] \in Invoices /\ slot[bonus[h]].gift = h
            BY <2>2, <3>1, <4>2 DEF BonusInv, BonusTypes, GiftsHaveTheirSlots
          <5>2. bonus[h] # i
            BY <2>3, <5>1, MembershipsAssumption
          <5> QED
            BY <2>2, <5>1, <5>2
        <4> QED
          BY <4>1, <4>2
      <3>2. ASSUME NEW j \in Invoices, NEW h \in Gifts, slot'[j].gift = h
            PROVE  bonus'[h] = j /\ (slot'[j].status = "awarded" <=> gift'[h] = "awarded")
        <4>1. CASE j = i
          BY <1>2, <2>2, <3>2, <4>1
        <4>2. CASE j # i
          BY <1>2, <1>3, <2>2, <3>2, <4>2 DEF BonusInv, GiftsHaveTheirSlots
        <4> QED
          BY <4>1, <4>2
      <3> QED
        BY <3>1, <3>2 DEF GiftsHaveTheirSlots
    <2> QED
      BY <2>4, <2>5, <2>6, <2>7, <2>8, <2>9 DEF BonusInv
  <1>5. CASE slot[i].status # "unawarded"
    <2>1. UNCHANGED <<slot, bonus, late>>
      BY <1>5 DEF ClaimBonus, i
    <2>2. BonusTypes'
      BY <1>1, <2>1 DEF BonusInv, BonusTypes
    <2>3. ClaimsOpen'
      BY <1>2, <2>1 DEF BonusInv, ClaimsOpen
    <2>4. GiftsHaveTheirSlots'
      BY <1>2, <1>3, <2>1 DEF BonusInv, GiftsHaveTheirSlots
    <2> QED
      BY <1>1, <2>1, <2>2, <2>3, <2>4
         DEF BonusInv, SlotsOpened, RefundAnswered, OneBonusPerMoment, Gives, Overlap
  <1> QED
    BY <1>4, <1>5

LEMMA ReverseKeeps ==
    ASSUME BonusInv, NEW g \in Gifts, NEW spent \in BOOLEAN, reverseRefundedGifts(g, spent)
    PROVE  BonusInv'
  <1>1. /\ gift[g] = "awarded" /\ claiming[g] = NoSlot
        /\ gift' = [gift EXCEPT ![g] = IF spent THEN "review" ELSE "reversed"]
        /\ cases' = IF spent THEN cases \cup {<<"refund_after_spend", g>>} ELSE cases
        /\ slot' = [i \in Invoices |->
                      IF i = bonus[g] /\ slot[i].gift = g /\ slot[i].status = "awarded"
                      THEN [slot[i] EXCEPT !.status = "reversed"] ELSE slot[i]]
        /\ UNCHANGED <<period, bonus, claiming, late>>
    BY DEF reverseRefundedGifts
  <1>2. ASSUME NEW i \in Invoices
        PROVE  /\ slot[i] \in [status : {"none", "unawarded", "awarded", "reversed"},
                               gift : Gifts \cup {NoGift}]
               /\ slot'[i] \in [status : {"none", "unawarded", "awarded", "reversed"},
                                gift : Gifts \cup {NoGift}]
               /\ slot'[i].gift = slot[i].gift
               /\ slot'[i].status = IF slot[i].gift = g /\ slot[i].status = "awarded"
                                    THEN "reversed" ELSE slot[i].status
    <2>1. /\ slot[i] \in [status : {"none", "unawarded", "awarded", "reversed"},
                          gift : Gifts \cup {NoGift}]
          /\ slot[i].gift = g => bonus[g] = i
      BY DEF BonusInv, BonusTypes, GiftsHaveTheirSlots
    <2> QED
      BY <1>1, <2>1
  <1>3. \A h \in Gifts : gift'[h] = IF h = g THEN IF spent THEN "review" ELSE "reversed" ELSE gift[h]
    BY <1>1 DEF BonusInv, BonusTypes
  <1>4. BonusTypes'
    <2>1. gift' \in [Gifts -> {"none", "pending", "awarded", "reversed", "review", "cancelled"}]
      BY <1>1 DEF BonusInv, BonusTypes
    <2> QED
      BY <1>1, <1>2, <2>1 DEF BonusInv, BonusTypes
  <1>5. SlotsOpened'
    <2>1. ASSUME NEW i \in Invoices
          PROVE  /\ period'[i].status = "none" => slot'[i].status = "none"
                 /\ slot'[i].status \in {"none", "unawarded"} => slot'[i].gift = NoGift
      BY <1>1, <1>2 DEF BonusInv, SlotsOpened
    <2> QED
      BY <2>1 DEF SlotsOpened
  <1>6. ClaimsOpen'
    BY <1>1, <1>3 DEF BonusInv, ClaimsOpen
  <1>7. \A i : <<"membership_dispute", i>> \in cases' <=> <<"membership_dispute", i>> \in cases
    BY <1>1
  <1>8. RefundAnswered'
    <2>1. ASSUME NEW i \in Invoices, period'[i].status \in {"refunded", "disputed"},
                 slot'[i].status = "awarded"
          PROVE  <<"membership_dispute", i>> \in cases' \/ i \in late'
      BY <1>1, <1>2, <1>7, <2>1 DEF BonusInv, RefundAnswered
    <2> QED
      BY <2>1 DEF RefundAnswered
  <1>9. OneBonusPerMoment'
    <2>1. ASSUME NEW i \in Invoices, Gives(i)' PROVE Gives(i)
      BY <1>1, <1>2, <1>7, <2>1 DEF Gives
    <2> QED
      BY <1>1, <2>1, Fewer
  <1>10. GiftsHaveTheirSlots'
    <2>1. ASSUME NEW h \in Gifts, bonus'[h] # NoSlot PROVE slot'[bonus'[h]].gift = h
      <3>1. bonus'[h] = bonus[h] /\ bonus[h] \in Invoices
        BY <1>1, <2>1 DEF BonusInv, BonusTypes
      <3> QED
        BY <1>2, <2>1, <3>1 DEF BonusInv, GiftsHaveTheirSlots
    <2>2. ASSUME NEW i \in Invoices, NEW h \in Gifts, slot'[i].gift = h
          PROVE  bonus'[h] = i /\ (slot'[i].status = "awarded" <=> gift'[h] = "awarded")
      BY <1>1, <1>2, <1>3, <2>2 DEF BonusInv, GiftsHaveTheirSlots
    <2> QED
      BY <2>1, <2>2 DEF GiftsHaveTheirSlots
  <1> QED
    BY <1>4, <1>5, <1>6, <1>8, <1>9, <1>10 DEF BonusInv

-----------------------------------------------------------------------------
(* The invariant and what follows from it.                                 *)

LEMMA InitInv == Init => Inv
  <1> SUFFICES ASSUME Init PROVE Inv
    OBVIOUS
  <1>1. StripeInv
    BY DEF Init, StripeInv, StripeRow, Pages, StripeStatuses
  <1>2. BonusTypes
    BY DEF Init, BonusTypes, NotRecorded, NotOpened
  <1>3. \A i \in Invoices : period[i].status = "none" /\ slot[i].status = "none" /\ slot[i].gift = NoGift
    BY DEF Init, NotRecorded, NotOpened
  <1>4. \A g \in Gifts : bonus[g] = NoSlot /\ claiming[g] = NoSlot
    BY DEF Init
  <1> QED
    BY <1>1, <1>2, <1>3, <1>4, MembershipsAssumption
       DEF Inv, BonusInv, SlotsOpened, ClaimsOpen, RefundAnswered, OneBonusPerMoment, Gives,
           GiftsHaveTheirSlots

LEMMA NextInv == Inv /\ [Next]_vars => Inv'
  <1> SUFFICES ASSUME Inv, [Next]_vars PROVE Inv'
    OBVIOUS
  <1>1. StripeInv'
    BY StripeStep DEF Inv
  <1>2. ASSUME UNCHANGED bonusVars PROVE BonusInv'
    BY <1>2, Quiet DEF Inv
  <1>3. ASSUME Tick PROVE BonusInv'
    BY <1>2, <1>3 DEF Tick, bonusVars, periodVars, giftVars
  <1>4. ASSUME NEW s \in Subs, StripeActs(s) PROVE BonusInv'
    BY <1>2, <1>4 DEF StripeActs, Pay, PageExpires, Renew, RenewalFails, PayLate, End, ForgetReply,
                      bonusVars, periodVars, giftVars
  <1>5. ASSUME NEW s \in Subs, CustomerActs(s) PROVE BonusInv'
    BY <1>2, <1>5 DEF CustomerActs, StartSubscription, OpenCheckout, CheckoutFails, Cancel, Resume,
                      bonusVars, periodVars, giftVars
  <1>6. ASSUME NEW s \in Subs, Hooks(s) PROVE BonusInv'
    BY <1>2, <1>6 DEF Hooks, CompletedHook, ExpiredHook, UpdateHook, bonusVars, periodVars, giftVars
  <1>7. ASSUME NEW s \in Subs, enforceRenewals(s) PROVE BonusInv'
    BY <1>2, <1>7 DEF enforceRenewals, bonusVars, periodVars, giftVars
  <1>8. ASSUME NEW s \in Subs, syncStripeSubscription(s) PROVE BonusInv'
    <2>1. CASE SyncUnpaid(s) \/ SyncCut(s)
      BY <1>2, <1>8, <2>1 DEF syncStripeSubscription, SyncUnpaid, SyncCut, bonusVars, periodVars, giftVars
    <2>2. CASE SyncPaid(s)
      <3>1. \A i \in {<<s, n>> : n \in stripe[s].paid} : i[1] = s
        OBVIOUS
      <3> QED
        BY <1>8, <2>2, <3>1, RecordKeeps DEF syncStripeSubscription, SyncPaid, giftVars
    <2> QED
      BY <1>8, <2>1, <2>2 DEF syncStripeSubscription
  <1>9. ASSUME NEW i \in Invoices, OfInvoice(i) PROVE BonusInv'
    <2>1. CASE InvoiceHook(i)
      BY <2>1, RecordKeeps DEF InvoiceHook, giftVars
    <2>2. ASSUME NEW as \in {"refunded", "disputed"}, Refund(i, as) PROVE BonusInv'
      BY <1>2, <2>2 DEF Refund, bonusVars, periodVars, giftVars
    <2>3. ASSUME NEW as \in {"refunded", "disputed"}, RefundHook(i, as) PROVE BonusInv'
      BY <2>3, RefundKeeps DEF Inv
    <2> QED
      BY <1>9, <2>1, <2>2, <2>3 DEF OfInvoice
  <1>10. ASSUME NEW g \in Gifts, OfGift(g) PROVE BonusInv'
    <2>1. CASE PayGift(g) \/ DeliverGift(g) \/ UndoGift(g)
      BY <1>2, <2>1 DEF PayGift, DeliverGift, UndoGift, bonusVars, periodVars
    <2>2. CASE qualifyPaidGifts(g)
      <3>1. bonus[g] = NoSlot /\ claiming[g] = NoSlot
        BY <2>2 DEF qualifyPaidGifts, Inv, BonusInv, ClaimsOpen
      <3> QED
        BY <2>2, <3>1, StatusKeeps DEF qualifyPaidGifts, Inv, periodVars
    <2>3. CASE cancelUnfinishedGifts(g)
      <3>1. bonus[g] = NoSlot
        BY <2>3 DEF cancelUnfinishedGifts, Inv, BonusInv, ClaimsOpen
      <3> QED
        BY <2>3, <3>1, StatusKeeps DEF cancelUnfinishedGifts, Inv, periodVars
    <2>4. CASE ReadSlot(g)
      BY <2>4, ReadKeeps DEF Inv
    <2>5. CASE ClaimBonus(g)
      BY <2>5, ClaimKeeps DEF Inv
    <2>6. CASE AwardGift(g)
      <3>1. bonus[g] = NoSlot
        BY <2>6 DEF AwardGift, Inv, BonusInv, ClaimsOpen
      <3> QED
        BY <2>6, <3>1, StatusKeeps DEF AwardGift, Awards, Inv, periodVars
    <2>7. ASSUME NEW spent \in BOOLEAN, reverseRefundedGifts(g, spent) PROVE BonusInv'
      BY <2>7, ReverseKeeps DEF Inv
    <2> QED
      BY <1>10, <2>1, <2>2, <2>3, <2>4, <2>5, <2>6, <2>7 DEF OfGift
  <1>11. ASSUME UNCHANGED vars PROVE BonusInv'
    BY <1>2, <1>11 DEF vars, bonusVars, periodVars, giftVars
  <1>12. BonusInv'
    BY <1>3, <1>4, <1>5, <1>6, <1>7, <1>8, <1>9, <1>10, <1>11
       DEF Next, SyncMembership, syncStripeMemberships
  <1> QED
    BY <1>1, <1>12 DEF Inv

LEMMA Invariant == Spec => []Inv
  BY InitInv, NextInv, PTL DEF Spec

\* Of two periods that overlap one at most has a bonus to be unlocked or given,
\* whatever order the webhooks, the minute job, the claims of the gifts and the
\* refunds come in, but for a bonus with an open case and one claimed across
\* the refund of its period (RecordPaidPeriod, SetPeriodPaymentStatus,
\* claimBonus).
THEOREM NoMomentHasTwoBonuses == Spec => []OneBonusPerMoment
  <1>1. Inv => OneBonusPerMoment
    BY DEF Inv, BonusInv
  <1> QED
    BY <1>1, Invariant, PTL

\* A bonus whose payment came back is taken back, never given or put before a
\* person, except by a claim that read its period first (SetPeriodPaymentStatus).
THEOREM RefundsAreAnswered == Spec => []RefundAnswered
  <1>1. Inv => RefundAnswered
    BY DEF Inv, BonusInv
  <1> QED
    BY <1>1, Invariant, PTL

\* A gift and the slot it unlocked name each other and are taken back together
\* (claimBonus, reverseRefundedGifts).
THEOREM SlotsAndGiftsAgree == Spec => []GiftsHaveTheirSlots
  <1>1. Inv => GiftsHaveTheirSlots
    BY DEF Inv, BonusInv
  <1> QED
    BY <1>1, Invariant, PTL

-----------------------------------------------------------------------------
(* Types.                                                                  *)

\* A finite set of numbers has a largest, and Max finds it.
LEMMA MaxIn == ASSUME NEW S \in SUBSET Nat, IsFiniteSet(S), S # {} PROVE Max(S) \in S
  <1> DEFINE Q == {T \in SUBSET S : T = {} \/ \E x \in T : \A y \in T : x >= y}
  <1>1. {} \in Q
    OBVIOUS
  <1>2. ASSUME NEW T \in Q, NEW x \in S \ T PROVE T \cup {x} \in Q
    <2>1. CASE T = {}
      BY <2>1
    <2>2. CASE T # {}
      <3>1. PICK m \in T : \A y \in T : m >= y
        BY <2>2
      <3>2. m \in Nat /\ x \in Nat /\ T \subseteq Nat
        OBVIOUS
      <3>3. CASE m >= x
        BY <3>1, <3>3
      <3>4. CASE ~(m >= x)
        <4>1. \A y \in T \cup {x} : x >= y
          BY <3>1, <3>2, <3>4
        <4> QED
          BY <4>1
      <3> QED
        BY <3>3, <3>4
    <2> QED
      BY <2>1, <2>2
  <1>3. S \in Q
    <2> HIDE DEF Q
    <2>1. Q \in SUBSET SUBSET S
      BY DEF Q
    <2> QED
      BY <1>1, <1>2, <2>1, SetInduction
  <1> QED
    BY <1>3 DEF Max

SubRow == [status : SubStatuses, offer : Triggers, page : BOOLEAN,
           ref : BOOLEAN, ending : BOOLEAN, end : Nat]
Page == [page : Pages, status : StripeStatuses, ending : BOOLEAN,
         from : Nat, issued : Nat, paid : SUBSET (1..MaxInvoices)]

\* Stripe never issued more invoices than the bound, and has issued one to
\* every subscription that was paid for.
Issued(st) == /\ st.issued <= MaxInvoices
              /\ st.status \in {"active", "past_due"} => st.issued >= 1

\* The types of each part, and that.
Typed ==
    /\ clock \in Nat
    /\ sub \in [Subs -> SubRow]
    /\ stripe \in [Subs -> Page]
    /\ \A s \in Subs : Issued(stripe[s])
    /\ hooks \in SUBSET Webhooks
    /\ replies \in [Subs -> [CancelKeys -> Snapshots]]
    /\ cases \in SUBSET (({"reconciliation", "membership_dispute"} \X Invoices)
                         \cup ({"refund_after_spend"} \X Gifts))
    /\ order \in [Gifts -> {"none", "paid", "delivered", "undone"}]
    /\ anchor \in [Gifts -> Nat]
    /\ late \in SUBSET Invoices
    /\ changes \in Nat /\ refunds \in Nat

LEMMA TypedIsTypeOK == Typed /\ BonusInv => TypeOK
  BY DEF Typed, BonusInv, BonusTypes, TypeOK, SubRow, Page

\* What Stripe answers.
LEMMA SnapshotTypes ==
    ASSUME NEW st, st.status \in StripeStatuses, st.ending \in BOOLEAN,
           st.from \in Nat, st.issued \in Nat
    PROVE  Snapshot(st) \in Snapshots
  <1>1. st.issued * Length \in Nat
    BY MembershipsAssumption, ProductInNat
  <1>2. EndOf(st) \in Nat
    BY <1>1 DEF EndOf
  <1> QED
    BY <1>2 DEF Snapshot, Snapshots

LEMMA ReportedType ==
    ASSUME NEW s \in Subs, sub[s] \in SubRow, NEW st \in Snapshots
    PROVE  Reported(s, st) \in SubRow
  <1>1. mapProviderStatus(st) \in SubStatuses
    BY DEF mapProviderStatus, SubStatuses, Live
  <1>2. st.ending \in BOOLEAN /\ st.end \in Nat
    BY DEF Snapshots
  <1> DEFINE status == IF sub[s].status = "cancelled" THEN sub[s].status ELSE mapProviderStatus(st)
             end == IF st.end = NoEnd THEN sub[s].end ELSE st.end
  <1>3. status \in SubStatuses /\ end \in Nat
    BY <1>1, <1>2 DEF SubRow
  <1>4. Reported(s, st) = [sub[s] EXCEPT !.ref = TRUE, !.status = status, !.ending = st.ending, !.end = end]
    BY DEF Reported, SubRow
  <1> HIDE DEF status, end
  <1> QED
    BY <1>2, <1>3, <1>4 DEF SubRow

LEMMA UnreadType == Unread \in Snapshots /\ NoReply \in Snapshots
  BY DEF Unread, NoReply, Snapshots, StripeStatuses, NoEnd

LEMMA ApplyTypes ==
    ASSUME sub \in [Subs -> SubRow], NEW s \in Subs, NEW st \in Snapshots,
           ApplyProviderSubscription(s, st)
    PROVE  sub' \in [Subs -> SubRow]
  <1>1. Reported(s, st) \in SubRow
    BY ReportedType
  <1> QED
    BY <1>1 DEF ApplyProviderSubscription

LEMMA AbandonedType ==
    ASSUME sub \in [Subs -> SubRow], NEW S PROVE Abandoned(S) \in [Subs -> SubRow]
  <1>1. \A t \in Subs : [sub[t] EXCEPT !.status = "abandoned"] \in SubRow
    BY DEF SubRow, SubStatuses
  <1> QED
    BY <1>1 DEF Abandoned

LEMMA SendsType ==
    ASSUME hooks \in SUBSET Webhooks, NEW new \in SUBSET Webhooks, Sends(new)
    PROVE  hooks' \in SUBSET Webhooks
  BY DEF Sends

\* Recording invoices: the end of the membership is the largest of finitely
\* many numbers.
LEMMA RecordTypes ==
    ASSUME Inv, Typed, NEW s \in Subs, NEW st \in SubRow, NEW invoices \in SUBSET Invoices,
           IsFiniteSet(invoices), RecordPaidPeriods(s, st, invoices)
    PROVE  /\ sub' \in [Subs -> SubRow]
           /\ cases' \in SUBSET (({"reconciliation", "membership_dispute"} \X Invoices)
                                 \cup ({"refund_after_spend"} \X Gifts))
  <1>n. PICK new : new = {i \in invoices : period[i] = NotRecorded}
    OBVIOUS
  <1>1. Recorded(st, new) \in SubRow
    <2>1. CASE new = {}
      BY <2>1 DEF Recorded
    <2>2. CASE new # {}
      <3>e. PICK E : E = {StartOf(i) + Length : i \in new}
        OBVIOUS
      <3>1. IsFiniteSet(E) /\ E \in SUBSET Nat
        <4>1. IsFiniteSet(new) /\ new \in SUBSET Invoices
          BY <1>n, FS_Subset
        <4>2. E \in SUBSET Nat
          <5> SUFFICES ASSUME NEW i \in new PROVE StartOf(i) + Length \in Nat
            BY <3>e
          <5>1. StartOf(i) \in Nat
            BY <4>1, StartsInNat DEF Inv, PaidFrom
          <5> QED
            BY <5>1, MembershipsAssumption
        <4>3. PICK h : h = [i \in new |-> StartOf(i) + Length]
          OBVIOUS
        <4>4. E = {h[i] : i \in new}
          BY <3>e, <4>3
        <4>5. IsFiniteSet({h[i] : i \in new})
          BY <4>1, ImageFinite
        <4> QED
          BY <4>2, <4>4, <4>5, Zenon
      <3>2. PICK F : F = {st.end} \cup E
        OBVIOUS
      <3>3. F \in SUBSET Nat /\ IsFiniteSet(F) /\ F # {}
        <4>1. PICK n \in Nat : n = st.end
          BY DEF SubRow
        <4>2. IsFiniteSet(E \cup {n})
          BY <3>1, FS_AddElement
        <4>3. F = E \cup {n}
          BY <3>2, <4>1
        <4> QED
          BY <3>1, <4>2, <4>3
      <3>4. Max(F) \in Nat
        BY <3>3, MaxIn
      <3> DEFINE status == IF st.status = "cancelled" THEN "cancelled"
                           ELSE IF st.ending THEN "cancelling" ELSE "active"
      <3>5. status \in SubStatuses
        BY DEF SubStatuses, Live
      <3>6. Recorded(st, new) = [st EXCEPT !.status = status, !.end = Max(F)]
        BY <2>2, <3>e, <3>2 DEF Recorded, SubRow
      <3> HIDE DEF status
      <3> QED
        BY <3>4, <3>5, <3>6 DEF SubRow
    <2> QED
      BY <2>1, <2>2
  <1>2. sub' = [sub EXCEPT ![s] = Recorded(st, new)]
    BY <1>n DEF RecordPaidPeriods
  <1>3. sub' \in [Subs -> SubRow]
    BY <1>1, <1>2 DEF Typed
  <1>4. PICK O \in SUBSET Invoices : cases' = cases \cup {<<"reconciliation", i>> : i \in O}
    <2>1. {i \in new : Overlapping(i)} \in SUBSET Invoices
      BY <1>n
    <2> QED
      BY <1>n, <2>1 DEF RecordPaidPeriods
  <1>5. cases' \in SUBSET (({"reconciliation", "membership_dispute"} \X Invoices)
                           \cup ({"refund_after_spend"} \X Gifts))
    BY <1>4 DEF Typed
  <1> QED
    BY <1>3, <1>5

\* A step of one subscription at Stripe, and what it sends.
LEMMA StripeTypes ==
    ASSUME Typed, NEW s \in Subs, NEW st \in Page, Issued(st),
           stripe' = [stripe EXCEPT ![s] = st]
    PROVE  /\ stripe' \in [Subs -> Page] /\ \A t \in Subs : Issued(stripe'[t])
           /\ {Update(s, st)} \in SUBSET Webhooks
  <1>1. stripe' \in [Subs -> Page] /\ \A t \in Subs : stripe'[t] = IF t = s THEN st ELSE stripe[t]
    BY DEF Typed
  <1>2. Snapshot(st) \in Snapshots
    BY SnapshotTypes DEF Page
  <1>3. {Update(s, st)} \in SUBSET Webhooks
    BY <1>2 DEF Update, Webhooks
  <1> QED
    BY <1>1, <1>3 DEF Typed

\* What Stripe keeps of a subscription, whatever an invoice is a member of,
\* after one more invoice: paid, or refused.
PageOver(T) == [page : Pages, status : StripeStatuses, ending : BOOLEAN,
                from : Nat, issued : Nat, paid : T]
Invoiced(st, row, n, q) == \/ st = [row EXCEPT !.issued = n, !.paid = q]
                           \/ st = [row EXCEPT !.issued = n, !.status = "past_due"]
LEMMA PageInvoiced ==
    ASSUME NEW T, NEW row \in PageOver(T), NEW n \in Nat, NEW q \in T, NEW st,
           Invoiced(st, row, n, q)
    PROVE  st \in PageOver(T) /\ st.issued = n
  <1>1. PICK Q : Q = StripeStatuses
    OBVIOUS
  <1>2. PICK P : P = Pages
    OBVIOUS
  <1>3. "past_due" \in Q
    BY <1>1 DEF StripeStatuses
  <1>4. PageOver(T) = [page : P, status : Q, ending : BOOLEAN, from : Nat, issued : Nat, paid : T]
    BY <1>1, <1>2, Zenon DEF PageOver
  <1>5. PICK R : R = [page : P, status : Q, ending : BOOLEAN, from : Nat, issued : Nat, paid : T]
    OBVIOUS
  <1>6. row \in [page : P, status : Q, ending : BOOLEAN, from : Nat, issued : Nat, paid : T]
    BY <1>4
  <1>7. st \in R /\ st.issued = n
    BY <1>3, <1>5, <1>6 DEF Invoiced
  <1> QED
    BY <1>4, <1>5, <1>7, Zenon

LEMMA PageIsOver == Page = PageOver(SUBSET (1..MaxInvoices))
  BY Zenon DEF Page, PageOver

LEMMA StripeActsTyped ==
    ASSUME Typed, NEW s \in Subs, StripeActs(s)
    PROVE  Typed'
  <1>1. /\ stripe[s] \in Page /\ Issued(stripe[s]) /\ clock \in Nat
        /\ hooks \in SUBSET Webhooks /\ MaxInvoices \in Nat /\ changes \in Nat
    BY MembershipsAssumption DEF Typed
  <1>2. ASSUME stripe' \in [Subs -> Page], \A t \in Subs : Issued(stripe'[t]),
               hooks' \in SUBSET Webhooks, changes' \in Nat,
               UNCHANGED <<clock, sub, replies, periodVars, giftVars, refunds>>
        PROVE  Typed'
    BY <1>2 DEF Typed, periodVars, giftVars
  <1>3. CASE Pay(s)
    <2>1. PICK st : /\ st = [page |-> "complete", status |-> "active", ending |-> FALSE,
                             from |-> clock, issued |-> 1, paid |-> {1}]
                    /\ stripe' = [stripe EXCEPT ![s] = st]
                    /\ Sends({<<"completed", s>>, <<"invoice", <<s, 1>>>>, Update(s, st)})
      BY <1>3 DEF Pay
    <2>2. 1 \in 1..MaxInvoices
      BY <1>1, <1>3 DEF Pay
    <2>3. st \in Page /\ Issued(st)
      BY <1>1, <2>1, <2>2 DEF Page, Pages, StripeStatuses, Issued
    <2>4. {<<"completed", s>>, <<"invoice", <<s, 1>>>>, Update(s, st)} \in SUBSET Webhooks
      <3>1. <<"completed", s>> \in Webhooks /\ <<"invoice", <<s, 1>>>> \in Webhooks
        BY <2>2 DEF Webhooks, Invoices
      <3>2. Update(s, st) \in Webhooks
        BY <2>1, <2>3, StripeTypes
      <3> QED
        BY <3>1, <3>2
    <2>5. hooks' \in SUBSET Webhooks
      BY <1>1, <2>1, <2>4, SendsType
    <2> QED
      BY <1>1, <1>2, <1>3, <2>1, <2>3, <2>5, StripeTypes DEF Pay, counts
  <1>4. CASE PageExpires(s)
    <2>1. PICK st : st = [stripe[s] EXCEPT !.page = "expired"] /\ stripe' = [stripe EXCEPT ![s] = st]
      BY <1>4 DEF PageExpires, Typed
    <2>2. st \in Page /\ Issued(st)
      BY <1>1, <2>1 DEF Page, Pages, Issued
    <2>3. hooks' \in SUBSET Webhooks
      <3>1. {<<"expired", s>>} \in SUBSET Webhooks
        BY DEF Webhooks
      <3> QED
        BY <1>1, <1>4, <3>1, SendsType DEF PageExpires
    <2> QED
      BY <1>1, <1>2, <1>4, <2>1, <2>2, <2>3, StripeTypes DEF PageExpires, counts
  <1>5. CASE Renew(s)
    <2>1. PICK n : n = stripe[s].issued + 1
      OBVIOUS
    <2>2. PICK st : /\ st = [stripe[s] EXCEPT !.issued = n, !.paid = @ \cup {n}]
                    /\ stripe' = [stripe EXCEPT ![s] = st]
                    /\ Sends({<<"invoice", <<s, n>>>>, Update(s, st)})
      BY <1>5, <2>1 DEF Renew
    <2>3. n \in 1..MaxInvoices
      BY <1>1, <1>5, <2>1 DEF Renew, Page
    <2>4. st \in Page /\ Issued(st)
      <3>1. PICK paid \in SUBSET (1..MaxInvoices) : paid = stripe[s].paid \cup {n}
        BY <1>1, <2>3 DEF Page
      <3>2. st = [stripe[s] EXCEPT !.issued = n, !.paid = paid]
        BY <2>2, <3>1
      <3>3. n \in Nat /\ n <= MaxInvoices /\ n >= 1
        BY <2>3
      <3>4. stripe[s] \in PageOver(SUBSET (1..MaxInvoices))
        BY <1>1, PageIsOver, Zenon
      <3>5. PICK T, r : T = SUBSET (1..MaxInvoices) /\ r = stripe[s]
        OBVIOUS
      <3>6. r \in PageOver(T) /\ n \in Nat /\ paid \in T
        BY <3>1, <3>3, <3>4, <3>5
      <3>7. st \in PageOver(T) /\ st.issued = n
        <4>1. Invoiced(st, r, n, paid)
          BY <3>2, <3>5 DEF Invoiced
        <4> QED
          BY ONLY <3>6, <4>1, PageInvoiced
      <3>8. st \in PageOver(SUBSET (1..MaxInvoices)) /\ st.issued = n
        BY <3>5, <3>7, Zenon
      <3> QED
        BY <3>3, <3>8, PageIsOver DEF Issued
    <2>5. {<<"invoice", <<s, n>>>>, Update(s, st)} \in SUBSET Webhooks
      <3>1. <<"invoice", <<s, n>>>> \in Webhooks
        BY <2>3 DEF Webhooks, Invoices
      <3>2. Update(s, st) \in Webhooks
        BY <2>2, <2>4, StripeTypes
      <3> QED
        BY <3>1, <3>2
    <2>6. hooks' \in SUBSET Webhooks
      BY <1>1, <2>2, <2>5, SendsType
    <2> QED
      BY <1>1, <1>2, <1>5, <2>2, <2>4, <2>6, StripeTypes DEF Renew, counts
  <1>6. CASE RenewalFails(s)
    <2>1. PICK n : n = stripe[s].issued + 1
      OBVIOUS
    <2>2. PICK st : /\ st = [stripe[s] EXCEPT !.issued = n, !.status = "past_due"]
                    /\ stripe' = [stripe EXCEPT ![s] = st]
                    /\ Sends({Update(s, st)})
      BY <1>6, <2>1 DEF RenewalFails
    <2>3. n \in 1..MaxInvoices
      BY <1>1, <1>6, <2>1 DEF RenewalFails, Page
    <2>4. st \in Page /\ Issued(st)
      <3>1. n \in Nat /\ n <= MaxInvoices /\ n >= 1
        BY <2>3
      <3>2. PICK paid \in SUBSET (1..MaxInvoices) : paid = stripe[s].paid
        BY <1>1 DEF Page
      <3>3. stripe[s] \in PageOver(SUBSET (1..MaxInvoices))
        BY <1>1, PageIsOver, Zenon
      <3>4. PICK T, r : T = SUBSET (1..MaxInvoices) /\ r = stripe[s]
        OBVIOUS
      <3>5. r \in PageOver(T) /\ n \in Nat /\ paid \in T
        BY <3>1, <3>2, <3>3, <3>4
      <3>6. st \in PageOver(T) /\ st.issued = n
        <4>1. Invoiced(st, r, n, paid)
          BY <2>2, <3>4 DEF Invoiced
        <4> QED
          BY ONLY <3>5, <4>1, PageInvoiced
      <3>7. st \in PageOver(SUBSET (1..MaxInvoices)) /\ st.issued = n
        BY <3>4, <3>6, Zenon
      <3> QED
        BY <3>1, <3>7, PageIsOver DEF Issued
    <2>5. hooks' \in SUBSET Webhooks
      BY <1>1, <2>2, <2>4, StripeTypes, SendsType
    <2>6. changes' \in Nat
      BY <1>1, <1>6 DEF RenewalFails
    <2> QED
      BY <1>2, <1>6, <2>2, <2>4, <2>5, <2>6, StripeTypes DEF RenewalFails
  <1>7. CASE PayLate(s)
    <2>1. PICK n : n = stripe[s].issued
      OBVIOUS
    <2>2. PICK st : /\ st = [stripe[s] EXCEPT !.status = "active", !.paid = @ \cup {n}]
                    /\ stripe' = [stripe EXCEPT ![s] = st]
                    /\ Sends({<<"invoice", <<s, st.issued>>>>, Update(s, st)})
      BY <1>7, <2>1 DEF PayLate
    <2>3. n \in 1..MaxInvoices
      BY <1>1, <1>7, <2>1 DEF PayLate, Page, Issued
    <2>4. st \in Page /\ Issued(st) /\ st.issued = n
      BY <1>1, <1>7, <2>1, <2>2, <2>3 DEF Page, StripeStatuses, Issued, PayLate
    <2>5. {<<"invoice", <<s, st.issued>>>>, Update(s, st)} \in SUBSET Webhooks
      <3>1. <<"invoice", <<s, n>>>> \in Webhooks
        BY <2>3 DEF Webhooks, Invoices
      <3>2. Update(s, st) \in Webhooks
        BY <2>2, <2>4, StripeTypes
      <3> QED
        BY <2>4, <3>1, <3>2
    <2>6. hooks' \in SUBSET Webhooks
      BY <1>1, <2>2, <2>5, SendsType
    <2> QED
      BY <1>1, <1>2, <1>7, <2>2, <2>4, <2>6, StripeTypes DEF PayLate, counts
  <1>8. CASE End(s)
    <2>1. PICK st : /\ st = [stripe[s] EXCEPT !.status = "canceled"]
                    /\ stripe' = [stripe EXCEPT ![s] = st]
                    /\ Sends({Update(s, st)})
      BY <1>8 DEF End
    <2>2. st \in Page /\ Issued(st)
      BY <1>1, <2>1 DEF Page, StripeStatuses, Issued
    <2>3. hooks' \in SUBSET Webhooks
      BY <1>1, <2>1, <2>2, StripeTypes, SendsType
    <2>4. changes' \in Nat
      BY <1>1, <1>8 DEF End
    <2> QED
      BY <1>2, <1>8, <2>1, <2>2, <2>3, <2>4, StripeTypes DEF End
  <1>9. ASSUME NEW k \in CancelKeys, ForgetReply(s, k) PROVE Typed'
    <2>1. replies' \in [Subs -> [CancelKeys -> Snapshots]]
      BY <1>9, UnreadType DEF ForgetReply, Typed
    <2> QED
      BY <1>9, <2>1 DEF ForgetReply, Typed, periodVars, giftVars, counts
  <1> QED
    BY <1>3, <1>4, <1>5, <1>6, <1>7, <1>8, <1>9 DEF StripeActs

\* Cancelling and resuming.
LEMMA CancelTyped ==
    ASSUME Typed, NEW s \in Subs, NEW k \in CancelKeys, CancelAtPeriodEnd(s, k),
           changes' \in Nat, UNCHANGED <<clock, periodVars, giftVars, refunds>>
    PROVE  Typed'
  <1>1. /\ stripe[s] \in Page /\ Issued(stripe[s]) /\ replies[s][k] \in Snapshots
        /\ hooks \in SUBSET Webhooks /\ sub \in [Subs -> SubRow]
    BY DEF Typed
  <1>2. CASE replies[s][k] # NoReply
    <2>1. sub' \in [Subs -> SubRow] /\ UNCHANGED stripeVars
      BY <1>1, <1>2, ApplyTypes DEF CancelAtPeriodEnd
    <2> QED
      BY <2>1 DEF Typed, stripeVars, periodVars, giftVars
  <1>3. CASE replies[s][k] = NoReply
    <2>1. PICK st : /\ st = [stripe[s] EXCEPT !.ending = TRUE]
                    /\ ApplyProviderSubscription(s, Snapshot(st))
                    /\ stripe' = [stripe EXCEPT ![s] = st]
                    /\ replies' = [replies EXCEPT ![s][k] = Snapshot(st)]
                    /\ Sends({Update(s, st)})
      BY <1>3 DEF CancelAtPeriodEnd
    <2>2. st \in Page /\ Issued(st)
      BY <1>1, <2>1 DEF Page, Issued
    <2>3. Snapshot(st) \in Snapshots
      BY <2>2, SnapshotTypes DEF Page
    <2>4. sub' \in [Subs -> SubRow]
      BY <1>1, <2>1, <2>3, ApplyTypes
    <2>5. replies' \in [Subs -> [CancelKeys -> Snapshots]]
      BY <2>1, <2>3 DEF Typed
    <2>6. hooks' \in SUBSET Webhooks
      BY <1>1, <2>1, <2>2, StripeTypes, SendsType
    <2>7. stripe' \in [Subs -> Page] /\ \A t \in Subs : Issued(stripe'[t])
      BY <2>1, <2>2, StripeTypes
    <2> QED
      BY <2>4, <2>5, <2>6, <2>7 DEF Typed, periodVars, giftVars
  <1> QED
    BY <1>2, <1>3

LEMMA CustomerTyped ==
    ASSUME Typed, NEW s \in Subs, CustomerActs(s) \/ enforceRenewals(s)
    PROVE  Typed'
  <1>1. /\ stripe[s] \in Page /\ Issued(stripe[s]) /\ sub \in [Subs -> SubRow]
        /\ hooks \in SUBSET Webhooks /\ changes \in Nat
    BY DEF Typed
  <1>2. ASSUME sub' \in [Subs -> SubRow], changes' \in Nat,
               UNCHANGED <<clock, stripeVars, periodVars, giftVars, refunds>>
        PROVE  Typed'
    BY <1>2 DEF Typed, stripeVars, periodVars, giftVars
  <1>3. ASSUME NEW o \in Offered, StartSubscription(s, o) PROVE Typed'
    <2>1. o \in Triggers
      BY MembershipsAssumption
    <2>2. PICK f \in [Subs -> SubRow] : f = Abandoned(Subs)
      BY <1>1, AbandonedType
    <2>3. sub' = [f EXCEPT ![s].status = "incomplete", ![s].offer = o]
      BY <1>3, <2>2 DEF StartSubscription
    <2>4. sub' \in [Subs -> SubRow]
      BY <2>1, <2>3 DEF SubRow, SubStatuses, Live
    <2> QED
      BY <1>1, <1>2, <1>3, <2>4 DEF StartSubscription, counts
  <1>4. CASE OpenCheckout(s)
    <2>1. PICK st : st = [stripe[s] EXCEPT !.page = "open"] /\ stripe' = [stripe EXCEPT ![s] = st]
      BY <1>4 DEF OpenCheckout, Typed
    <2>2. st \in Page /\ Issued(st)
      BY <1>1, <2>1 DEF Page, Pages, Issued
    <2>3. sub' \in [Subs -> SubRow]
      BY <1>1, <1>4 DEF OpenCheckout, SubRow
    <2>4. stripe' \in [Subs -> Page] /\ \A t \in Subs : Issued(stripe'[t])
      BY <2>1, <2>2, StripeTypes
    <2> QED
      BY <1>4, <2>3, <2>4 DEF OpenCheckout, Typed, periodVars, giftVars, counts
  <1>5. CASE CheckoutFails(s)
    BY <1>1, <1>2, <1>5, AbandonedType DEF CheckoutFails, counts
  <1>6. CASE Cancel(s)
    <2>1. changes' \in Nat /\ UNCHANGED <<clock, periodVars, giftVars, refunds>>
      BY <1>1, <1>6 DEF Cancel
    <2>2. CASE ~sub[s].ref /\ sub' = Abandoned({s}) /\ UNCHANGED stripeVars
      BY <1>1, <1>2, <2>1, <2>2, AbandonedType
    <2>3. CASE CancelAtPeriodEnd(s, "membership-cancel")
      BY <2>1, <2>3, CancelTyped DEF CancelKeys
    <2> QED
      BY <1>6, <2>2, <2>3 DEF Cancel
  <1>7. CASE Resume(s)
    <2>1. PICK st : /\ st = [stripe[s] EXCEPT !.ending = FALSE]
                    /\ ApplyProviderSubscription(s, Snapshot(st))
                    /\ stripe' = [stripe EXCEPT ![s] = st]
                    /\ Sends({Update(s, st)})
      BY <1>7 DEF Resume
    <2>2. st \in Page /\ Issued(st)
      BY <1>1, <2>1 DEF Page, Issued
    <2>3. Snapshot(st) \in Snapshots
      BY <2>2, SnapshotTypes DEF Page
    <2>4. sub' \in [Subs -> SubRow]
      BY <1>1, <2>1, <2>3, ApplyTypes
    <2>5. hooks' \in SUBSET Webhooks
      BY <1>1, <2>1, <2>2, StripeTypes, SendsType
    <2>6. stripe' \in [Subs -> Page] /\ \A t \in Subs : Issued(stripe'[t])
      BY <2>1, <2>2, StripeTypes
    <2> QED
      BY <1>7, <2>4, <2>5, <2>6 DEF Resume, Typed, periodVars, giftVars, counts
  <1>8. CASE enforceRenewals(s)
    <2>1. changes' \in Nat
      BY <1>1, <1>8 DEF enforceRenewals
    <2> QED
      BY <1>8, <2>1, CancelTyped DEF enforceRenewals, CancelKeys
  <1> QED
    BY <1>3, <1>4, <1>5, <1>6, <1>7, <1>8 DEF CustomerActs

\* What webhooks and the job report and record.
LEMMA ReportTyped ==
    ASSUME Inv, Typed, NEW s \in Subs, Hooks(s) \/ syncStripeSubscription(s)
    PROVE  Typed'
  <1>1. /\ stripe[s] \in Page /\ sub \in [Subs -> SubRow] /\ hooks \in SUBSET Webhooks
    BY DEF Typed
  <1>2. Snapshot(stripe[s]) \in Snapshots
    BY <1>1, SnapshotTypes DEF Page
  <1>3. ASSUME sub' \in [Subs -> SubRow], hooks' \in SUBSET Webhooks,
               UNCHANGED <<clock, stripe, replies, periodVars, giftVars, counts>>
        PROVE  Typed'
    BY <1>3 DEF Typed, periodVars, giftVars, counts
  <1>4. CASE CompletedHook(s)
    <2>1. PICK st \in {Snapshot(stripe[s]), Unread} : ApplyProviderSubscription(s, st)
      BY <1>4 DEF CompletedHook
    <2>2. sub' \in [Subs -> SubRow]
      BY <1>1, <1>2, <2>1, UnreadType, ApplyTypes
    <2> QED
      BY <1>1, <1>3, <1>4, <2>2 DEF CompletedHook, Takes
  <1>5. CASE ExpiredHook(s)
    BY <1>1, <1>3, <1>5, AbandonedType DEF ExpiredHook, Takes
  <1>6. ASSUME NEW st, UpdateHook(s, st) PROVE Typed'
    <2>1. <<"update", <<s, st>>>> \in Webhooks
      BY <1>1, <1>6 DEF UpdateHook, Takes
    <2>2. st \in Snapshots
      BY <2>1 DEF Webhooks
    <2>3. sub' \in [Subs -> SubRow]
      BY <1>1, <1>6, <2>2, ApplyTypes DEF UpdateHook
    <2> QED
      BY <1>1, <1>3, <1>6, <2>3 DEF UpdateHook, Takes
  <1>7. CASE Hooks(s)
    BY <1>4, <1>5, <1>6, <1>7 DEF Hooks
  <1>8. ASSUME syncStripeSubscription(s) PROVE Typed'
    <2>1. hooks' \in SUBSET Webhooks /\ UNCHANGED <<clock, stripe, replies, giftVars, counts>>
      BY <1>1, <1>8 DEF syncStripeSubscription, stripeVars
    <2>2. CASE SyncUnpaid(s)
      BY <1>1, <1>3, <2>1, <2>2, AbandonedType DEF SyncUnpaid
    <2>3. CASE SyncCut(s)
      <3>1. PICK st \in Snapshots : ApplyProviderSubscription(s, st)
        BY <1>2, <2>3, UnreadType DEF SyncCut
      <3> QED
        BY <1>1, <1>3, <2>1, <2>3, <3>1, ApplyTypes DEF SyncCut
    <2>4. CASE SyncPaid(s)
      <3>1. PICK st \in SubRow : st = Reported(s, Snapshot(stripe[s]))
        BY <1>1, <1>2, ReportedType
      <3>2. PICK invoices : invoices = {<<s, n>> : n \in stripe[s].paid}
        OBVIOUS
      <3>3. invoices \in SUBSET Invoices /\ IsFiniteSet(invoices)
        <4>1. PICK P \in SUBSET (1..MaxInvoices) : P = stripe[s].paid
          BY <1>1 DEF Page
        <4>2. IsFiniteSet(P)
          <5>1. 1 \in Int /\ MaxInvoices \in Int
            BY MembershipsAssumption
          <5> QED
            BY <5>1, FS_Interval, FS_Subset
        <4>3. PICK h : h = [n \in P |-> <<s, n>>]
          OBVIOUS
        <4>4. IsFiniteSet({h[n] : n \in P})
          BY <4>2, ImageFinite
        <4>5. invoices = {h[n] : n \in P}
          BY <3>2, <4>1, <4>3
        <4>6. invoices \in SUBSET Invoices
          BY <3>2, <4>1 DEF Invoices
        <4> QED
          BY <4>4, <4>5, <4>6, Zenon
      <3>4. RecordPaidPeriods(s, st, invoices)
        BY <2>4, <3>1, <3>2 DEF SyncPaid
      <3> QED
        BY <2>1, <3>3, <3>4, RecordTypes DEF Typed, giftVars, counts
    <2> QED
      BY <1>8, <2>2, <2>3, <2>4 DEF syncStripeSubscription
  <1> QED
    BY <1>7, <1>8

LEMMA InvoiceTyped ==
    ASSUME Inv, Typed, NEW i \in Invoices, OfInvoice(i)
    PROVE  Typed'
  <1>1. /\ i[1] \in Subs /\ sub[i[1]] \in SubRow /\ hooks \in SUBSET Webhooks /\ refunds \in Nat
    BY DEF Typed, Invoices
  <1>2. CASE InvoiceHook(i)
    <2>1. IsFiniteSet({i}) /\ {i} \in SUBSET Invoices
      BY FS_Singleton
    <2>2. PICK S \in SUBSET Invoices : S = {i} /\ IsFiniteSet(S)
      BY <2>1
    <2>3. PICK st \in SubRow : st = sub[i[1]]
      BY <1>1
    <2>4. RecordPaidPeriods(i[1], st, S) /\ hooks' \in SUBSET Webhooks
      BY <1>1, <1>2, <2>2, <2>3 DEF InvoiceHook, Takes
    <2> QED
      BY <1>1, <1>2, <2>2, <2>4, RecordTypes DEF InvoiceHook, Typed, giftVars, counts
  <1>3. ASSUME NEW as \in {"refunded", "disputed"}, Refund(i, as) PROVE Typed'
    <2>1. {<<as, i>>} \in SUBSET Webhooks
      <3>1. <<as, i>> \in {"invoice", "refunded", "disputed"} \X Invoices
        OBVIOUS
      <3>2. <<as, i>> \in Webhooks
        BY <3>1, Zenon DEF Webhooks
      <3> QED
        BY <3>2
    <2>2. hooks' \in SUBSET Webhooks
      BY <1>1, <1>3, <2>1, SendsType DEF Refund
    <2> QED
      BY <1>1, <1>3, <2>2 DEF Refund, Typed, periodVars, giftVars
  <1>4. ASSUME NEW as \in {"refunded", "disputed"}, RefundHook(i, as) PROVE Typed'
    <2>1. PICK spent \in BOOLEAN : SetPeriodPaymentStatus(i, as, spent)
      BY <1>4 DEF RefundHook
    <2>2. cases' = cases \/ cases' = cases \cup {<<"membership_dispute", i>>}
      BY <2>1 DEF SetPeriodPaymentStatus
    <2>3. hooks' \in SUBSET Webhooks
      BY <1>1, <1>4 DEF RefundHook, Takes
    <2> QED
      BY <1>4, <2>2, <2>3 DEF RefundHook, Typed, giftVars, counts
  <1> QED
    BY <1>2, <1>3, <1>4 DEF OfInvoice

LEMMA GiftTyped ==
    ASSUME Inv, Typed, NEW g \in Gifts, OfGift(g)
    PROVE  Typed'
  <1>1. CASE PayGift(g)
    BY <1>1 DEF PayGift, Typed, stripeVars, periodVars, counts
  <1>2. CASE DeliverGift(g) \/ UndoGift(g)
    BY <1>2 DEF DeliverGift, UndoGift, Typed, stripeVars, periodVars, counts
  <1>3. CASE qualifyPaidGifts(g) \/ cancelUnfinishedGifts(g) \/ ReadSlot(g) \/ AwardGift(g)
    BY <1>3 DEF qualifyPaidGifts, cancelUnfinishedGifts, ReadSlot, AwardGift, Typed, stripeVars,
                periodVars, counts
  <1>4. CASE ClaimBonus(g)
    <2>1. claiming[g] \in Invoices
      BY <1>4 DEF ClaimBonus, Inv, BonusInv, BonusTypes
    <2>2. late' \in SUBSET Invoices
      BY <1>4, <2>1 DEF ClaimBonus, Typed
    <2> QED
      BY <1>4, <2>2 DEF ClaimBonus, Typed, stripeVars, counts
  <1>5. ASSUME NEW spent \in BOOLEAN, reverseRefundedGifts(g, spent) PROVE Typed'
    <2>1. cases' = cases \/ cases' = cases \cup {<<"refund_after_spend", g>>}
      BY <1>5 DEF reverseRefundedGifts
    <2> QED
      BY <1>5, <2>1 DEF reverseRefundedGifts, Typed, stripeVars, counts
  <1> QED
    BY <1>1, <1>2, <1>3, <1>4, <1>5 DEF OfGift

LEMMA TypedInit == Init => Typed
  <1> SUFFICES ASSUME Init PROVE Typed
    OBVIOUS
  <1>1. \A s \in Subs : Issued(stripe[s])
    BY MembershipsAssumption DEF Init, Issued
  <1>2. replies \in [Subs -> [CancelKeys -> Snapshots]]
    BY UnreadType DEF Init
  <1>3. sub \in [Subs -> SubRow]
    BY DEF Init, SubRow, SubStatuses, Triggers, NoEnd
  <1>4. stripe \in [Subs -> Page]
    BY DEF Init, Page, Pages, StripeStatuses
  <1> QED
    BY <1>1, <1>2, <1>3, <1>4 DEF Init, Typed

LEMMA TypedStep == Inv /\ Typed /\ [Next]_vars => Typed'
  <1> SUFFICES ASSUME Inv, Typed, [Next]_vars PROVE Typed'
    OBVIOUS
  <1>1. CASE Tick
    BY <1>1 DEF Tick, Typed, stripeVars, periodVars, giftVars, counts
  <1>2. CASE UNCHANGED vars
    BY <1>2 DEF vars, Typed, stripeVars, periodVars, giftVars, counts
  <1>3. ASSUME NEW s \in Subs,
               \/ StripeActs(s) \/ CustomerActs(s) \/ Hooks(s) \/ enforceRenewals(s)
               \/ syncStripeSubscription(s)
        PROVE  Typed'
    BY <1>3, StripeActsTyped, CustomerTyped, ReportTyped
  <1> QED
    BY <1>1, <1>2, <1>3, InvoiceTyped, GiftTyped DEF Next, SyncMembership, syncStripeMemberships

\* Every part keeps its type: no webhook reports a state Stripe cannot be in,
\* the end of a membership is a time whichever invoices are recorded, and no
\* invoice is ever issued past the last one.
THEOREM Types == Spec => []TypeOK
  <1>1. Inv /\ Typed => TypeOK
    BY TypedIsTypeOK DEF Inv
  <1>2. Inv /\ Typed /\ [Next]_vars => (Inv /\ Typed)'
    BY NextInv, TypedStep
  <1>3. Init => Inv /\ Typed
    BY InitInv, TypedInit
  <1> QED
    BY <1>1, <1>2, <1>3, PTL DEF Spec
=============================================================================
