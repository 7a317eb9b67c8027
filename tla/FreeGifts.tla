----------------------------- MODULE FreeGifts ------------------------------
(***************************************************************************)
(* The first free gift program of one seller: the marketing budget         *)
(* (promo.free_gift_programs), the products offered                        *)
(* (promo.free_gift_products), their stock, the one-time rights of senders *)
(* and recipients (promo.free_gift_claims) and the free gift orders.       *)
(*                                                                         *)
(* A gift is named by its sender and idempotency key, of which the unique  *)
(* index orders_customer_idempotency_uq allows one order; its product,     *)
(* identity keys, cost and delivery charge are what its request read.      *)
(* Send's transaction locks every row it decides on until it commits, so   *)
(* it is one step; what is read before a transaction is a step of its own. *)
(*                                                                         *)
(* A Mut... operator is a faulty variant of the definition after it.       *)
(***************************************************************************)
EXTENDS Naturals, FiniteSets

CONSTANTS Gifts,        \* the orders the senders' requests can make
          Products,
          Item,         \* the product of each gift
          SendKeys,     \* the sender's account, phone and email
          ReceiveKeys,  \* the recipient's phone and email
          Keys,
          Cost,         \* free_gift_cost of each set of gifts
          Charged,      \* the gifts with a delivery to pay
          CurrencyOf,   \* the currency each gift is priced in
          Currencies,
          Budgets,      \* the caps and currencies admins ask for
          GiftCaps,     \* the gift caps sellers ask for
          Forms,        \* the inventory forms a seller sends: available, reserved
          Repeats,      \* bound: the gifts whose seller may ask for their start again
          MaxOpening    \* bound: concurrent first writes of a program

ASSUME FreeGiftsAssumption ==
    /\ IsFiniteSet(Gifts)
    /\ Item \in [Gifts -> Products]
    /\ SendKeys \in [Gifts -> SUBSET Keys]
    /\ ReceiveKeys \in [Gifts -> SUBSET Keys]
    /\ Cost \in [SUBSET Gifts -> Nat]
    /\ Cost[{}] = 0
    /\ \A S, T \in SUBSET Gifts : S \cap T = {} => Cost[S \cup T] = Cost[S] + Cost[T]
    /\ Charged \subseteq Gifts
    /\ CurrencyOf \in [Gifts -> Currencies]
    /\ Budgets \subseteq [cap : Nat, currency : Currencies]
    /\ GiftCaps \subseteq Nat \ {0}
    /\ Forms \subseteq Nat \X Nat
    /\ MaxOpening \in Nat
    /\ Repeats \subseteq Gifts

NoCap == 0   \* gifts_cap null: the budget alone limits the product

VARIABLES program,    \* the seller's budget
          opening,    \* first writes that found no program
          reallow,    \* AdminSetStopped read a stopped program
          offer,      \* the products in the program
          stock,      \* seller.inventory
          order, line,   \* orders.status, the line's fulfilment_status
          budget,     \* orders.free_gift_budget_status
          claims,     \* the used rights, each with its gift
          checked,    \* gifts whose line a start request found accepted
          removed,    \* history: products once taken out of the program
          rewritten   \* history: products whose reserved_qty a form replaced

programVars == <<program, opening, reallow>>
orderVars == <<order, line, checked>>
giftVars == <<budget, claims>>
history == <<removed, rewritten>>
vars == <<programVars, offer, stock, orderVars, giftVars, history>>

ProgramStatuses == {"not_set", "active", "paused", "stopped"}
Switched == {"active", "paused"}
Writes == {[status |-> st, cap |-> b.cap, currency |-> b.currency] : st \in Switched, b \in Budgets}
OrderStatuses == {"none", "pending_payment", "confirmed", "paid", "accepted",
                  "dispatched", "delivered", "cancelled", "refunded"}
LineStatuses == {"none", "pending", "accepted", "dispatched", "delivered", "cancelled"}
BudgetStatuses == {"none", "held", "spent", "released"}
NotOffered == [status |-> "none", cap |-> NoCap, count |-> 0]

TypeOK ==
    /\ program \in [status : ProgramStatuses, cap : Nat, held : Nat, spent : Nat,
                    currency : Currencies]
    /\ opening \in SUBSET Writes
    /\ reallow \in BOOLEAN
    /\ offer \in [Products -> [status : {"none"} \cup Switched, cap : Nat, count : Nat]]
    /\ stock \in [Products -> [available : Nat, reserved : Nat]]
    /\ order \in [Gifts -> OrderStatuses]
    /\ line \in [Gifts -> LineStatuses]
    /\ budget \in [Gifts -> BudgetStatuses]
    /\ claims \in SUBSET ({"send", "receive"} \X Keys \X Gifts)
    /\ checked \in SUBSET Gifts
    /\ removed \in SUBSET Products
    /\ rewritten \in SUBSET Products

Init ==
    /\ program \in [status : {"not_set"}, cap : {0}, held : {0}, spent : {0},
                    currency : Currencies]
    /\ opening = {}
    /\ reallow = FALSE
    /\ offer = [p \in Products |-> NotOffered]
    /\ \E f \in Forms : stock = [p \in Products |-> [available |-> f[1], reserved |-> 0]]
    /\ order = [g \in Gifts |-> "none"]
    /\ line = [g \in Gifts |-> "none"]
    /\ budget = [g \in Gifts |-> "none"]
    /\ claims = {}
    /\ checked = {}
    /\ removed = {}
    /\ rewritten = {}

MutAtLeast0(a, b) == a - b

AtLeast0(a, b) == IF a >= b THEN a - b ELSE 0   \* greatest(a - b, 0)
Lesser(a, b) == IF a <= b THEN a ELSE b         \* least(a, b)

Committed == program.held + program.spent
Offered == {p \in Products : offer[p].status # "none"}
InStatus(b) == {g \in Gifts : budget[g] = b}
Live == InStatus("held") \cup InStatus("spent")
OfProduct(p) == {g \in Gifts : Item[g] = p}

---------------------------------------------------------------------------
(***************************************************************************)
(* The seller's program                                                    *)
(***************************************************************************)

\* UpsertProgram that finds a program, and holds its row.  The admin's form,
\* the country budget and the seller's first look at it all end here.
UpsertProgram(w) ==
    /\ program.status \in Switched
    /\ Committed <= w.cap
    /\ w.currency # program.currency => Offered = {} /\ Committed = 0
    /\ program' = [program EXCEPT !.status = w.status, !.cap = w.cap,
                                  !.currency = w.currency]
    /\ UNCHANGED <<opening, reallow, offer, stock, orderVars, giftVars, history>>

\* It finds none.  The insert comes later, when another may have made one.
FirstWrite(w) ==
    /\ program.status = "not_set"
    /\ Cardinality(opening) < MaxOpening
    /\ opening' = opening \cup {w}
    /\ UNCHANGED <<program, reallow, offer, stock, orderVars, giftVars, history>>

MutInsertProgram(w) ==
    LET created == [status |-> w.status, cap |-> w.cap, held |-> 0, spent |-> 0,
                    currency |-> w.currency]
        onConflict == [program EXCEPT !.status = w.status, !.cap = w.cap] IN
    /\ w \in opening
    /\ opening' = opening \ {w}
    /\ program' = CASE program.status = "not_set" -> created
                    [] program.status \in Switched -> onConflict
                    [] OTHER -> program
    /\ UNCHANGED <<reallow, offer, stock, orderVars, giftVars, history>>

InsertProgram(w) ==
    LET created == [status |-> w.status, cap |-> w.cap, held |-> 0, spent |-> 0,
                    currency |-> w.currency]
        onConflict == [program EXCEPT !.status = w.status, !.cap = w.cap] IN
    /\ w \in opening
    /\ opening' = opening \ {w}
    /\ program' = CASE program.status = "not_set" -> created
                    [] program.status \in Switched /\ Committed <= w.cap -> onConflict
                    [] OTHER -> program
    /\ UNCHANGED <<reallow, offer, stock, orderVars, giftVars, history>>

\* The seller's own switch leaves a stopped program alone; the admin's does not.
SetSellerProgramStatus(st) ==
    /\ program.status \in Switched
    /\ program' = [program EXCEPT !.status = st]
    /\ UNCHANGED <<opening, reallow, offer, stock, orderVars, giftVars, history>>

AdminStop ==
    /\ program.status # "not_set"
    /\ program' = [program EXCEPT !.status = "stopped"]
    /\ UNCHANGED <<opening, reallow, offer, stock, orderVars, giftVars, history>>

AdminReadsStopped ==
    /\ program.status = "stopped"
    /\ reallow' = TRUE
    /\ UNCHANGED <<program, opening, offer, stock, orderVars, giftVars, history>>

AdminReallow ==
    /\ reallow
    /\ reallow' = FALSE
    /\ program' = [program EXCEPT !.status = "paused"]
    /\ UNCHANGED <<opening, offer, stock, orderVars, giftVars, history>>

---------------------------------------------------------------------------
(***************************************************************************)
(* The seller's products and their stock                                   *)
(***************************************************************************)

\* The product can be published and priced in the program's currency at any
\* time, so those checks are left out.
UpsertProduct(p, cap, st) ==
    /\ program.status # "not_set"
    /\ cap = NoCap \/ offer[p].count <= cap
    /\ offer' = [offer EXCEPT ![p].status = st, ![p].cap = cap]
    /\ UNCHANGED <<programVars, stock, orderVars, giftVars, history>>

\* The row goes, its count with it.
RemoveProduct(p) ==
    /\ offer[p].status # "none"
    /\ offer' = [offer EXCEPT ![p] = NotOffered]
    /\ removed' = removed \cup {p}
    /\ UNCHANGED <<programVars, stock, orderVars, giftVars, rewritten>>

\* The inventory form writes both quantities as its sender saw or chose them.
UpsertInventory(p, f) ==
    /\ stock' = [stock EXCEPT ![p] = [available |-> f[1], reserved |-> f[2]]]
    /\ rewritten' = IF f[2] = stock[p].reserved THEN rewritten ELSE rewritten \cup {p}
    /\ UNCHANGED <<programVars, offer, orderVars, giftVars, removed>>

---------------------------------------------------------------------------
(***************************************************************************)
(* Sending, cancelling and delivering a gift                               *)
(***************************************************************************)

Rights(g) == ({"send"} \X SendKeys[g]) \cup ({"receive"} \X ReceiveKeys[g])
RowsOf(g) == {<<r[1], r[2], g>> : r \in Rights(g)}
UsedRights == {<<c[1], c[2]>> : c \in claims}

\* One row per right, refused when any is used.
MutUseClaims(g) ==
    /\ ({"send"} \X SendKeys[g]) \cap UsedRights = {}
    /\ claims' = claims \cup RowsOf(g)

useClaims(g) ==
    /\ Rights(g) \cap UsedRights = {}
    /\ claims' = claims \cup RowsOf(g)

takeGift(p) ==
    /\ offer[p].status = "active"
    /\ offer[p].cap = NoCap \/ offer[p].count < offer[p].cap
    /\ offer' = [offer EXCEPT ![p].count = @ + 1]

holdBudget(g) ==
    /\ program.status = "active"
    /\ program.currency = CurrencyOf[g]
    /\ Committed + Cost[{g}] <= program.cap
    /\ program' = [program EXCEPT !.held = @ + Cost[{g}]]

reserveStock(p) ==
    /\ stock[p].available > stock[p].reserved
    /\ stock' = [stock EXCEPT ![p].reserved = @ + 1]

\* Any refusal undoes all of it.
CreateOrder(g, st) ==
    /\ useClaims(g)
    /\ takeGift(Item[g])
    /\ holdBudget(g)
    /\ reserveStock(Item[g])
    /\ order' = [order EXCEPT ![g] = st]
    /\ line' = [line EXCEPT ![g] = "pending"]
    /\ budget' = [budget EXCEPT ![g] = "held"]
    /\ UNCHANGED <<opening, reallow, checked, history>>

\* A retry, or a double click that lost the race, gets the first one's order.
Send(g) ==
    /\ order[g] = "none"
    /\ CreateOrder(g, IF g \in Charged THEN "pending_payment" ELSE "confirmed")

MutReleaseFreeGift(g) ==
    LET p == Item[g] IN
    /\ budget' = [budget EXCEPT ![g] = "released"]
    /\ program' = [program EXCEPT !.held = AtLeast0(@, Cost[{g}])]
    /\ stock' = [stock EXCEPT ![p].reserved = AtLeast0(@, 1)]
    /\ claims' = claims \ RowsOf(g)
    /\ UNCHANGED offer

\* Gives back all a gift took, to whatever rows there are by now.
releaseFreeGift(g) ==
    LET p == Item[g] IN
    /\ budget' = [budget EXCEPT ![g] = "released"]
    /\ program' = [program EXCEPT !.held = AtLeast0(@, Cost[{g}])]
    /\ stock' = [stock EXCEPT ![p].reserved = AtLeast0(@, 1)]
    /\ claims' = claims \ RowsOf(g)
    /\ offer' = IF offer[p].status = "none" THEN offer
                ELSE [offer EXCEPT ![p].count = AtLeast0(@, 1)]

\* The statuses CancelForCustomer takes, and a line not on its way.
MutCancellable(g) ==
    /\ order[g] \in {"paid", "confirmed", "accepted"}
    /\ line[g] \notin {"dispatched", "delivered"}

Cancellable(g) ==
    /\ order[g] \in {"pending_payment", "paid", "confirmed", "accepted"}
    /\ line[g] \notin {"dispatched", "delivered"}

CancelForCustomer(g) ==
    /\ Cancellable(g)
    /\ order' = [order EXCEPT ![g] = "cancelled"]
    /\ line' = [line EXCEPT ![g] = "cancelled"]
    /\ IF budget[g] = "held"
         THEN releaseFreeGift(g)
         ELSE UNCHANGED <<giftVars, program, offer, stock>>
    /\ UNCHANGED <<opening, reallow, checked, history>>

\* The expiry loop cancels a gift whose delivery nobody paid for.
CancelExpiredUnpaid(g) ==
    /\ order[g] = "pending_payment"
    /\ CancelForCustomer(g)

spendFreeGift(g) ==
    LET p == Item[g] IN
    /\ budget' = [budget EXCEPT ![g] = "spent"]
    /\ program' = [program EXCEPT !.held = AtLeast0(@, Cost[{g}]),
                                  !.spent = @ + Lesser(Cost[{g}], program.held)]
    /\ stock' = [stock EXCEPT ![p] = [available |-> AtLeast0(@.available, 1),
                                      reserved |-> AtLeast0(@.reserved, 1)]]

\* MarkShopLocalDelivered.  The header is set delivered whatever it was.
MarkDelivered(g) ==
    /\ line[g] = "dispatched"
    /\ line' = [line EXCEPT ![g] = "delivered"]
    /\ order' = [order EXCEPT ![g] = "delivered"]
    /\ IF budget[g] = "held" THEN spendFreeGift(g) ELSE UNCHANGED <<budget, program, stock>>
    /\ UNCHANGED <<opening, reallow, offer, claims, checked, history>>

---------------------------------------------------------------------------
(***************************************************************************)
(* The rest of the order's life (see Orders, OrderPayments)                *)
(***************************************************************************)
HeaderOnly(g, st) ==
    /\ order' = [order EXCEPT ![g] = st]
    /\ UNCHANGED <<programVars, offer, stock, line, checked, giftVars, history>>

MarkCheckoutPaid(g) == order[g] = "pending_payment" /\ HeaderOnly(g, "paid")

\* The delivery's payment is refunded in full at Stripe.
ApplyRefund(g) ==
    /\ g \in Charged
    /\ order[g] \in {"paid", "accepted", "dispatched", "delivered"}
    /\ HeaderOnly(g, "refunded")

AcceptItemForSeller(g) ==
    /\ line[g] = "pending"
    /\ order[g] # "pending_payment"
    /\ line' = [line EXCEPT ![g] = "accepted"]
    /\ UNCHANGED <<programVars, offer, stock, order, checked, giftVars, history>>

\* Its second statement, in a transaction of its own.
RefreshOrderStatus(g) ==
    /\ line[g] = "accepted"
    /\ order[g] = "paid"
    /\ HeaderOnly(g, "accepted")

\* The line is read here, and dispatched later whatever became of it, by each
\* of the requests that read it: g stays checked while one is under way.
\* One request stands for those of a gift outside Repeats.
StartLocalDelivery(g) ==
    /\ line[g] = "accepted"
    /\ checked' = checked \cup {g}
    /\ UNCHANGED <<programVars, offer, stock, order, line, giftVars, history>>

DispatchSellerManagedItems(g) ==
    /\ g \in checked
    /\ \/ checked' = checked \ {g}
       \/ g \in Repeats /\ UNCHANGED checked
    /\ line' = [line EXCEPT ![g] = "dispatched"]
    /\ order' = [order EXCEPT ![g] = IF @ \in {"paid", "accepted"} THEN "dispatched" ELSE @]
    /\ UNCHANGED <<programVars, offer, stock, giftVars, history>>

---------------------------------------------------------------------------
ProgramStep ==
    \/ \E w \in Writes : UpsertProgram(w) \/ FirstWrite(w) \/ InsertProgram(w)
    \/ \E st \in Switched : SetSellerProgramStatus(st)
    \/ AdminStop \/ AdminReadsStopped \/ AdminReallow

ProductStep ==
    \E p \in Products :
      \/ \E cap \in GiftCaps \cup {NoCap}, st \in Switched : UpsertProduct(p, cap, st)
      \/ RemoveProduct(p)
      \/ \E f \in Forms : UpsertInventory(p, f)

GiftStep ==
    \E g \in Gifts :
      \/ Send(g) \/ CancelForCustomer(g) \/ CancelExpiredUnpaid(g)
      \/ MarkCheckoutPaid(g) \/ ApplyRefund(g) \/ AcceptItemForSeller(g)
      \/ RefreshOrderStatus(g)
      \/ StartLocalDelivery(g) \/ DispatchSellerManagedItems(g) \/ MarkDelivered(g)

Next == ProgramStep \/ ProductStep \/ GiftStep

Spec == Init /\ [][Next]_vars

\* Only the expiry loop has to act; it comes round every interval.
FairSpec == Spec /\ \A g \in Charged : WF_vars(CancelExpiredUnpaid(g))

---------------------------------------------------------------------------
(***************************************************************************)
(* Properties                                                              *)
(***************************************************************************)

\* The gifts whose line is still to arrive, and those whose line arrived.
OnTheirWay == {g \in Gifts : line[g] \in {"pending", "accepted", "dispatched"}}
Delivered == {g \in Gifts : line[g] = "delivered"}

\* The exceptions of the next two properties: a start request that read the
\* line accepted dispatches it by its id whatever happened in between.  A gift
\* cancelled meanwhile leaves, and arrives, after its cancellation gave back
\* budget, stock and rights, and nothing takes them again.  One that a first
\* request of two sent off and that arrived is on its way once more.
SentAfterAll == {g \in Gifts : budget[g] = "released" /\ line[g] # "cancelled"}
SentAgain == {g \in Gifts : budget[g] = "spent" /\ line[g] = "dispatched"}
PaidFor == (OnTheirWay \cup Delivered) \ SentAfterAll

\* The budget is exactly what the gifts on their way and delivered cost, but
\* for those sent after all, within the cap and in its currency, whatever the
\* seller, two admins and the orders did to it at once: greatest and least
\* never cut anything off.  A gift sent after all costs the budget nothing, one
\* sent again nothing more; a gift that costs nothing holds nothing, and does
\* not fix the currency.
BudgetBacked ==
    /\ program.held = Cost[OnTheirWay \ (SentAfterAll \cup SentAgain)]
    /\ program.spent = Cost[(Delivered \ SentAfterAll) \cup SentAgain]
    /\ Committed <= program.cap
    /\ \A g \in PaidFor : Cost[{g}] > 0 => CurrencyOf[g] = program.currency

\* A right is used by one gift at a time, and by each gift on its way or
\* delivered but those sent after all: a cancellation gives back its own
\* gift's rights and no other's.  Those sent after all use none, so their
\* sender can send, and their recipient receive, another one.
OneTimeRights ==
    /\ claims = UNION {RowsOf(g) : g \in PaidFor}
    /\ \A g, h \in PaidFor : g # h => Rights(g) \cap Rights(h) = {}

\* The counters of a product are its gifts: gifts_count those that hold or
\* spent the budget, within the cap, reserved_qty those that hold it.  It holds until the seller
\* takes the product out, which forgets the count and lets old gifts be
\* counted off a new one, or a form replaces reserved_qty.
CountersBacked ==
    \A p \in Products :
      /\ p \notin removed =>
           /\ offer[p].count = Cardinality(OfProduct(p) \cap Live)
           /\ offer[p].cap = NoCap \/ offer[p].count <= offer[p].cap
      /\ p \notin rewritten =>
           stock[p].reserved = Cardinality(OfProduct(p) \cap InStatus("held"))

\* The budget and the rights of a gift nobody pays the delivery of do not
\* stay taken: it is cancelled and gives them back, or paid in time.
UnpaidGivesBack ==
    \A g \in Charged :
      order[g] = "pending_payment" ~> (budget[g] = "released" \/ order[g] = "paid")

\* A gift's budget is held only while its order can still be delivered: no
\* cancellation or delivery leaves it behind.
HeldIsUnsettled ==
    \A g \in InStatus("held") :
      order[g] \in {"pending_payment", "confirmed", "paid", "accepted", "dispatched", "refunded"}
=============================================================================
