------------------------------- MODULE Orders -------------------------------
(***************************************************************************)
(* One gift order: its header (marketplace.orders.status), its lines       *)
(* (marketplace.order_items.fulfilment_status) and the requests of the     *)
(* shops that ship it.  Orders of kind free_gift are in FreeGifts.         *)
(*                                                                         *)
(* A shop ships through two requests.  StartLocalDelivery reads the shop's *)
(* lines outside any transaction and then dispatches them;                 *)
(* CompleteLocalDelivery reads one line outside any transaction and then   *)
(* runs MarkShopLocalDelivered, a READ COMMITTED transaction of its own.   *)
(* That transaction is open between its last statement and its commit: its *)
(* lines are locked, other transactions still see them dispatched, and the *)
(* header is locked only when its last statement changed it.               *)
(*                                                                         *)
(* A Mut... operator is a faulty variant of the definition after it, for   *)
(* mutation tests.                                                         *)
(***************************************************************************)
EXTENDS Naturals, FiniteSets

CONSTANTS Lines,    \* the lines an order can have
          Shops,    \* the shops selling them
          ShopOf,   \* the shop of each line
          Repeats   \* the shops that may send a start request again meanwhile

ASSUME OrdersAssumption == ShopOf \in [Lines -> Shops] /\ Repeats \subseteq Shops

VARIABLES card,      \* paymentRequired: an order waits for a card payment
          status,    \* orders.status; "checkout" until Create commits
          line,      \* order_items.fulfilment_status; "none" = not ordered
          checked,   \* the lines a shop's start request found ready to ship
          handover   \* a shop's delivery request: its phase, the lines its
                     \* open transaction marked, whether it closes the header

orderVars == <<card, status, line, checked, handover>>

Dead == {"cancelled", "refunded"}
Statuses == {"checkout", "pending_payment", "paid", "accepted", "dispatched",
             "delivered"} \cup Dead
LineStatuses == {"none", "pending", "accepted", "dispatched", "delivered", "cancelled"}

Handover == [phase : {"idle", "checked", "open"}, lines : SUBSET Lines, closes : BOOLEAN]
Idle == [phase |-> "idle", lines |-> {}, closes |-> FALSE]

LinesOf(s) == {l \in Lines : ShopOf[l] = s}

\* Rows an open MarkShopLocalDelivered holds: others wait for its commit.
LineFree(l) == \A s \in Shops : l \notin handover[s].lines
OrderFree == \A s \in Shops : ~handover[s].closes

OrdersTypeOK ==
    /\ card \in BOOLEAN
    /\ status \in Statuses
    /\ line \in [Lines -> LineStatuses]
    /\ checked \in [Shops -> SUBSET Lines]
    /\ handover \in [Shops -> Handover]

OrdersInit ==
    /\ card \in BOOLEAN
    /\ status = "checkout"
    /\ \E items \in SUBSET Lines \ {{}} :
         line = [l \in Lines |-> IF l \in items THEN "pending" ELSE "none"]
    /\ checked = [s \in Shops |-> {}]
    /\ handover = [s \in Shops |-> Idle]

\* Create commits: the header and its lines become visible.
PlaceHeader ==
    /\ status = "checkout"
    /\ status' = "pending_payment"
    /\ UNCHANGED <<card, line, checked, handover>>

(***************************************************************************)
(* The header follows the lines forward, and only from these states.       *)
(***************************************************************************)
refreshOrderStatus(st, ln) ==
    CASE st \in {"paid", "accepted", "dispatched"}
           /\ \E l \in Lines : ln[l] \in {"dispatched", "delivered"} -> "dispatched"
      [] st = "paid" /\ \E l \in Lines : ln[l] = "accepted" -> "accepted"
      [] OTHER -> st

MutAcceptItemForSeller(l) ==
    /\ status # "checkout"
    /\ line[l] = "pending"
    /\ line' = [line EXCEPT ![l] = "accepted"]
    /\ UNCHANGED <<card, status, checked, handover>>

AcceptItemForSeller(l) ==
    /\ status # "checkout"
    /\ line[l] = "pending"
    /\ card => status # "pending_payment"
    /\ line' = [line EXCEPT ![l] = "accepted"]
    /\ UNCHANGED <<card, status, checked, handover>>

\* AcceptItemForSeller's second statement, in a transaction of its own: long
\* after the first, or never.  It changes the header once at most.
RefreshOrderStatus(l) ==
    /\ line[l] \notin {"none", "pending"}
    /\ OrderFree
    /\ status' = refreshOrderStatus(status, line)
    /\ UNCHANGED <<card, line, checked, handover>>

\* Every line of the shop must be accepted first: they leave as one parcel.
\* So requests of a shop that are under way at once have read the same lines,
\* and one entry of checked stands for all of them.
StartLocalDelivery(s) ==
    LET open == {l \in LinesOf(s) : line[l] = "accepted"} IN
    /\ checked[s] = {}
    /\ open # {}
    /\ \A l \in LinesOf(s) : line[l] # "pending"
    /\ checked' = [checked EXCEPT ![s] = open]
    /\ UNCHANGED <<card, status, line, handover>>

(***************************************************************************)
(* The lines were read before this transaction, which sets them dispatched *)
(* whatever became of them since.  A second click may have read them too,  *)
(* and dispatches them once more, also when they were delivered meanwhile. *)
(***************************************************************************)
DispatchSellerManagedItems(s) ==
    /\ checked[s] # {}
    /\ OrderFree
    /\ \A l \in checked[s] : LineFree(l)
    /\ line' = [l \in Lines |-> IF l \in checked[s] THEN "dispatched" ELSE line[l]]
    /\ \/ checked' = [checked EXCEPT ![s] = {}]
       \/ s \in Repeats /\ UNCHANGED checked
    /\ status' = refreshOrderStatus(status, line')
    /\ UNCHANGED <<card, handover>>

CompleteLocalDelivery(s) ==
    /\ handover[s] = Idle
    /\ \E l \in LinesOf(s) : line[l] = "dispatched"
    /\ handover' = [handover EXCEPT ![s].phase = "checked"]
    /\ UNCHANGED <<card, status, line, checked>>

\* What the transaction sees after marking its own lines: the other shops'
\* lines as they are committed.
AllFinished(ln) ==
    /\ \A l \in Lines : ln[l] \in {"none", "delivered", "cancelled"}
    /\ \E l \in Lines : ln[l] = "delivered"

WithDelivered(L) == [l \in Lines |-> IF l \in L THEN "delivered" ELSE line[l]]

MarkShopLocalDelivered(s) ==
    LET L == {l \in LinesOf(s) : line[l] = "dispatched"} IN
    /\ handover[s].phase = "checked"
    /\ handover' = [handover EXCEPT ![s] =
            [phase |-> "open", lines |-> L,
             closes |-> status # "delivered" /\ AllFinished(WithDelivered(L))]]
    /\ OrderFree
    /\ UNCHANGED <<card, status, line, checked>>

CommitDelivered(s) ==
    /\ handover[s].phase = "open"
    /\ line' = WithDelivered(handover[s].lines)
    /\ status' = IF handover[s].closes THEN "delivered" ELSE status
    /\ handover' = [handover EXCEPT ![s] = Idle]
    /\ UNCHANGED <<card, checked>>

\* The request fails before its commit.
RollbackDelivered(s) ==
    /\ handover[s].phase # "idle"
    /\ handover' = [handover EXCEPT ![s] = Idle]
    /\ UNCHANGED <<card, status, line, checked>>

(***************************************************************************)
(* CancelForCustomer, its part on the order.  It waits for every line it   *)
(* cancels; a line already delivered stays delivered.                      *)
(***************************************************************************)
Cancellable == status \in {"pending_payment", "paid", "accepted"}

CancelOrder ==
    /\ Cancellable
    /\ OrderFree
    /\ \A l \in Lines : LineFree(l)
    /\ status' = "cancelled"
    /\ line' = [l \in Lines |-> IF line[l] \in {"none", "delivered"} THEN line[l]
                                                                     ELSE "cancelled"]
    /\ UNCHANGED <<card, checked, handover>>

\* What MarkCheckoutPaid and ApplyRefund do to the header.
PaidStatus(st) == IF st = "pending_payment" THEN "paid" ELSE st
RefundedStatus(st) == IF st \in Dead THEN st ELSE "refunded"

ShopStep ==
    \/ \E l \in Lines : AcceptItemForSeller(l) \/ RefreshOrderStatus(l)
    \/ \E s \in Shops :
        \/ StartLocalDelivery(s) \/ DispatchSellerManagedItems(s)
        \/ CompleteLocalDelivery(s) \/ MarkShopLocalDelivered(s)
        \/ CommitDelivered(s) \/ RollbackDelivered(s)
=============================================================================
