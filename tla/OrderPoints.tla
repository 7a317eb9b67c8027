----------------------------- MODULE OrderPoints -----------------------------
(***************************************************************************)
(* The points that ride on a gift order: rewards its sellers promise on    *)
(* its lines (order_items.reward_status), points attached to the gift      *)
(* (orders.gift_points_status), points earned by the order itself, the     *)
(* accounts they move between, and the earning job that moves them.        *)
(*                                                                         *)
(* A pass of the job goes through its selections in order.  Each selection *)
(* is read outside any transaction; then every row found gets a            *)
(* transaction of its own.  A pass of the loop and a pass started by an    *)
(* administrator may overlap.                                              *)
(*                                                                         *)
(* The total reward of a set of lines is the constant Worth, additive over *)
(* disjoint sets, so that a reward is Worth[{l}] and no sum is computed.   *)
(*                                                                         *)
(* A Mut... operator is a faulty variant of the definition after it, for   *)
(* mutation tests.                                                         *)
(***************************************************************************)
EXTENDS Orders, Integers, Functions

CONSTANTS Customers, Sender, \* the customer who orders is one of Customers
          Sellers, SellerOf, \* the seller of each line
          Worth,             \* reward points of each set of lines
          AtOrder,           \* settings of points_settings to start with
          Credit,            \* seller_points_accounts.credit_limit
          SenderStart, SellerStart, \* balances the accounts may start with
          GiftPoints,        \* points a sender may attach
          OrderPoints,       \* points an order earns once delivered
          Passes,            \* passes of the earning job
          Header,            \* in a work list: the order, not a line
          Nobody             \* no customer

ASSUME PointsAssumption ==
    /\ IsFiniteSet(Customers) /\ IsFiniteSet(Sellers)
    /\ Sender \in Customers /\ Nobody \notin Customers
    /\ SellerOf \in [Lines -> Sellers]
    /\ Worth \in [SUBSET Lines -> Nat]
    /\ \A l \in Lines : Worth[{l}] > 0
    /\ \A S, T \in SUBSET Lines :
         S \cap T = {} => Worth[S \cup T] = Worth[S] + Worth[T]
    /\ AtOrder \subseteq BOOLEAN
    /\ {Credit, OrderPoints} \subseteq Nat /\ GiftPoints \in Nat \ {0}
    /\ Header \notin Lines
    /\ SenderStart \subseteq Nat
    /\ SellerStart \subseteq {n \in Int : n >= -Credit}

VARIABLES atOrder,   \* rewardsAtOrder: a reward is paid with the payment
          reward,    \* order_items.reward_status; "unset" before Create
          gift,      \* orders.gift_points_status
          giftTo,    \* orders.gift_points_recipient_id
          points,    \* points_accounts.balance of each customer
          sellerPoints, reserved,  \* seller_points_accounts
          ledger,    \* the idempotency keys of points_ledger
          pass,      \* each pass: the selection it works on, the rows left
          outside    \* points this order did not move: earned, spent

pointVars == <<atOrder, reward, gift, giftTo, points, sellerPoints, reserved,
               ledger, pass, outside>>
accounts == <<points, sellerPoints, reserved, ledger>>

RewardStatuses == {"unset", "none", "reserved", "awarded", "released", "reversed"}
GiftStatuses == {"none", "held", "returned", "delivered", "reversed"}
Kinds == {"reward-fund", "reward", "reward-reversal", "reward-return", "gift-send",
          "gift-return", "gift-recv", "gift-reversal", "gift-reversal-return",
          "order", "order-reversal"}
Steps == 0 .. 7    \* 0: not running

\* outside is not listed: PointsConserved says which number it is.
PointsTypeOK ==
    /\ atOrder \in BOOLEAN
    /\ reward \in [Lines -> RewardStatuses]
    /\ gift \in GiftStatuses
    /\ giftTo \in Customers \cup {Nobody}
    /\ points \in [Customers -> Nat]
    /\ sellerPoints \in [Sellers -> Int]
    /\ reserved \in [Sellers -> Nat]
    /\ ledger \in SUBSET (Kinds \X (Lines \cup {Header}))
    /\ pass \in [Passes -> [step : Steps, rows : SUBSET (Lines \cup {Header})]]

Of(s, L) == {l \in L : SellerOf[l] = s}
Rows(st) == {l \in Lines : reward[l] = st}
Marked(L, st) == [l \in Lines |-> IF l \in L THEN st ELSE reward[l]]

PointsInit ==
    /\ atOrder \in AtOrder
    /\ reward = [l \in Lines |-> "unset"]
    /\ gift = "none" /\ giftTo = Nobody
    /\ \E n \in SenderStart : points = [c \in Customers |-> IF c = Sender THEN n ELSE 0]
    /\ \E n \in SellerStart : sellerPoints = [s \in Sellers |-> n]
    /\ reserved = [s \in Sellers |-> 0]
    /\ ledger = {}
    /\ pass = [p \in Passes |-> [step |-> 0, rows |-> {}]]
    /\ outside = SumFunctionOnSet(points, Customers) + SumFunctionOnSet(sellerPoints, Sellers)

---------------------------------------------------------------------------
\* Checkout.  The lines' rewards are promised one after the other inside the
\* transaction of Create, each from what its seller still has to promise.

reserveOrderRewards(l) ==
    LET room == sellerPoints[SellerOf[l]] - reserved[SellerOf[l]] - Worth[{l}] >= -Credit
    IN
    /\ status = "checkout"
    /\ line[l] # "none" /\ reward[l] = "unset"
    /\ reward' = [reward EXCEPT ![l] = IF room THEN "reserved" ELSE "none"]
    /\ reserved' = IF room THEN [reserved EXCEPT ![SellerOf[l]] = @ + Worth[{l}]]
                           ELSE reserved
    /\ UNCHANGED <<atOrder, gift, giftTo, points, sellerPoints, ledger, pass, outside>>

\* payLineReward for a set of lines: from the sellers, out of what they
\* promised, to the customer.  ErrPointsInsufficient unless all is promised.
Promised(L) == \A s \in Sellers : Worth[Of(s, L)] <= reserved[s]

RewardKeys(L) == {"reward-fund", "reward"} \X L

MutPayLineRewards(L, extraDelta, extraKeys) ==
    /\ Promised(L)
    /\ RewardKeys(L) \cap ledger = {}
    /\ sellerPoints' = [s \in Sellers |-> sellerPoints[s] - Worth[Of(s, L)]]
    /\ reserved' = reserved
    /\ points' = [points EXCEPT ![Sender] = @ + Worth[L] + extraDelta]
    /\ ledger' = ledger \cup RewardKeys(L) \cup extraKeys
    /\ reward' = Marked(L, "awarded")

payLineRewards(L, extraDelta, extraKeys) ==
    /\ Promised(L)
    /\ RewardKeys(L) \cap ledger = {}
    /\ sellerPoints' = [s \in Sellers |-> sellerPoints[s] - Worth[Of(s, L)]]
    /\ reserved' = [s \in Sellers |-> reserved[s] - Worth[Of(s, L)]]
    /\ points' = [points EXCEPT ![Sender] = @ + Worth[L] + extraDelta]
    /\ ledger' = ledger \cup RewardKeys(L) \cup extraKeys
    /\ reward' = Marked(L, "awarded")

\* The end of Create: rewards are paid at once when they are paid at order
\* time and no payment is awaited, and the gift's points leave the sender.
PlacePoints ==
    /\ \A l \in Lines : line[l] # "none" => reward[l] # "unset"
    /\ \E g \in {0, GiftPoints} :
        LET now == IF atOrder /\ ~card THEN Rows("reserved") ELSE {} IN
        /\ points[Sender] + Worth[now] >= g
        /\ gift' = IF g = 0 THEN "none" ELSE "held"
        /\ payLineRewards(now, -g, IF g = 0 THEN {} ELSE {<<"gift-send", Header>>})
    /\ UNCHANGED <<atOrder, giftTo, pass, outside>>

\* PayRewardsForPaidOrder, once a card payment settled.
PayRewardsForPaidOrder ==
    LET due == IF atOrder /\ status \notin Dead
               THEN {l \in Rows("reserved") : line[l] # "cancelled"} ELSE {} IN
    /\ OrderFree
    /\ payLineRewards(due, 0, {})
    /\ UNCHANGED <<atOrder, gift, giftTo, pass, outside>>

---------------------------------------------------------------------------
\* settleUndeliveredPoints for an order in status st with lines ln: the
\* promises released and whether the held gift points go back.
ToRelease(st, ln) == {l \in Rows("reserved") : ln[l] = "cancelled" \/ st \in Dead}
MutGiftGoesBack(st) == gift = "held" /\ st = "cancelled"
GiftGoesBack(st) == gift = "held" /\ st \in Dead

Returned(st) == IF GiftGoesBack(st) THEN GiftPoints ELSE 0

PosInt(n) == IF n > 0 THEN n ELSE 0

SettleUndeliveredPoints(st, ln, taken) ==
    LET freed == ToRelease(st, ln) IN
    /\ reserved' = [s \in Sellers |-> PosInt(reserved[s] - Worth[Of(s, freed)])]
    /\ points' = [points EXCEPT ![Sender] = @ + Returned(st) - Worth[taken]]
    /\ sellerPoints' = [s \in Sellers |-> sellerPoints[s] + Worth[Of(s, taken)]]
    /\ reward' = [l \in Lines |-> IF l \in freed THEN "released"
                                  ELSE IF l \in taken THEN "reversed" ELSE reward[l]]
    /\ gift' = IF GiftGoesBack(st) THEN "returned" ELSE gift
    /\ ledger' = ledger \cup ({"reward-reversal", "reward-return"} \X taken)
                        \cup (IF GiftGoesBack(st) THEN {<<"gift-return", Header>>} ELSE {})

\* CancelForCustomer, its part on the points: rewards already paid on the
\* lines it cancels are taken back in full, or the whole cancellation fails.
MutCancelPoints ==
    LET taken == {l \in Rows("awarded") : line'[l] = "cancelled"} IN
    /\ ({"reward-reversal", "reward-return"} \X taken) \cap ledger = {}
    /\ GiftGoesBack("cancelled") => <<"gift-return", Header>> \notin ledger
    /\ SettleUndeliveredPoints("cancelled", line', taken)
    /\ UNCHANGED <<atOrder, giftTo, pass, outside>>

CancelPoints ==
    LET taken == {l \in Rows("awarded") : line'[l] = "cancelled"} IN
    /\ points[Sender] + Returned("cancelled") >= Worth[taken]
    /\ ({"reward-reversal", "reward-return"} \X taken) \cap ledger = {}
    /\ GiftGoesBack("cancelled") => <<"gift-return", Header>> \notin ledger
    /\ SettleUndeliveredPoints("cancelled", line', taken)
    /\ UNCHANGED <<atOrder, giftTo, pass, outside>>

---------------------------------------------------------------------------
\* The earning job: what each of its selections finds.
Due(n) ==
    CASE n = 1 -> IF status = "delivered" /\ OrderPoints > 0
                     /\ <<"order", Header>> \notin ledger THEN {Header} ELSE {}
      [] n = 2 -> IF status \in Dead /\ <<"order", Header>> \in ledger
                     /\ <<"order-reversal", Header>> \notin ledger THEN {Header} ELSE {}
      [] n = 3 -> IF status \in Dead THEN {}
                  ELSE {l \in Rows("reserved") : line[l] = "delivered"}
      [] n = 4 -> IF ToRelease(status, line) # {} \/ GiftGoesBack(status)
                  THEN {Header} ELSE {}
      [] n = 5 -> IF gift = "held" /\ status = "delivered" THEN {Header} ELSE {}
      [] n = 6 -> IF status \in Dead THEN Rows("awarded") ELSE {}
      [] n = 7 -> IF gift = "delivered" /\ status = "refunded" THEN {Header} ELSE {}
      [] OTHER -> {}

\* A pass begins, goes on to its next selection, or ends after the last.
Select(p) ==
    LET n == (pass[p].step + 1) % 8 IN
    /\ status # "checkout"
    /\ pass[p].rows = {}
    /\ pass' = [pass EXCEPT ![p] = [step |-> n, rows |-> Due(n)]]
    /\ UNCHANGED <<atOrder, reward, gift, giftTo, points, sellerPoints, reserved,
                   ledger, outside>>

Done(p, x) == pass' = [pass EXCEPT ![p].rows = @ \ {x}]

\* The row moved on, or the movement is already in the ledger: the job goes on.
Skip(p, x) ==
    /\ Done(p, x)
    /\ UNCHANGED <<atOrder, reward, gift, giftTo, points, sellerPoints, reserved,
                   ledger, outside>>

\* An error ends the pass; the next one starts from the first selection.
Abort(p) ==
    /\ pass[p].step # 0
    /\ pass' = [pass EXCEPT ![p] = [step |-> 0, rows |-> {}]]
    /\ UNCHANGED <<atOrder, reward, gift, giftTo, points, sellerPoints, reserved,
                   ledger, outside>>

\* applyOne: one change of the customer's points, never below zero.
ApplyOne(p, key, delta) ==
    \/ /\ <<key, Header>> \notin ledger
       /\ points[Sender] + delta >= 0
       /\ points' = [points EXCEPT ![Sender] = @ + delta]
       /\ ledger' = ledger \cup {<<key, Header>>}
       /\ outside' = outside + delta
       /\ Done(p, Header)
       /\ UNCHANGED <<atOrder, reward, gift, giftTo, sellerPoints, reserved>>
    \/ /\ <<key, Header>> \in ledger
       /\ Skip(p, Header)

LeastOf(m, n) == IF m < n THEN m ELSE n

AwardOrder(p) ==
    /\ pass[p].step = 1 /\ Header \in pass[p].rows
    /\ ApplyOne(p, "order", OrderPoints)

\* Nothing to take yet, or spent between the two reads: tried again next pass.
ReverseOrder(p) ==
    LET take == LeastOf(OrderPoints, points[Sender]) IN
    /\ pass[p].step = 2 /\ Header \in pass[p].rows
    /\ IF take = 0 THEN Skip(p, Header) ELSE ApplyOne(p, "order-reversal", -take)

PayDelivered(p, l) ==
    LET due == line[l] = "delivered" /\ status \notin Dead /\ reward[l] = "reserved"
        posted == RewardKeys({l}) \cap ledger # {} IN
    /\ pass[p].step = 3 /\ l \in pass[p].rows
    /\ LineFree(l)
    /\ \/ /\ ~due \/ posted
          /\ Skip(p, l)
       \/ /\ due
          /\ payLineRewards({l}, 0, {})
          /\ Done(p, l)
          /\ UNCHANGED <<atOrder, gift, giftTo, outside>>
       \/ /\ due /\ ~Promised({l})
          /\ Abort(p)

SettleDead(p) ==
    /\ pass[p].step = 4 /\ Header \in pass[p].rows
    /\ OrderFree
    /\ \/ /\ GiftGoesBack(status) /\ <<"gift-return", Header>> \in ledger
          /\ Skip(p, Header)
       \/ /\ ~(GiftGoesBack(status) /\ <<"gift-return", Header>> \in ledger)
          /\ SettleUndeliveredPoints(status, line, {})
          /\ Done(p, Header)
          /\ UNCHANGED <<atOrder, giftTo, outside>>

\* Delivered gifts: to the account with the recipient's email (c), which may
\* be the sender's own, or back to the sender when there is none.
DeliverGift(p, c) ==
    LET key == IF c = Nobody THEN "gift-return" ELSE "gift-recv"
        to == IF c = Nobody THEN Sender ELSE c
        due == /\ status = "delivered" /\ gift = "held"
               /\ <<key, Header>> \notin ledger IN
    /\ pass[p].step = 5 /\ Header \in pass[p].rows
    /\ OrderFree
    /\ IF due
       THEN /\ points' = [points EXCEPT ![to] = @ + GiftPoints]
            /\ ledger' = ledger \cup {<<key, Header>>}
            /\ gift' = IF c = Nobody THEN "returned" ELSE "delivered"
            /\ giftTo' = c
            /\ Done(p, Header)
            /\ UNCHANGED <<atOrder, reward, sellerPoints, reserved, outside>>
       ELSE Skip(p, Header)

\* Take back what the customer still holds.  The status of the order is not
\* read again here.
ReverseReward(p, l) ==
    LET take == LeastOf(Worth[{l}], points[Sender])
        keys == IF take = 0 THEN {} ELSE {"reward-reversal", "reward-return"} \X {l} IN
    /\ pass[p].step = 6 /\ l \in pass[p].rows
    /\ LineFree(l)
    /\ IF reward[l] = "awarded" /\ keys \cap ledger = {}
       THEN /\ points' = [points EXCEPT ![Sender] = @ - take]
            /\ sellerPoints' = [sellerPoints EXCEPT ![SellerOf[l]] = @ + take]
            /\ ledger' = ledger \cup keys
            /\ reward' = [reward EXCEPT ![l] = "reversed"]
            /\ Done(p, l)
            /\ UNCHANGED <<atOrder, gift, giftTo, reserved, outside>>
       ELSE Skip(p, l)

MutReverseGift(p) ==
    LET take == IF giftTo \in Customers \ {Sender}
                THEN LeastOf(GiftPoints, points[giftTo]) ELSE 0
        keys == IF take = 0 THEN {}
                ELSE {"gift-reversal", "gift-reversal-return"} \X {Header} IN
    /\ pass[p].step = 7 /\ Header \in pass[p].rows
    /\ OrderFree
    /\ IF gift = "delivered" /\ keys \cap ledger = {}
       THEN /\ points' = [c \in Customers |->
                  points[c] + (IF c = Sender THEN GiftPoints ELSE 0)
                            - (IF c = giftTo THEN take ELSE 0)]
            /\ ledger' = ledger \cup keys
            /\ gift' = "reversed"
            /\ Done(p, Header)
            /\ UNCHANGED <<atOrder, reward, giftTo, sellerPoints, reserved, outside>>
       ELSE Skip(p, Header)

ReverseGift(p) ==
    LET take == IF giftTo \in Customers \ {Sender}
                THEN LeastOf(GiftPoints, points[giftTo]) ELSE 0
        keys == IF take = 0 THEN {}
                ELSE {"gift-reversal", "gift-reversal-return"} \X {Header} IN
    /\ pass[p].step = 7 /\ Header \in pass[p].rows
    /\ OrderFree
    /\ IF gift = "delivered" /\ keys \cap ledger = {}
       THEN /\ points' = [c \in Customers |->
                  points[c] + (IF c = Sender THEN take ELSE 0)
                            - (IF c = giftTo THEN take ELSE 0)]
            /\ ledger' = ledger \cup keys
            /\ gift' = "reversed"
            /\ Done(p, Header)
            /\ UNCHANGED <<atOrder, reward, giftTo, sellerPoints, reserved, outside>>
       ELSE Skip(p, Header)

Process(p) ==
    \/ AwardOrder(p) \/ ReverseOrder(p) \/ SettleDead(p) \/ ReverseGift(p)
    \/ \E l \in Lines : PayDelivered(p, l) \/ ReverseReward(p, l)
    \/ \E c \in Customers \cup {Nobody} : DeliverGift(p, c)

---------------------------------------------------------------------------
\* Points spent on plays.
Spend(c) ==
    /\ points[c] > 0
    /\ points' = [points EXCEPT ![c] = @ - 1]
    /\ outside' = outside - 1
    /\ UNCHANGED <<atOrder, reward, gift, giftTo, sellerPoints, reserved, ledger, pass>>
=============================================================================
