-------------------------- MODULE FreeGiftsProofs ---------------------------
(***************************************************************************)
(* Proofs about the free gift program: its budget is the gifts it pays     *)
(* for, a one-time right is used once, and the counters are the gifts.     *)
(*                                                                         *)
(* The code keeps the budget and the rights by the budget's status, and    *)
(* the inductive invariant IInv says so (StatusBacked, StatusRights); that *)
(* the status follows the line (BudgetFollowsLine) turns this into what    *)
(* the gifts on their way and delivered cost.  IInv adds that an order,    *)
(* its line and its budget begin together (Begun), that a program nobody   *)
(* set has committed nothing (NothingCommitted), and that a product out of *)
(* the program counts nothing (NothingCounted).                            *)
(***************************************************************************)
EXTENDS FreeGifts, FiniteSetTheorems, TLAPS

Begun ==
    \A g \in Gifts :
      /\ order[g] = "none" <=> budget[g] = "none"
      /\ line[g] # "none" \/ g \in checked => order[g] # "none"
NothingCommitted == program.status = "not_set" => Committed = 0
NothingCounted == \A p \in Products : offer[p].status = "none" => offer[p].count = 0

StatusBacked ==
    /\ program.held = Cost[InStatus("held")]
    /\ program.spent = Cost[InStatus("spent")]
    /\ Committed <= program.cap
    /\ \A g \in Live : Cost[{g}] > 0 => CurrencyOf[g] = program.currency
StatusRights ==
    /\ claims = UNION {RowsOf(g) : g \in Live}
    /\ \A g, h \in Live : g # h => Rights(g) \cap Rights(h) = {}

\* Where the line of a gift can be, by its budget; a start request under way
\* will dispatch the line, whatever became of it since it was accepted.
BudgetFollowsLine ==
    \A g \in Gifts :
      /\ budget[g] = "none" => line[g] = "none"
      /\ budget[g] = "held" => line[g] \in {"pending", "accepted", "dispatched"}
      /\ budget[g] = "spent" => line[g] \in {"dispatched", "delivered"}
      /\ budget[g] = "released" => line[g] \in {"cancelled", "dispatched", "delivered"}

IInv == /\ TypeOK /\ StatusBacked /\ StatusRights /\ CountersBacked /\ HeldIsUnsettled
        /\ Begun /\ NothingCommitted /\ NothingCounted /\ BudgetFollowsLine

---------------------------------------------------------------------------
(***************************************************************************)
(* Sums of costs and sizes of sets of gifts                                *)
(***************************************************************************)
LEMMA CostNat == \A S \in SUBSET Gifts : Cost[S] \in Nat
BY FreeGiftsAssumption

LEMMA CostAdd ==
    ASSUME NEW S \in SUBSET Gifts, NEW g \in Gifts, g \notin S
    PROVE  Cost[S \cup {g}] = Cost[S] + Cost[{g}]
BY FreeGiftsAssumption, S \cap {g} = {}, {g} \in SUBSET Gifts

LEMMA CostRemove ==
    ASSUME NEW S \in SUBSET Gifts, NEW g \in S
    PROVE  /\ Cost[S \ {g}] = Cost[S] - Cost[{g}]
           /\ Cost[{g}] <= Cost[S]
<1>1. (S \ {g}) \cup {g} = S
  OBVIOUS
<1>2. Cost[S] = Cost[S \ {g}] + Cost[{g}]
  BY <1>1, CostAdd, S \ {g} \in SUBSET Gifts
<1>3. Cost[S] \in Nat /\ Cost[S \ {g}] \in Nat /\ Cost[{g}] \in Nat
  BY CostNat, {g} \in SUBSET Gifts, S \ {g} \in SUBSET Gifts
<1> QED
  BY <1>2, <1>3

LEMMA SizeAdd ==
    ASSUME NEW S \in SUBSET Gifts, NEW g \in Gifts, g \notin S
    PROVE  Cardinality(S \cup {g}) = Cardinality(S) + 1
BY FreeGiftsAssumption, FS_Subset, FS_AddElement

LEMMA SizeRemove ==
    ASSUME NEW S \in SUBSET Gifts, NEW g \in S
    PROVE  /\ Cardinality(S) \in Nat /\ Cardinality(S) >= 1
           /\ Cardinality(S \ {g}) = Cardinality(S) - 1
<1>1. IsFiniteSet(S) /\ IsFiniteSet(S \ {g})
  BY FreeGiftsAssumption, FS_Subset, S \ {g} \in SUBSET Gifts
<1>2. Cardinality(S) \in Nat /\ Cardinality(S \ {g}) \in Nat
  BY <1>1, FS_CardinalityType
<1>3. Cardinality((S \ {g}) \cup {g}) = Cardinality(S \ {g}) + 1
  BY <1>1, FS_AddElement
<1>4. (S \ {g}) \cup {g} = S
  OBVIOUS
<1>5. Cardinality(S) = Cardinality(S \ {g}) + 1
  BY <1>3, <1>4
<1> QED
  BY <1>2, <1>5

LEMMA Floor ==
    ASSUME NEW a \in Nat, NEW b \in Nat
    PROVE  /\ AtLeast0(a, b) \in Nat /\ Lesser(a, b) \in Nat
           /\ b <= a => AtLeast0(a, b) = a - b /\ Lesser(b, a) = b
BY DEF AtLeast0, Lesser

---------------------------------------------------------------------------
(***************************************************************************)
(* The initial states                                                      *)
(***************************************************************************)
LEMMA InitInv == Init => IInv
<1> SUFFICES ASSUME Init PROVE IInv
  OBVIOUS
<1>0. PICK f \in Forms : stock = [p \in Products |-> [available |-> f[1], reserved |-> 0]]
  BY DEF Init
<1>1. TypeOK
  <2>1. f[1] \in Nat
    BY FreeGiftsAssumption
  <2>2. stock \in [Products -> [available : Nat, reserved : Nat]]
    BY <1>0, <2>1
  <2>3. program \in [status : ProgramStatuses, cap : Nat, held : Nat, spent : Nat,
                     currency : Currencies]
    BY DEF Init, ProgramStatuses
  <2>4. offer \in [Products -> [status : {"none"} \cup Switched, cap : Nat, count : Nat]]
    BY DEF Init, NotOffered, NoCap
  <2> QED
    BY <2>2, <2>3, <2>4 DEF Init, TypeOK, OrderStatuses, LineStatuses, BudgetStatuses
<1>2. InStatus("held") = {} /\ InStatus("spent") = {} /\ Live = {}
  BY DEF Init, InStatus, Live
<1>3. StatusBacked /\ NothingCommitted
  BY <1>2, FreeGiftsAssumption DEF Init, StatusBacked, NothingCommitted, Committed
<1>4. StatusRights
  BY <1>2 DEF Init, StatusRights
<1>5. Cardinality({}) = 0
  BY FS_EmptySet
<1>6. CountersBacked
  <2> SUFFICES ASSUME NEW p \in Products
               PROVE  /\ offer[p].count = 0 /\ offer[p].cap = NoCap
                      /\ stock[p].reserved = 0
                      /\ OfProduct(p) \cap Live = {} /\ OfProduct(p) \cap InStatus("held") = {}
    BY <1>5 DEF CountersBacked
  <2> QED
    BY <1>0, <1>2 DEF Init, NotOffered
<1>7. HeldIsUnsettled /\ Begun /\ BudgetFollowsLine
  BY <1>2 DEF Init, HeldIsUnsettled, Begun, BudgetFollowsLine
<1>8. NothingCounted
  BY DEF Init, NothingCounted, NotOffered
<1> QED
  BY <1>1, <1>3, <1>4, <1>6, <1>7, <1>8 DEF IInv

---------------------------------------------------------------------------
(***************************************************************************)
(* Steps on the program                                                    *)
(***************************************************************************)

\* A gift that costs something is part of what is committed.
LEMMA CommittedCovers ==
    ASSUME IInv, Committed = 0, NEW g \in Live
    PROVE  Cost[{g}] = 0
<1>1. InStatus("held") \in SUBSET Gifts /\ InStatus("spent") \in SUBSET Gifts
  BY DEF InStatus
<1>2. g \in InStatus("held") \/ g \in InStatus("spent")
  BY DEF Live
<1>3. Cost[{g}] <= program.held \/ Cost[{g}] <= program.spent
  BY <1>1, <1>2, CostRemove DEF IInv, StatusBacked
<1>4. program.held \in Nat /\ program.spent \in Nat /\ Cost[{g}] \in Nat
  BY <1>1, <1>2, CostNat, {g} \in SUBSET Gifts DEF IInv, TypeOK
<1> QED
  BY <1>3, <1>4 DEF Committed

\* What a step on the program must leave as it is.
LEMMA ProgramKeeps ==
    ASSUME IInv, UNCHANGED <<offer, stock, orderVars, giftVars, history>>,
           TypeOK', NothingCommitted',
           program'.held = program.held, program'.spent = program.spent,
           Committed <= program'.cap,
           program'.currency = program.currency \/ Committed = 0
    PROVE  IInv'
<1>1. InStatus("held")' = InStatus("held") /\ InStatus("spent")' = InStatus("spent") /\ Live' = Live
  BY DEF InStatus, Live, giftVars
<1>2. StatusBacked'
  <2>1. Committed' = Committed
    BY DEF Committed
  <2>2. program.currency = program'.currency \/ \A g \in Live : Cost[{g}] = 0
    BY CommittedCovers
  <2>3. \A g \in Live : Cost[{g}] > 0 => CurrencyOf[g] = program'.currency
    BY <2>2 DEF IInv, StatusBacked
  <2> QED
    BY <1>1, <2>1, <2>3 DEF IInv, StatusBacked
<1>3. StatusRights'
  BY <1>1 DEF IInv, StatusRights, RowsOf, Rights, giftVars
<1>4. CountersBacked' /\ NothingCounted'
  BY <1>1 DEF IInv, CountersBacked, NothingCounted, OfProduct, history
<1>5. HeldIsUnsettled' /\ Begun' /\ BudgetFollowsLine'
  BY <1>1 DEF IInv, HeldIsUnsettled, Begun, BudgetFollowsLine, orderVars, giftVars
<1> QED
  BY <1>2, <1>3, <1>4, <1>5 DEF IInv

LEMMA WriteTypes ==
    ASSUME NEW w \in Writes
    PROVE  w.status \in Switched /\ w.cap \in Nat /\ w.currency \in Currencies
BY FreeGiftsAssumption DEF Writes

LEMMA ProgramStepInv ==
    ASSUME IInv, ProgramStep
    PROVE  IInv'
<1>0. program \in [status : ProgramStatuses, cap : Nat, held : Nat, spent : Nat,
                   currency : Currencies] /\ Committed \in Nat /\ Committed <= program.cap
  BY DEF IInv, TypeOK, StatusBacked, Committed
<1>1. ASSUME NEW w \in Writes, UpsertProgram(w) PROVE IInv'
  <2>1. TypeOK' /\ NothingCommitted'
    BY <1>1, WriteTypes DEF UpsertProgram, IInv, TypeOK, ProgramStatuses, Switched, orderVars,
       giftVars, history, NothingCommitted
  <2> QED
    BY <1>0, <1>1, <2>1, ProgramKeeps, WriteTypes DEF UpsertProgram
<1>2. ASSUME NEW w \in Writes, FirstWrite(w) PROVE IInv'
  <2>1. TypeOK' /\ NothingCommitted'
    BY <1>2 DEF FirstWrite, IInv, TypeOK, orderVars, giftVars, history, NothingCommitted, Committed
  <2> QED
    BY <1>0, <1>2, <2>1, ProgramKeeps DEF FirstWrite
<1>3. ASSUME NEW w \in Writes, InsertProgram(w) PROVE IInv'
  <2>1. CASE program.status = "not_set"
    <3>1. program' = [status |-> w.status, cap |-> w.cap, held |-> 0, spent |-> 0,
                      currency |-> w.currency]
      BY <1>3, <2>1 DEF InsertProgram, Switched
    <3>2. program.held = 0 /\ program.spent = 0
      BY <1>0, <2>1 DEF IInv, NothingCommitted, Committed
    <3>3. TypeOK' /\ NothingCommitted'
      BY <1>3, <3>1, WriteTypes DEF InsertProgram, IInv, TypeOK, ProgramStatuses, Switched,
         orderVars, giftVars, history, NothingCommitted
    <3> QED
      BY <1>0, <1>3, <3>1, <3>2, <3>3, ProgramKeeps, WriteTypes DEF InsertProgram, Committed
  <2>2. CASE program.status \in Switched /\ Committed <= w.cap
    <3>1. program' = [program EXCEPT !.status = w.status, !.cap = w.cap]
      BY <1>3, <2>2 DEF InsertProgram, Switched
    <3>2. TypeOK' /\ NothingCommitted'
      BY <1>3, <2>2, <3>1, WriteTypes DEF InsertProgram, IInv, TypeOK, ProgramStatuses, Switched,
         orderVars, giftVars, history, NothingCommitted
    <3> QED
      BY <1>0, <1>3, <2>2, <3>1, <3>2, ProgramKeeps, WriteTypes DEF InsertProgram
  <2>3. CASE program.status # "not_set" /\ ~(program.status \in Switched /\ Committed <= w.cap)
    <3>1. program' = program
      BY <1>3, <2>3 DEF InsertProgram
    <3>2. TypeOK' /\ NothingCommitted'
      BY <1>3, <2>3, <3>1 DEF InsertProgram, IInv, TypeOK, orderVars, giftVars, history,
         NothingCommitted
    <3> QED
      BY <1>0, <1>3, <3>1, <3>2, ProgramKeeps DEF InsertProgram
  <2> QED
    BY <2>1, <2>2, <2>3
<1>4. ASSUME NEW st \in Switched, SetSellerProgramStatus(st) PROVE IInv'
  <2>1. TypeOK' /\ NothingCommitted'
    BY <1>4 DEF SetSellerProgramStatus, IInv, TypeOK, ProgramStatuses, Switched, orderVars,
       giftVars, history, NothingCommitted
  <2> QED
    BY <1>0, <1>4, <2>1, ProgramKeeps DEF SetSellerProgramStatus
<1>5. CASE AdminStop
  <2>1. TypeOK' /\ NothingCommitted'
    BY <1>5 DEF AdminStop, IInv, TypeOK, ProgramStatuses, orderVars, giftVars, history,
       NothingCommitted
  <2> QED
    BY <1>0, <1>5, <2>1, ProgramKeeps DEF AdminStop
<1>6. CASE AdminReadsStopped
  <2>1. TypeOK' /\ NothingCommitted'
    BY <1>6 DEF AdminReadsStopped, IInv, TypeOK, orderVars, giftVars, history, NothingCommitted
  <2> QED
    BY <1>0, <1>6, <2>1, ProgramKeeps DEF AdminReadsStopped
<1>7. CASE AdminReallow
  <2>1. TypeOK' /\ NothingCommitted'
    BY <1>7 DEF AdminReallow, IInv, TypeOK, ProgramStatuses, orderVars, giftVars, history,
       NothingCommitted
  <2> QED
    BY <1>0, <1>7, <2>1, ProgramKeeps DEF AdminReallow
<1> QED
  BY <1>1, <1>2, <1>3, <1>4, <1>5, <1>6, <1>7 DEF ProgramStep

---------------------------------------------------------------------------
(***************************************************************************)
(* Steps on the products and on the headers                                *)
(***************************************************************************)
LEMMA CapTypes ==
    ASSUME NEW cap \in GiftCaps \cup {NoCap}
    PROVE  cap \in Nat
BY FreeGiftsAssumption DEF NoCap

\* What a step on a product must leave as it is.
LEMMA ProductKeeps ==
    ASSUME IInv, UNCHANGED <<programVars, orderVars, giftVars>>,
           TypeOK', CountersBacked', NothingCounted'
    PROVE  IInv'
<1>1. InStatus("held")' = InStatus("held") /\ InStatus("spent")' = InStatus("spent") /\ Live' = Live
  BY DEF InStatus, Live, giftVars
<1>2. StatusBacked' /\ NothingCommitted'
  BY <1>1 DEF IInv, StatusBacked, NothingCommitted, Committed, programVars
<1>3. StatusRights'
  BY <1>1 DEF IInv, StatusRights, RowsOf, Rights, giftVars
<1>4. HeldIsUnsettled' /\ Begun' /\ BudgetFollowsLine'
  BY <1>1 DEF IInv, HeldIsUnsettled, Begun, BudgetFollowsLine, orderVars, giftVars
<1> QED
  BY <1>2, <1>3, <1>4 DEF IInv

LEMMA ProductStepInv ==
    ASSUME IInv, ProductStep
    PROVE  IInv'
<1>0. PICK p \in Products :
        \/ \E cap \in GiftCaps \cup {NoCap}, st \in Switched : UpsertProduct(p, cap, st)
        \/ RemoveProduct(p)
        \/ \E f \in Forms : UpsertInventory(p, f)
  BY DEF ProductStep
<1>1. /\ offer \in [Products -> [status : {"none"} \cup Switched, cap : Nat, count : Nat]]
      /\ stock \in [Products -> [available : Nat, reserved : Nat]]
      /\ removed \in SUBSET Products /\ rewritten \in SUBSET Products
  BY DEF IInv, TypeOK
<1>2. (UNCHANGED budget) => \A q \in Products :
        /\ (OfProduct(q) \cap Live)' = OfProduct(q) \cap Live
        /\ (OfProduct(q) \cap InStatus("held"))' = OfProduct(q) \cap InStatus("held")
  BY DEF OfProduct, Live, InStatus
<1>3. ASSUME NEW cap \in GiftCaps \cup {NoCap}, NEW st \in Switched, UpsertProduct(p, cap, st)
      PROVE  IInv'
  <2>1. UNCHANGED <<programVars, stock, orderVars, giftVars, history>>
    BY <1>3 DEF UpsertProduct
  <2>2. offer' \in [Products -> [status : {"none"} \cup Switched, cap : Nat, count : Nat]]
    BY <1>1, <1>3, CapTypes DEF UpsertProduct
  <2>3. \A q \in Products : /\ offer'[q].count = offer[q].count
                            /\ q # p => offer'[q] = offer[q]
    BY <1>1, <1>3 DEF UpsertProduct
  <2>4. /\ offer'[p].status = st /\ offer'[p].cap = cap
        /\ cap = NoCap \/ offer[p].count <= cap
    BY <1>1, <1>3 DEF UpsertProduct
  <2>5. TypeOK'
    BY <2>1, <2>2 DEF IInv, TypeOK, programVars, orderVars, giftVars, history
  <2>6. NothingCounted'
    BY <2>3, <2>4 DEF IInv, NothingCounted, Switched
  <2>7. \A q \in Products : q \notin removed =>
          offer'[q].cap = NoCap \/ offer'[q].count <= offer'[q].cap
    BY <2>3, <2>4 DEF IInv, CountersBacked
  <2>8. CountersBacked'
    BY <1>2, <2>1, <2>3, <2>7 DEF IInv, CountersBacked, giftVars, history
  <2> QED
    BY <2>1, <2>5, <2>6, <2>8, ProductKeeps
<1>4. CASE RemoveProduct(p)
  <2>1. /\ offer' = [offer EXCEPT ![p] = NotOffered] /\ removed' = removed \cup {p}
        /\ UNCHANGED <<programVars, stock, orderVars, giftVars, rewritten>>
    BY <1>4 DEF RemoveProduct
  <2>2. TypeOK'
    BY <1>1, <2>1 DEF IInv, TypeOK, programVars, orderVars, giftVars, NotOffered, NoCap
  <2>3. NothingCounted'
    BY <1>1, <2>1 DEF IInv, NothingCounted, NotOffered
  <2>4. \A q \in Products : q \notin removed' => q \notin removed /\ offer'[q] = offer[q]
    BY <1>1, <2>1
  <2>5. CountersBacked'
    BY <1>2, <2>1, <2>4 DEF IInv, CountersBacked, giftVars
  <2> QED
    BY <2>1, <2>2, <2>3, <2>5, ProductKeeps
<1>5. ASSUME NEW f \in Forms, UpsertInventory(p, f) PROVE IInv'
  <2>1. /\ stock' = [stock EXCEPT ![p] = [available |-> f[1], reserved |-> f[2]]]
        /\ rewritten' = IF f[2] = stock[p].reserved THEN rewritten ELSE rewritten \cup {p}
        /\ UNCHANGED <<programVars, offer, orderVars, giftVars, removed>>
    BY <1>5 DEF UpsertInventory
  <2>2. f[1] \in Nat /\ f[2] \in Nat
    BY FreeGiftsAssumption
  <2>3. TypeOK'
    BY <1>1, <2>1, <2>2 DEF IInv, TypeOK, programVars, orderVars, giftVars
  <2>4. NothingCounted'
    BY <2>1 DEF IInv, NothingCounted
  <2>5. \A q \in Products : q \notin rewritten' =>
          q \notin rewritten /\ stock'[q].reserved = stock[q].reserved
    BY <1>1, <2>1
  <2>6. CountersBacked'
    BY <1>2, <2>1, <2>5 DEF IInv, CountersBacked, giftVars
  <2> QED
    BY <2>1, <2>3, <2>4, <2>6, ProductKeeps
<1> QED
  BY <1>0, <1>3, <1>4, <1>5

\* What a step on the header and the line must leave as it is.
LEMMA OrderKeeps ==
    ASSUME IInv, UNCHANGED <<programVars, offer, stock, giftVars, history>>,
           TypeOK', HeldIsUnsettled', Begun', BudgetFollowsLine'
    PROVE  IInv'
<1>1. InStatus("held")' = InStatus("held") /\ InStatus("spent")' = InStatus("spent") /\ Live' = Live
  BY DEF InStatus, Live, giftVars
<1>2. StatusBacked' /\ NothingCommitted'
  BY <1>1 DEF IInv, StatusBacked, NothingCommitted, Committed, programVars
<1>3. StatusRights'
  BY <1>1 DEF IInv, StatusRights, RowsOf, Rights, giftVars
<1>4. CountersBacked' /\ NothingCounted'
  BY <1>1 DEF IInv, CountersBacked, NothingCounted, OfProduct, history
<1> QED
  BY <1>2, <1>3, <1>4 DEF IInv

LEMMA HeaderStepInv ==
    ASSUME IInv, NEW g \in Gifts,
           \/ MarkCheckoutPaid(g) \/ ApplyRefund(g) \/ AcceptItemForSeller(g)
           \/ RefreshOrderStatus(g) \/ StartLocalDelivery(g)
           \/ DispatchSellerManagedItems(g)
    PROVE  IInv'
<1>0. /\ order \in [Gifts -> OrderStatuses] /\ line \in [Gifts -> LineStatuses]
      /\ checked \in SUBSET Gifts
      /\ UNCHANGED <<programVars, offer, stock, giftVars, history>>
  BY DEF IInv, TypeOK, MarkCheckoutPaid, ApplyRefund, HeaderOnly, AcceptItemForSeller,
     RefreshOrderStatus, StartLocalDelivery, DispatchSellerManagedItems
<1>1. /\ order' \in [Gifts -> OrderStatuses] /\ line' \in [Gifts -> LineStatuses]
      /\ checked' \in SUBSET Gifts
  BY <1>0 DEF MarkCheckoutPaid, ApplyRefund, HeaderOnly, AcceptItemForSeller,
     RefreshOrderStatus, StartLocalDelivery, DispatchSellerManagedItems, OrderStatuses, LineStatuses
<1>2. TypeOK'
  BY <1>0, <1>1 DEF IInv, TypeOK, programVars, giftVars, history
<1>3. \A h \in Gifts :
        \/ order'[h] = order[h]
        \/ order[h] # "none" /\ order'[h] \in {"paid", "refunded", "accepted", "dispatched"}
  BY <1>0 DEF MarkCheckoutPaid, ApplyRefund, HeaderOnly, AcceptItemForSeller,
     RefreshOrderStatus, StartLocalDelivery, DispatchSellerManagedItems
<1>4. \A h \in Gifts : line'[h] # "none" \/ h \in checked' => line[h] # "none" \/ h \in checked
  BY <1>0 DEF MarkCheckoutPaid, ApplyRefund, HeaderOnly, AcceptItemForSeller,
     RefreshOrderStatus, StartLocalDelivery, DispatchSellerManagedItems
<1>5. HeldIsUnsettled'
  BY <1>0, <1>3 DEF IInv, HeldIsUnsettled, Begun, InStatus, giftVars
<1>6. Begun'
  BY <1>0, <1>3, <1>4 DEF IInv, Begun, giftVars
<1>7. BudgetFollowsLine'
  BY <1>0 DEF IInv, Begun, BudgetFollowsLine, giftVars, MarkCheckoutPaid, ApplyRefund, HeaderOnly,
     AcceptItemForSeller, RefreshOrderStatus, StartLocalDelivery, DispatchSellerManagedItems
<1> QED
  BY <1>0, <1>2, <1>5, <1>6, <1>7, OrderKeeps

---------------------------------------------------------------------------
(***************************************************************************)
(* Sending, cancelling and delivering                                      *)
(***************************************************************************)

\* The sets of gifts after the budget of one changed.
LEMMA StatusMoves ==
    ASSUME IInv, NEW g \in Gifts, NEW b \in BudgetStatuses, budget' = [budget EXCEPT ![g] = b]
    PROVE  /\ InStatus("held")' = IF b = "held" THEN InStatus("held") \cup {g}
                                                ELSE InStatus("held") \ {g}
           /\ InStatus("spent")' = IF b = "spent" THEN InStatus("spent") \cup {g}
                                                  ELSE InStatus("spent") \ {g}
           /\ Live' = IF b \in {"held", "spent"} THEN Live \cup {g} ELSE Live \ {g}
<1>1. budget \in [Gifts -> BudgetStatuses]
  BY DEF IInv, TypeOK
<1>2. \A h \in Gifts : budget'[h] = IF h = g THEN b ELSE budget[h]
  BY <1>1
<1> QED
  BY <1>2 DEF InStatus, Live

\* A used right is a pair of a role and a key, and belongs to a gift.
LEMMA RightsUsed ==
    ASSUME IInv, NEW h \in Live
    PROVE  Rights(h) \subseteq UsedRights
<1> SUFFICES ASSUME NEW r \in Rights(h) PROVE r \in UsedRights
  OBVIOUS
<1>1. r = <<r[1], r[2]>>
  BY DEF Rights
<1>2. <<r[1], r[2], h>> \in RowsOf(h)
  BY DEF RowsOf
<1>3. <<r[1], r[2], h>> \in claims
  BY <1>2 DEF IInv, StatusRights
<1>4. PICK c \in claims : c = <<r[1], r[2], h>>
  BY <1>3
<1>5. <<c[1], c[2]>> \in UsedRights
  BY DEF UsedRights
<1> QED
  BY <1>1, <1>4, <1>5

LEMMA RowsType ==
    ASSUME NEW g \in Gifts
    PROVE  RowsOf(g) \subseteq {"send", "receive"} \X Keys \X Gifts
<1>1. SendKeys[g] \subseteq Keys /\ ReceiveKeys[g] \subseteq Keys
  BY FreeGiftsAssumption
<1>2. \A r \in Rights(g) : <<r[1], r[2], g>> \in {"send", "receive"} \X Keys \X Gifts
  BY <1>1 DEF Rights
<1>3. \A c \in RowsOf(g) : \E r \in Rights(g) : c = <<r[1], r[2], g>>
  BY DEF RowsOf
<1> QED
  BY <1>2, <1>3

\* A set is the rows of some gifts when its elements are theirs.
LEMMA RowsOfMany ==
    ASSUME NEW S, NEW X
    PROVE  X = UNION {RowsOf(h) : h \in S} <=> \A c : c \in X <=> \E h \in S : c \in RowsOf(h)
<1> DEFINE U == UNION {RowsOf(h) : h \in S}
<1>1. \A c : c \in U <=> \E h \in S : c \in RowsOf(h)
  OBVIOUS
<1>2. X = U <=> \A c : c \in X <=> c \in U
  <2> HIDE DEF U
  <2> QED
    OBVIOUS
<1> QED
  BY <1>1, <1>2

LEMMA SendInv ==
    ASSUME IInv, NEW g \in Gifts, Send(g)
    PROVE  IInv'
<1> PICK p \in Products : p = Item[g]
  BY FreeGiftsAssumption
<1>1. /\ offer \in [Products -> [status : {"none"} \cup Switched, cap : Nat, count : Nat]]
      /\ stock \in [Products -> [available : Nat, reserved : Nat]]
      /\ program \in [status : ProgramStatuses, cap : Nat, held : Nat, spent : Nat,
                      currency : Currencies]
      /\ order \in [Gifts -> OrderStatuses] /\ line \in [Gifts -> LineStatuses]
      /\ budget \in [Gifts -> BudgetStatuses] /\ Cost[{g}] \in Nat
  BY CostNat, {g} \in SUBSET Gifts DEF IInv, TypeOK
<1>2. /\ budget[g] = "none" /\ g \notin Live /\ g \notin InStatus("held")
      /\ budget' = [budget EXCEPT ![g] = "held"]
  BY <1>1 DEF Send, CreateOrder, IInv, Begun, Live, InStatus
<1>3. /\ InStatus("held")' = InStatus("held") \cup {g} /\ InStatus("spent")' = InStatus("spent")
      /\ Live' = Live \cup {g}
  <2>1. "held" \in BudgetStatuses
    BY DEF BudgetStatuses
  <2>2. g \notin InStatus("spent") /\ InStatus("spent") \ {g} = InStatus("spent")
    BY <1>2 DEF Live
  <2>3. /\ InStatus("held")' = InStatus("held") \cup {g}
        /\ InStatus("spent")' = InStatus("spent") \ {g}
        /\ Live' = Live \cup {g}
    BY <1>2, <2>1, StatusMoves
  <2> QED
    BY <2>2, <2>3
<1>4. /\ program' = [program EXCEPT !.held = @ + Cost[{g}]]
      /\ program.status = "active" /\ program.currency = CurrencyOf[g]
      /\ Committed + Cost[{g}] <= program.cap
  BY DEF Send, CreateOrder, holdBudget
<1>5. StatusBacked'
  <2>1. /\ Cost[InStatus("held") \cup {g}] = Cost[InStatus("held")] + Cost[{g}]
    BY <1>2, CostAdd, InStatus("held") \in SUBSET Gifts DEF InStatus
  <2>2. /\ program'.held = program.held + Cost[{g}] /\ program'.spent = program.spent
        /\ program'.cap = program.cap /\ program'.currency = program.currency
    BY <1>1, <1>4
  <2>3. Committed' <= program'.cap
    BY <1>1, <1>4, <2>2 DEF Committed
  <2>4. \A h \in Live \cup {g} : Cost[{h}] > 0 => CurrencyOf[h] = program'.currency
    BY <1>4, <2>2 DEF IInv, StatusBacked
  <2> QED
    BY <1>3, <2>1, <2>2, <2>3, <2>4 DEF IInv, StatusBacked
<1>6. StatusRights'
  <2>1. claims' = claims \cup RowsOf(g) /\ Rights(g) \cap UsedRights = {}
    BY DEF Send, CreateOrder, useClaims
  <2>2. claims' = UNION {RowsOf(h) : h \in Live \cup {g}}
    <3>1. \A c : c \in claims <=> \E h \in Live : c \in RowsOf(h)
      BY RowsOfMany DEF IInv, StatusRights
    <3>2. \A c : c \in claims' <=> \E h \in Live \cup {g} : c \in RowsOf(h)
      BY <2>1, <3>1
    <3> QED
      BY <3>2, RowsOfMany
  <2>3. \A h \in Live : Rights(h) \cap Rights(g) = {}
    BY <2>1, RightsUsed
  <2>4. \A h, k \in Live \cup {g} : h # k => Rights(h) \cap Rights(k) = {}
    BY <2>3 DEF IInv, StatusRights
  <2> QED
    BY <1>3, <2>2, <2>4 DEF StatusRights, RowsOf, Rights
<1>7. /\ \A q \in Products : q # p => offer'[q] = offer[q] /\ stock'[q] = stock[q]
      /\ offer'[p].cap = offer[p].cap /\ offer'[p].status = offer[p].status
      /\ offer[p].status = "active" /\ offer'[p].count = offer[p].count + 1
      /\ stock'[p].reserved = stock[p].reserved + 1
      /\ offer[p].cap = NoCap \/ offer[p].count < offer[p].cap
      /\ offer' \in [Products -> [status : {"none"} \cup Switched, cap : Nat, count : Nat]]
      /\ stock' \in [Products -> [available : Nat, reserved : Nat]]
  BY <1>1 DEF Send, CreateOrder, takeGift, reserveStock
<1>8. /\ \A q \in Products : q # p =>
           /\ (OfProduct(q) \cap Live)' = OfProduct(q) \cap Live
           /\ (OfProduct(q) \cap InStatus("held"))' = OfProduct(q) \cap InStatus("held")
      /\ (OfProduct(p) \cap Live)' = (OfProduct(p) \cap Live) \cup {g}
      /\ (OfProduct(p) \cap InStatus("held"))' = (OfProduct(p) \cap InStatus("held")) \cup {g}
  BY <1>3 DEF OfProduct
<1>9. CountersBacked'
  <2>1. /\ Cardinality((OfProduct(p) \cap Live) \cup {g}) = Cardinality(OfProduct(p) \cap Live) + 1
        /\ Cardinality((OfProduct(p) \cap InStatus("held")) \cup {g})
             = Cardinality(OfProduct(p) \cap InStatus("held")) + 1
    BY <1>2, SizeAdd, OfProduct(p) \cap Live \in SUBSET Gifts,
       OfProduct(p) \cap InStatus("held") \in SUBSET Gifts DEF OfProduct
  <2>2. UNCHANGED <<removed, rewritten>>
    BY DEF Send, CreateOrder, history
  <2>3. ASSUME NEW q \in Products
        PROVE  /\ q \notin removed =>
                    /\ offer'[q].count = Cardinality((OfProduct(q) \cap Live)')
                    /\ offer'[q].cap = NoCap \/ offer'[q].count <= offer'[q].cap
               /\ q \notin rewritten =>
                    stock'[q].reserved = Cardinality((OfProduct(q) \cap InStatus("held"))')
    <3>1. CASE q # p
      BY <1>7, <1>8, <3>1 DEF IInv, CountersBacked
    <3>2. CASE q = p
      <4>1. q \notin removed => offer[q].count = Cardinality(OfProduct(q) \cap Live)
        BY DEF IInv, CountersBacked
      <4>2. q \notin rewritten =>
              stock[q].reserved = Cardinality(OfProduct(q) \cap InStatus("held"))
        BY DEF IInv, CountersBacked
      <4>3. offer'[q].cap = NoCap \/ offer'[q].count <= offer'[q].cap
        <5>1. offer[p].count \in Nat /\ offer[p].cap \in Nat
          BY <1>1
        <5>2. offer'[p].cap = offer[p].cap
          BY <1>7
        <5> QED
          BY <1>7, <3>2, <5>1, <5>2
      <4>4. q \notin removed => offer'[q].count = Cardinality((OfProduct(q) \cap Live)')
        BY <1>7, <1>8, <2>1, <3>2, <4>1
      <4>5. q \notin rewritten =>
              stock'[q].reserved = Cardinality((OfProduct(q) \cap InStatus("held"))')
        BY <1>7, <1>8, <2>1, <3>2, <4>2
      <4> QED
        BY <4>3, <4>4, <4>5
    <3> QED
      BY <3>1, <3>2
  <2> QED
    BY <2>2, <2>3 DEF CountersBacked
<1>10. TypeOK'
  <2>1. program' \in [status : ProgramStatuses, cap : Nat, held : Nat, spent : Nat,
                      currency : Currencies]
    <3>1. program.held + Cost[{g}] \in Nat
      BY <1>1
    <3>2. program' = [program EXCEPT !.held = program.held + Cost[{g}]]
      BY <1>4
    <3> QED
      BY <1>1, <3>1, <3>2
  <2>2. /\ order' \in [Gifts -> OrderStatuses] /\ line' \in [Gifts -> LineStatuses]
        /\ budget' \in [Gifts -> BudgetStatuses]
    BY <1>1 DEF Send, CreateOrder, OrderStatuses, LineStatuses, BudgetStatuses
  <2>3. claims' \in SUBSET ({"send", "receive"} \X Keys \X Gifts)
    BY RowsType DEF Send, CreateOrder, useClaims, IInv, TypeOK
  <2>4. UNCHANGED <<opening, reallow, checked, removed, rewritten>>
    BY DEF Send, CreateOrder, history
  <2>5. /\ opening \in SUBSET Writes /\ reallow \in BOOLEAN /\ checked \in SUBSET Gifts
        /\ removed \in SUBSET Products /\ rewritten \in SUBSET Products
    BY DEF IInv, TypeOK
  <2>6. /\ opening' \in SUBSET Writes /\ reallow' \in BOOLEAN /\ checked' \in SUBSET Gifts
        /\ removed' \in SUBSET Products /\ rewritten' \in SUBSET Products
    BY <2>4, <2>5, Writes' = Writes, Zenon
  <2> QED
    BY <1>7, <2>1, <2>2, <2>3, <2>6 DEF TypeOK
<1>11. HeldIsUnsettled' /\ Begun' /\ BudgetFollowsLine'
  <2>1. /\ \A h \in Gifts : h # g => /\ order'[h] = order[h] /\ budget'[h] = budget[h]
                                      /\ line'[h] = line[h]
        /\ checked' = checked
    BY <1>1, <1>2 DEF Send, CreateOrder
  <2>2. /\ order'[g] \in {"pending_payment", "confirmed"} /\ budget'[g] = "held"
        /\ line'[g] = "pending" /\ g \notin checked
    BY <1>1, <1>2 DEF Send, CreateOrder, IInv, Begun
  <2>3. BudgetFollowsLine'
    BY <2>1, <2>2 DEF IInv, BudgetFollowsLine
  <2> QED
    BY <1>3, <2>1, <2>2, <2>3 DEF IInv, HeldIsUnsettled, Begun, InStatus
<1>12. NothingCommitted' /\ NothingCounted'
  <2>1. program'.status = "active"
    BY <1>1, <1>4
  <2>2. ASSUME NEW q \in Products, offer'[q].status = "none" PROVE offer'[q].count = 0
    <3>1. q # p
      BY <1>7, <2>2
    <3>2. offer'[q] = offer[q]
      BY <1>7, <3>1
    <3> QED
      BY <2>2, <3>2 DEF IInv, NothingCounted
  <2> QED
    BY <2>1, <2>2 DEF NothingCommitted, NothingCounted
<1> QED
  BY <1>5, <1>6, <1>9, <1>10, <1>11, <1>12 DEF IInv

\* A step on a gift whose budget is not held moves no money and no counter.
LEMMA NotHeld ==
    ASSUME IInv, NEW g \in Gifts, budget[g] # "held", order[g] # "none",
           NEW st \in {"cancelled", "delivered"},
           line[g] = "dispatched" \/ line[g] = "delivered" => st = "delivered",
           st = "delivered" => line[g] # "cancelled",
           order' = [order EXCEPT ![g] = st], line' = [line EXCEPT ![g] = st],
           UNCHANGED <<programVars, offer, stock, checked, giftVars, history>>
    PROVE  IInv'
<1>1. order \in [Gifts -> OrderStatuses] /\ line \in [Gifts -> LineStatuses]
  BY DEF IInv, TypeOK
<1>2. order' \in [Gifts -> OrderStatuses] /\ line' \in [Gifts -> LineStatuses]
  BY <1>1 DEF OrderStatuses, LineStatuses
<1>3. TypeOK'
  BY <1>2 DEF IInv, TypeOK, programVars, giftVars, history
<1>4. \A h \in Gifts : /\ h # g => order'[h] = order[h] /\ line'[h] = line[h]
                       /\ h = g => order'[h] = st
  BY <1>1
<1>5. HeldIsUnsettled'
  BY <1>4 DEF IInv, HeldIsUnsettled, InStatus, giftVars
<1>6. Begun'
  BY <1>4 DEF IInv, Begun, giftVars
<1>7. BudgetFollowsLine'
  <2>1. /\ budget[g] = "released" \/ (budget[g] = "spent" /\ st = "delivered")
        /\ line'[g] = st
    BY <1>1 DEF IInv, TypeOK, BudgetStatuses, Begun, BudgetFollowsLine
  <2> QED
    BY <1>4, <2>1 DEF IInv, BudgetFollowsLine, giftVars
<1> QED
  BY <1>3, <1>5, <1>6, <1>7, OrderKeeps

\* What the sets of a held gift's product lose with it.
LEMMA HeldGift ==
    ASSUME IInv, NEW g \in Gifts, budget[g] = "held", NEW p \in Products, p = Item[g]
    PROVE  /\ g \in InStatus("held") /\ g \notin InStatus("spent")
           /\ program.held >= Cost[{g}] /\ program.held \in Nat /\ Cost[{g}] \in Nat
           /\ Cost[InStatus("held") \ {g}] = program.held - Cost[{g}]
           /\ p \notin removed =>
                /\ offer[p].count >= 1 /\ offer[p].status # "none"
                /\ Cardinality((OfProduct(p) \cap Live) \ {g}) = offer[p].count - 1
           /\ p \notin rewritten =>
                /\ stock[p].reserved >= 1
                /\ Cardinality((OfProduct(p) \cap InStatus("held")) \ {g}) = stock[p].reserved - 1
<1>1. g \in InStatus("held") /\ g \notin InStatus("spent")
  BY DEF InStatus
<1>2. /\ Cost[InStatus("held") \ {g}] = Cost[InStatus("held")] - Cost[{g}]
      /\ Cost[{g}] <= Cost[InStatus("held")]
  BY <1>1, CostRemove, InStatus("held") \in SUBSET Gifts DEF InStatus
<1>3. /\ program.held = Cost[InStatus("held")] /\ program.held \in Nat /\ Cost[{g}] \in Nat
  BY CostNat, {g} \in SUBSET Gifts DEF IInv, StatusBacked, TypeOK
<1>4. /\ g \in OfProduct(p) \cap Live /\ g \in OfProduct(p) \cap InStatus("held")
      /\ OfProduct(p) \cap Live \in SUBSET Gifts
      /\ OfProduct(p) \cap InStatus("held") \in SUBSET Gifts
  BY <1>1 DEF OfProduct, Live
<1>5. ASSUME p \notin removed
      PROVE  /\ offer[p].count >= 1 /\ offer[p].status # "none"
             /\ Cardinality((OfProduct(p) \cap Live) \ {g}) = offer[p].count - 1
  <2>1. offer[p].count = Cardinality(OfProduct(p) \cap Live)
    BY <1>5 DEF IInv, CountersBacked
  <2>2. /\ Cardinality(OfProduct(p) \cap Live) >= 1
        /\ Cardinality((OfProduct(p) \cap Live) \ {g}) = Cardinality(OfProduct(p) \cap Live) - 1
    BY <1>4, SizeRemove
  <2>3. offer[p].count # 0
    BY <2>1, <2>2
  <2> QED
    BY <2>1, <2>2, <2>3 DEF IInv, NothingCounted
<1>6. ASSUME p \notin rewritten
      PROVE  /\ stock[p].reserved >= 1
             /\ Cardinality((OfProduct(p) \cap InStatus("held")) \ {g}) = stock[p].reserved - 1
  <2>1. stock[p].reserved = Cardinality(OfProduct(p) \cap InStatus("held"))
    BY <1>6 DEF IInv, CountersBacked
  <2> QED
    BY <1>4, <2>1, SizeRemove
<1> QED
  BY <1>1, <1>2, <1>3, <1>5, <1>6

LEMMA CancelInv ==
    ASSUME IInv, NEW g \in Gifts, CancelForCustomer(g)
    PROVE  IInv'
<1> PICK p \in Products : p = Item[g]
  BY FreeGiftsAssumption
<1>1. /\ offer \in [Products -> [status : {"none"} \cup Switched, cap : Nat, count : Nat]]
      /\ stock \in [Products -> [available : Nat, reserved : Nat]]
      /\ program \in [status : ProgramStatuses, cap : Nat, held : Nat, spent : Nat,
                      currency : Currencies]
      /\ order \in [Gifts -> OrderStatuses] /\ line \in [Gifts -> LineStatuses]
      /\ budget \in [Gifts -> BudgetStatuses]
  BY DEF IInv, TypeOK
<1>2. /\ order[g] # "none" /\ order' = [order EXCEPT ![g] = "cancelled"]
      /\ line' = [line EXCEPT ![g] = "cancelled"]
      /\ UNCHANGED <<opening, reallow, checked, removed, rewritten>>
  BY DEF CancelForCustomer, Cancellable, history
<1>3. CASE budget[g] # "held"
  <2>1. UNCHANGED <<programVars, offer, stock, checked, giftVars, history>>
    BY <1>2, <1>3 DEF CancelForCustomer, programVars, history
  <2>2. line[g] \notin {"dispatched", "delivered"}
    BY DEF CancelForCustomer, Cancellable
  <2> QED
    BY <1>2, <1>3, <2>1, <2>2, NotHeld
<1>4. CASE budget[g] = "held"
  <2>1. /\ budget' = [budget EXCEPT ![g] = "released"]
        /\ program' = [program EXCEPT !.held = AtLeast0(program.held, Cost[{g}])]
        /\ stock' = [stock EXCEPT ![p].reserved = AtLeast0(@, 1)]
        /\ claims' = claims \ RowsOf(g)
        /\ offer' = IF offer[p].status = "none" THEN offer
                    ELSE [offer EXCEPT ![p].count = AtLeast0(@, 1)]
    BY <1>4 DEF CancelForCustomer, releaseFreeGift
  <2>2. /\ g \in InStatus("held") /\ g \notin InStatus("spent")
        /\ program.held >= Cost[{g}] /\ program.held \in Nat /\ Cost[{g}] \in Nat
        /\ Cost[InStatus("held") \ {g}] = program.held - Cost[{g}]
    BY <1>4, HeldGift
  <2>3. /\ InStatus("held")' = InStatus("held") \ {g} /\ InStatus("spent")' = InStatus("spent")
        /\ Live' = Live \ {g}
    <3>1. "released" \in BudgetStatuses
      BY DEF BudgetStatuses
    <3>2. /\ InStatus("held")' = InStatus("held") \ {g}
          /\ InStatus("spent")' = InStatus("spent") \ {g} /\ Live' = Live \ {g}
      BY <2>1, <3>1, StatusMoves
    <3>3. InStatus("spent") \ {g} = InStatus("spent")
      BY <2>2
    <3> QED
      BY <3>2, <3>3
  <2>4. /\ program'.held = program.held - Cost[{g}] /\ program'.spent = program.spent
        /\ program'.cap = program.cap /\ program'.currency = program.currency
        /\ program'.status = program.status
        /\ program' \in [status : ProgramStatuses, cap : Nat, held : Nat, spent : Nat,
                          currency : Currencies]
    <3>1. AtLeast0(program.held, Cost[{g}]) = program.held - Cost[{g}]
      BY <2>2, Floor
    <3>2. program.held - Cost[{g}] \in Nat
      BY <2>2
    <3> QED
      BY <1>1, <2>1, <3>1, <3>2
  <2>5. StatusBacked'
    <3>1. Committed' <= program'.cap
      BY <1>1, <2>2, <2>4 DEF Committed, IInv, StatusBacked
    <3>2. \A h \in Live \ {g} : Cost[{h}] > 0 => CurrencyOf[h] = program'.currency
      BY <2>4 DEF IInv, StatusBacked
    <3> QED
      BY <2>2, <2>3, <2>4, <3>1, <3>2 DEF IInv, StatusBacked
  <2>6. StatusRights'
    <3>1. \A c : c \in claims <=> \E h \in Live : c \in RowsOf(h)
      BY RowsOfMany DEF IInv, StatusRights
    <3>2. ASSUME NEW h \in Gifts, NEW c \in RowsOf(h) PROVE c[3] = h
      BY DEF RowsOf
    <3>3. \A c : c \in claims' <=> \E h \in Live \ {g} : c \in RowsOf(h)
      BY <2>1, <3>1, <3>2 DEF Live, InStatus
    <3>4. claims' = UNION {RowsOf(h) : h \in Live \ {g}}
      BY <3>3, RowsOfMany
    <3> QED
      BY <2>3, <3>4 DEF IInv, StatusRights, RowsOf, Rights
  <2>7. /\ offer'[p].cap = offer[p].cap /\ offer'[p].status = offer[p].status
        /\ offer[p].status = "none" => offer'[p].count = offer[p].count
        /\ offer[p].status # "none" => offer'[p].count = AtLeast0(offer[p].count, 1)
        /\ stock'[p].reserved = AtLeast0(stock[p].reserved, 1)
        /\ \A q \in Products : q # p => offer'[q] = offer[q] /\ stock'[q] = stock[q]
    BY <1>1, <2>1
  <2>8. /\ offer' \in [Products -> [status : {"none"} \cup Switched, cap : Nat, count : Nat]]
        /\ stock' \in [Products -> [available : Nat, reserved : Nat]]
    <3>1. AtLeast0(offer[p].count, 1) \in Nat /\ AtLeast0(stock[p].reserved, 1) \in Nat
      BY <1>1, Floor
    <3> QED
      BY <1>1, <2>1, <3>1
  <2>9. CountersBacked'
    <3>1. /\ \A q \in Products : q # p =>
               /\ (OfProduct(q) \cap Live)' = OfProduct(q) \cap Live
               /\ (OfProduct(q) \cap InStatus("held"))' = OfProduct(q) \cap InStatus("held")
          /\ (OfProduct(p) \cap Live)' = (OfProduct(p) \cap Live) \ {g}
          /\ (OfProduct(p) \cap InStatus("held"))' = (OfProduct(p) \cap InStatus("held")) \ {g}
      BY <2>3 DEF OfProduct
    <3>2. offer[p].count \in Nat /\ offer[p].cap \in Nat /\ stock[p].reserved \in Nat
      BY <1>1
    <3>3. ASSUME p \notin removed
          PROVE  /\ offer'[p].count = Cardinality((OfProduct(p) \cap Live)')
                 /\ offer'[p].cap = NoCap \/ offer'[p].count <= offer'[p].cap
      <4>1. /\ offer[p].count >= 1 /\ offer[p].status # "none"
            /\ Cardinality((OfProduct(p) \cap Live) \ {g}) = offer[p].count - 1
        BY <1>4, <3>3, HeldGift
      <4>2. offer'[p].count = offer[p].count - 1
        BY <2>7, <3>2, <4>1, Floor
      <4>3. offer[p].cap = NoCap \/ offer[p].count <= offer[p].cap
        BY <3>3 DEF IInv, CountersBacked
      <4>4. offer'[p].cap = NoCap \/ offer'[p].count <= offer'[p].cap
        BY <2>7, <3>2, <4>2, <4>3
      <4> QED
        BY <3>1, <4>1, <4>2, <4>4
    <3>4. ASSUME p \notin rewritten
          PROVE  stock'[p].reserved = Cardinality((OfProduct(p) \cap InStatus("held"))')
      <4>1. /\ stock[p].reserved >= 1
            /\ Cardinality((OfProduct(p) \cap InStatus("held")) \ {g}) = stock[p].reserved - 1
        BY <1>4, <3>4, HeldGift
      <4>2. stock'[p].reserved = stock[p].reserved - 1
        BY <2>7, <3>2, <4>1, Floor
      <4> QED
        BY <3>1, <4>1, <4>2
    <3>5. ASSUME NEW q \in Products, q # p
          PROVE  /\ q \notin removed =>
                      /\ offer'[q].count = Cardinality((OfProduct(q) \cap Live)')
                      /\ offer'[q].cap = NoCap \/ offer'[q].count <= offer'[q].cap
                 /\ q \notin rewritten =>
                      stock'[q].reserved = Cardinality((OfProduct(q) \cap InStatus("held"))')
      BY <2>7, <3>1, <3>5 DEF IInv, CountersBacked
    <3> QED
      BY <1>2, <3>3, <3>4, <3>5 DEF CountersBacked
  <2>10. TypeOK'
    <3>1. /\ order' \in [Gifts -> OrderStatuses] /\ line' \in [Gifts -> LineStatuses]
          /\ budget' \in [Gifts -> BudgetStatuses]
      BY <1>1, <1>2, <2>1 DEF OrderStatuses, LineStatuses, BudgetStatuses
    <3>2. /\ opening \in SUBSET Writes /\ reallow \in BOOLEAN /\ checked \in SUBSET Gifts
          /\ removed \in SUBSET Products /\ rewritten \in SUBSET Products
          /\ claims \in SUBSET ({"send", "receive"} \X Keys \X Gifts)
      BY DEF IInv, TypeOK
    <3>3. claims' \in SUBSET ({"send", "receive"} \X Keys \X Gifts)
      BY <2>1, <3>2
    <3> QED
      BY <1>2, <2>4, <2>8, <3>1, <3>2, <3>3 DEF TypeOK, Writes
  <2>11. HeldIsUnsettled' /\ Begun' /\ BudgetFollowsLine'
    <3>1. \A h \in Gifts : h # g => /\ order'[h] = order[h] /\ budget'[h] = budget[h]
                                    /\ line'[h] = line[h]
      BY <1>1, <1>2, <2>1
    <3>2. order'[g] = "cancelled" /\ budget'[g] = "released" /\ line'[g] = "cancelled"
      BY <1>1, <1>2, <2>1
    <3>3. HeldIsUnsettled'
      BY <3>1, <3>2 DEF IInv, HeldIsUnsettled, InStatus
    <3>4. Begun'
      BY <1>2, <3>1, <3>2 DEF IInv, Begun
    <3>5. BudgetFollowsLine'
      BY <1>2, <3>1, <3>2 DEF IInv, BudgetFollowsLine, MarkDelivered
    <3> QED
      BY <3>3, <3>4, <3>5
  <2>12. NothingCommitted'
    <3>1. program.status = "not_set" => program.held = 0 /\ program.spent = 0
      BY <1>1 DEF IInv, NothingCommitted, Committed
    <3> QED
      BY <1>1, <2>2, <2>4, <3>1 DEF NothingCommitted, Committed
  <2>13. NothingCounted'
    BY <2>7 DEF IInv, NothingCounted
  <2> QED
    BY <2>5, <2>6, <2>9, <2>10, <2>11, <2>12, <2>13 DEF IInv
<1> QED
  BY <1>3, <1>4

LEMMA DeliverInv ==
    ASSUME IInv, NEW g \in Gifts, MarkDelivered(g)
    PROVE  IInv'
<1> PICK p \in Products : p = Item[g]
  BY FreeGiftsAssumption
<1>1. /\ stock \in [Products -> [available : Nat, reserved : Nat]]
      /\ program \in [status : ProgramStatuses, cap : Nat, held : Nat, spent : Nat,
                      currency : Currencies]
      /\ order \in [Gifts -> OrderStatuses] /\ line \in [Gifts -> LineStatuses]
      /\ budget \in [Gifts -> BudgetStatuses]
  BY DEF IInv, TypeOK
<1>2. /\ order[g] # "none" /\ order' = [order EXCEPT ![g] = "delivered"]
      /\ line' = [line EXCEPT ![g] = "delivered"]
      /\ UNCHANGED <<opening, reallow, offer, claims, checked, removed, rewritten>>
  BY DEF MarkDelivered, IInv, Begun, history
<1>3. CASE budget[g] # "held"
  <2>1. UNCHANGED <<programVars, offer, stock, checked, giftVars, history>>
    BY <1>2, <1>3 DEF MarkDelivered, programVars, giftVars, history
  <2>2. line[g] = "dispatched"
    BY DEF MarkDelivered
  <2> QED
    BY <1>2, <1>3, <2>1, <2>2, NotHeld
<1>4. CASE budget[g] = "held"
  <2>1. /\ budget' = [budget EXCEPT ![g] = "spent"]
        /\ program' = [program EXCEPT !.held = AtLeast0(program.held, Cost[{g}]),
                                      !.spent = program.spent + Lesser(Cost[{g}], program.held)]
        /\ stock' = [stock EXCEPT ![p] = [available |-> AtLeast0(stock[p].available, 1),
                                          reserved |-> AtLeast0(stock[p].reserved, 1)]]
    BY <1>1, <1>4 DEF MarkDelivered, spendFreeGift
  <2>2. /\ g \in InStatus("held") /\ g \notin InStatus("spent")
        /\ program.held >= Cost[{g}] /\ program.held \in Nat /\ Cost[{g}] \in Nat
        /\ Cost[InStatus("held") \ {g}] = program.held - Cost[{g}]
    BY <1>4, HeldGift
  <2>3. /\ InStatus("held")' = InStatus("held") \ {g}
        /\ InStatus("spent")' = InStatus("spent") \cup {g} /\ Live' = Live
    <3>1. "spent" \in BudgetStatuses
      BY DEF BudgetStatuses
    <3>2. /\ InStatus("held")' = InStatus("held") \ {g}
          /\ InStatus("spent")' = InStatus("spent") \cup {g} /\ Live' = Live \cup {g}
      BY <2>1, <3>1, StatusMoves
    <3>3. Live \cup {g} = Live
      BY <2>2 DEF Live
    <3> QED
      BY <3>2, <3>3
  <2>4. /\ program'.held = program.held - Cost[{g}]
        /\ program'.spent = program.spent + Cost[{g}]
        /\ program'.cap = program.cap /\ program'.currency = program.currency
        /\ program'.status = program.status
        /\ program' \in [status : ProgramStatuses, cap : Nat, held : Nat, spent : Nat,
                          currency : Currencies]
    <3>1. /\ AtLeast0(program.held, Cost[{g}]) = program.held - Cost[{g}]
          /\ Lesser(Cost[{g}], program.held) = Cost[{g}]
      BY <2>2, Floor
    <3>2. program.held - Cost[{g}] \in Nat /\ program.spent + Cost[{g}] \in Nat
      BY <1>1, <2>2
    <3> QED
      BY <1>1, <2>1, <3>1, <3>2
  <2>5. StatusBacked'
    <3>1. Committed' <= program'.cap
      BY <1>1, <2>2, <2>4 DEF Committed, IInv, StatusBacked
    <3>2. \A h \in Live : Cost[{h}] > 0 => CurrencyOf[h] = program'.currency
      BY <2>4 DEF IInv, StatusBacked
    <3>3. Cost[InStatus("spent") \cup {g}] = Cost[InStatus("spent")] + Cost[{g}]
      BY <2>2, CostAdd, InStatus("spent") \in SUBSET Gifts DEF InStatus
    <3>4. program.spent = Cost[InStatus("spent")]
      BY DEF IInv, StatusBacked
    <3> QED
      BY <2>2, <2>3, <2>4, <3>1, <3>2, <3>3, <3>4 DEF StatusBacked
  <2>6. StatusRights'
    BY <1>2, <2>3 DEF IInv, StatusRights, RowsOf, Rights
  <2>7. /\ stock'[p].reserved = AtLeast0(stock[p].reserved, 1)
        /\ \A q \in Products : q # p => stock'[q] = stock[q]
        /\ stock' \in [Products -> [available : Nat, reserved : Nat]]
    <3>1. AtLeast0(stock[p].available, 1) \in Nat /\ AtLeast0(stock[p].reserved, 1) \in Nat
      BY <1>1, Floor
    <3> QED
      BY <1>1, <2>1, <3>1
  <2>8. CountersBacked'
    <3>1. /\ \A q \in Products : q # p =>
               (OfProduct(q) \cap InStatus("held"))' = OfProduct(q) \cap InStatus("held")
          /\ (OfProduct(p) \cap InStatus("held"))' = (OfProduct(p) \cap InStatus("held")) \ {g}
          /\ \A q \in Products : (OfProduct(q) \cap Live)' = OfProduct(q) \cap Live
      BY <2>3 DEF OfProduct
    <3>2. ASSUME p \notin rewritten
          PROVE  stock'[p].reserved = Cardinality((OfProduct(p) \cap InStatus("held"))')
      <4>1. /\ stock[p].reserved >= 1 /\ stock[p].reserved \in Nat
            /\ Cardinality((OfProduct(p) \cap InStatus("held")) \ {g}) = stock[p].reserved - 1
        BY <1>1, <1>4, <3>2, HeldGift
      <4>2. stock'[p].reserved = stock[p].reserved - 1
        BY <2>7, <4>1, Floor
      <4> QED
        BY <3>1, <4>1, <4>2
    <3>3. ASSUME NEW q \in Products, q \notin rewritten
          PROVE  stock'[q].reserved = Cardinality((OfProduct(q) \cap InStatus("held"))')
      BY <2>7, <3>1, <3>2, <3>3 DEF IInv, CountersBacked
    <3>4. ASSUME NEW q \in Products, q \notin removed
          PROVE  /\ offer[q].count = Cardinality((OfProduct(q) \cap Live)')
                 /\ offer[q].cap = NoCap \/ offer[q].count <= offer[q].cap
      BY <3>1, <3>4 DEF IInv, CountersBacked
    <3> QED
      BY <1>2, <3>3, <3>4 DEF CountersBacked
  <2>9. TypeOK'
    <3>1. /\ order' \in [Gifts -> OrderStatuses] /\ line' \in [Gifts -> LineStatuses]
          /\ budget' \in [Gifts -> BudgetStatuses]
      BY <1>1, <1>2, <2>1 DEF OrderStatuses, LineStatuses, BudgetStatuses
    <3> QED
      BY <1>2, <2>4, <2>7, <3>1 DEF IInv, TypeOK, Writes
  <2>10. HeldIsUnsettled' /\ Begun' /\ BudgetFollowsLine'
    <3>1. \A h \in Gifts : h # g => /\ order'[h] = order[h] /\ budget'[h] = budget[h]
                                    /\ line'[h] = line[h]
      BY <1>1, <1>2, <2>1
    <3>2. order'[g] = "delivered" /\ budget'[g] = "spent" /\ line'[g] = "delivered"
      BY <1>1, <1>2, <2>1
    <3>3. HeldIsUnsettled'
      BY <3>1, <3>2 DEF IInv, HeldIsUnsettled, InStatus
    <3>4. Begun'
      BY <1>2, <3>1, <3>2 DEF IInv, Begun
    <3>5. BudgetFollowsLine'
      BY <1>2, <3>1, <3>2 DEF IInv, BudgetFollowsLine, MarkDelivered
    <3> QED
      BY <3>3, <3>4, <3>5
  <2>11. NothingCommitted' /\ NothingCounted'
    BY <1>1, <1>2, <2>2, <2>4 DEF IInv, NothingCommitted, NothingCounted, Committed
  <2> QED
    BY <2>5, <2>6, <2>8, <2>9, <2>10, <2>11 DEF IInv
<1> QED
  BY <1>3, <1>4

---------------------------------------------------------------------------
(***************************************************************************)
(* The theorems                                                            *)
(***************************************************************************)
LEMMA GiftStepInv ==
    ASSUME IInv, GiftStep
    PROVE  IInv'
<1>1. PICK g \in Gifts :
        \/ Send(g) \/ CancelForCustomer(g) \/ CancelExpiredUnpaid(g)
        \/ MarkCheckoutPaid(g) \/ ApplyRefund(g) \/ AcceptItemForSeller(g)
        \/ RefreshOrderStatus(g)
        \/ StartLocalDelivery(g) \/ DispatchSellerManagedItems(g) \/ MarkDelivered(g)
  BY DEF GiftStep
<1>2. CASE Send(g)
  BY <1>2, SendInv
<1>3. CASE CancelForCustomer(g)
  BY <1>3, CancelInv
<1>4. CASE CancelExpiredUnpaid(g)
  BY <1>4, CancelInv DEF CancelExpiredUnpaid
<1>5. CASE \/ MarkCheckoutPaid(g) \/ ApplyRefund(g) \/ AcceptItemForSeller(g)
           \/ RefreshOrderStatus(g) \/ StartLocalDelivery(g)
           \/ DispatchSellerManagedItems(g)
  BY <1>5, HeaderStepInv
<1>6. CASE MarkDelivered(g)
  BY <1>6, DeliverInv
<1> QED
  BY <1>1, <1>2, <1>3, <1>4, <1>5, <1>6

LEMMA StepInv ==
    ASSUME IInv, [Next]_vars
    PROVE  IInv'
<1>1. CASE ProgramStep
  BY <1>1, ProgramStepInv
<1>2. CASE ProductStep
  BY <1>2, ProductStepInv
<1>3. CASE GiftStep
  BY <1>3, GiftStepInv
<1>4. CASE UNCHANGED vars
  <2>1. /\ UNCHANGED <<programVars, offer, stock, orderVars, giftVars, history>>
        /\ UNCHANGED <<order, line, checked, budget>>
    BY <1>4 DEF vars, orderVars, giftVars
  <2>2. TypeOK'
    BY <2>1 DEF IInv, TypeOK, programVars, orderVars, giftVars, history, Writes
  <2>3. HeldIsUnsettled' /\ Begun' /\ BudgetFollowsLine'
    BY <2>1 DEF IInv, HeldIsUnsettled, Begun, BudgetFollowsLine, InStatus
  <2> QED
    BY <2>1, <2>2, <2>3, OrderKeeps
<1> QED
  BY <1>1, <1>2, <1>3, <1>4 DEF Next

LEMMA Invariance == Spec => []IInv
<1>1. Init => IInv
  BY InitInv
<1>2. IInv /\ [Next]_vars => IInv'
  BY StepInv
<1> QED
  BY <1>1, <1>2, PTL DEF Spec

\* The budget's status tells where the line is.
LEMMA LinesByStatus ==
    ASSUME IInv
    PROVE  /\ OnTheirWay \ (SentAfterAll \cup SentAgain) = InStatus("held")
           /\ (Delivered \ SentAfterAll) \cup SentAgain = InStatus("spent")
           /\ PaidFor = Live
<1>1. \A g \in Gifts : budget[g] \in {"none", "held", "spent", "released"}
  BY DEF IInv, TypeOK, BudgetStatuses
<1>2. /\ OnTheirWay \ (SentAfterAll \cup SentAgain) = InStatus("held")
      /\ (Delivered \ SentAfterAll) \cup SentAgain = InStatus("spent")
  BY <1>1 DEF IInv, BudgetFollowsLine, OnTheirWay, Delivered, SentAfterAll, SentAgain, InStatus
<1>3. SentAgain \subseteq OnTheirWay /\ SentAgain \cap SentAfterAll = {}
  BY DEF SentAgain, SentAfterAll, OnTheirWay
<1> QED
  BY <1>2, <1>3 DEF PaidFor, Live

\* Every row has its type, whatever the products, gifts, caps and forms.
THEOREM FreeGiftTypes == Spec => []TypeOK
<1>1. IInv => TypeOK
  BY DEF IInv
<1> QED
  BY <1>1, Invariance, PTL

\* The budget is what the gifts on their way and delivered cost, but for those
\* dispatched after their cancellation or a second time, and within the cap: program forms,
\* switches, sends, cancellations and deliveries of any number keep it so.
THEOREM BudgetIsBacked == Spec => []BudgetBacked
<1>1. IInv => BudgetBacked
  <2> SUFFICES ASSUME IInv PROVE BudgetBacked
    OBVIOUS
  <2> QED
    BY LinesByStatus DEF IInv, StatusBacked, BudgetBacked
<1> QED
  BY <1>1, Invariance, PTL

\* No sender and no recipient has two gifts on their way or delivered, by any
\* key, but for gifts dispatched after their cancellation.
THEOREM RightsAreOneTime == Spec => []OneTimeRights
<1>1. IInv => OneTimeRights
  <2> SUFFICES ASSUME IInv PROVE OneTimeRights
    OBVIOUS
  <2> QED
    BY LinesByStatus DEF IInv, StatusRights, OneTimeRights
<1> QED
  BY <1>1, Invariance, PTL

\* Counts and reservations are the gifts', until a removal or a form breaks them.
THEOREM CountersAreBacked == Spec => []CountersBacked
<1>1. IInv => CountersBacked
  BY DEF IInv
<1> QED
  BY <1>1, Invariance, PTL

\* No cancelled or delivered order leaves its gift's budget held.
THEOREM HeldGiftsAreUnsettled == Spec => []HeldIsUnsettled
<1>1. IInv => HeldIsUnsettled
  BY DEF IInv
<1> QED
  BY <1>1, Invariance, PTL
=============================================================================
