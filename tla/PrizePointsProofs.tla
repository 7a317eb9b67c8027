-------------------------- MODULE PrizePointsProofs --------------------------
(***************************************************************************)
(* Theorems about the points players pay with, the limits on their plays,  *)
(* the counters of a round, the pot it implements and its reconciliation.  *)
(***************************************************************************)
EXTENDS PrizeRoundProofs, PrizeReconcile, SumTheorems, SequenceTheorems

-----------------------------------------------------------------------------
(* Points. Balances and the points ledger say what was charged, play by     *)
(* play; in a round entered with competition points nothing was.            *)

Unrefunded(c) == {i \in By(c) : ~Refunded(i)}
DebitRows == {[type |-> "play_debit", attempt |-> i] : i \in Plays}
RefundRows == {[type |-> "play_refund", attempt |-> i] : i \in {j \in Plays : Refunded(j)}}

FreeNotRefunded == Cost = 0 => \A i \in Plays : ~Refunded(i)

PointsInv == BoardInv /\ PointsConserved /\ FreeNotRefunded

\* Multiplication distributes over a difference.
LEMMA Distribute ==
    ASSUME NEW a \in Nat, NEW b \in Int, NEW c \in Int
    PROVE  a * (b - c) = a * b - a * c
  OBVIOUS

\* The sets of plays counted here have cardinalities.
LEMMA CountsFinite ==
    TypeOK => \A c : /\ IsFiniteSet(By(c)) /\ Cardinality(By(c)) \in Nat
                     /\ IsFiniteSet(Active(c)) /\ Cardinality(Active(c)) \in Nat
                     /\ IsFiniteSet(Unrefunded(c)) /\ Cardinality(Unrefunded(c)) \in Nat
  BY PlaysFinite DEF TypeOK, By, Active, Unrefunded

\* Steps that move no points and refund no play.
LEMMA PointsUntouched ==
    ASSUME PointsInv, UNCHANGED <<wallet, points, unit>>, Plays' = Plays,
           \A i \in Plays : /\ attempts'[i].customer = attempts[i].customer
                            /\ attempts'[i].charge = attempts[i].charge
    PROVE  PointsConserved' /\ FreeNotRefunded'
  <1>1. \A c : {i \in By(c) : ~Refunded(i)}' = {i \in By(c) : ~Refunded(i)}
    BY DEF By, Refunded
  <1>2. {j \in Plays : Refunded(j)}' = {j \in Plays : Refunded(j)} /\ Charge' = Charge
    BY DEF Refunded, Charge
  <1>3. FreeNotRefunded'
    BY <1>2 DEF PointsInv, FreeNotRefunded
  <1> QED
    BY <1>1, <1>2, <1>3 DEF PointsInv, PointsConserved

\* Steps that refund the plays in owed: a void of one, or a cancellation.
LEMMA PointsRefunded ==
    ASSUME PointsInv, NEW owed \in SUBSET Owed, RefundPlays(owed), Plays' = Plays, unit' = unit,
           \A i \in Plays :
             /\ attempts'[i].customer = attempts[i].customer
             /\ attempts'[i].charge = IF i \in owed THEN "refunded" ELSE attempts[i].charge
    PROVE  PointsConserved' /\ FreeNotRefunded'
  <1>1. /\ TypeOK /\ owed \subseteq Plays /\ Charge \in Nat /\ InitialPoints \in Nat
        /\ Charge' = Charge
    BY RoundAssumption, ChargeType DEF PointsInv, BoardInv, Owed, Charge
  <1>2. ASSUME NEW c \in Customers
        PROVE  wallet'[c] = InitialPoints - Charge * Cardinality({i \in By(c) : ~Refunded(i)}')
    <2> DEFINE R == {i \in owed : attempts[i].customer = c}
               U == {i \in By(c) : ~Refunded(i)}
    <2>1. U' = U \ R
      BY <1>1 DEF By, Refunded
    <2>2. U \cap R = R
      BY <1>1 DEF By, Owed
    <2>3. IsFiniteSet(U) /\ Cardinality(U) \in Nat /\ Cardinality(R) \in Nat
      BY <1>1, PlaysFinite DEF TypeOK, By
    <2> HIDE DEF U, R
    <2>4. Cardinality(U \ R) = Cardinality(U) - Cardinality(R)
      BY <2>2, <2>3, FS_Difference
    <2>5. wallet'[c] = wallet[c] + Charge * Cardinality(R)
      BY DEF RefundPlays, R
    <2>6. wallet[c] = InitialPoints - Charge * Cardinality(U)
      BY DEF PointsInv, PointsConserved, U
    <2>7. wallet'[c] = InitialPoints - Charge * (Cardinality(U) - Cardinality(R))
      <3>1. /\ Charge * (Cardinality(U) - Cardinality(R)) =
                 Charge * Cardinality(U) - Charge * Cardinality(R)
            /\ Charge * Cardinality(U) \in Int /\ Charge * Cardinality(R) \in Int
        BY <1>1, <2>3, Distribute
      <3> QED
        BY <1>1, <2>5, <2>6, <3>1
    <2>8. wallet'[c] = InitialPoints - Charge * Cardinality(U')
      BY <2>1, <2>4, <2>7
    <2> QED
      BY <2>8 DEF U
  <1>3. ASSUME Charge = 0 PROVE PointsConserved'
    <2>1. points' = points
      <3>1. CASE unit = "legacy"
        <4>1. owed = {}
          BY <1>3, <3>1, RoundAssumption DEF Charge, Owed
        <4> QED
          BY <4>1 DEF RefundPlays
      <3>2. CASE unit # "legacy"
        BY <3>2 DEF RefundPlays
      <3> QED
        BY <3>1, <3>2
    <2> QED
      BY <1>1, <1>2, <1>3, <2>1 DEF PointsInv, PointsConserved
  <1>4. ASSUME Charge # 0 PROVE PointsConserved'
    <2>1. points' = points \cup {[type |-> "play_refund", attempt |-> i] : i \in owed}
      BY <1>4 DEF Charge, RefundPlays
    <2>2. {j \in Plays : Refunded(j)}' = {j \in Plays : Refunded(j)} \cup owed
      BY <1>1 DEF Refunded
    <2>3. points = DebitRows \cup RefundRows
      BY <1>4 DEF PointsInv, PointsConserved, DebitRows, RefundRows
    <2>4. points' = DebitRows' \cup RefundRows'
      BY <2>1, <2>2, <2>3 DEF DebitRows, RefundRows
    <2> QED
      BY <1>1, <1>2, <1>4, <2>4 DEF PointsConserved, DebitRows, RefundRows
  <1>5. FreeNotRefunded'
    BY DEF PointsInv, FreeNotRefunded, Owed, Refunded
  <1> QED
    BY <1>3, <1>4, <1>5

\* A sale charges its player for one more play.
LEMMA PointsCharged ==
    ASSUME PointsInv, NEW c \in Customers, NEW k \in Keys, NEW now \in Nows,
           NEW attemptStatus, NEW session,
           StartPlay(c, k, now, attemptStatus, session)
    PROVE  PointsConserved' /\ FreeNotRefunded'
  <1> DEFINE id == Len(attempts) + 1
  <1>1. /\ TypeOK /\ Charge \in Nat /\ InitialPoints \in Nat /\ Charge' = Charge
        /\ Plays = 1..Len(attempts) /\ Len(attempts) \in Nat /\ attempts \in Seq(Attempt)
    BY RoundAssumption, ChargeType, PlaysFinite
       DEF PointsInv, BoardInv, TypeOK, StartPlay, clockVars, Charge
  <1>2. PICK row : /\ attempts' = Append(attempts, row)
                   /\ row.customer = c /\ row.charge = "kept"
    BY DEF StartPlay
  <1>3. /\ Plays' = Plays \cup {id} /\ id \notin Plays
        /\ attempts'[id] = row /\ \A i \in Plays : attempts'[i] = attempts[i]
    BY <1>1, <1>2 DEF Plays
  <1>4. ASSUME NEW d \in Customers
        PROVE  wallet'[d] = InitialPoints - Charge * Cardinality({i \in By(d) : ~Refunded(i)}')
    <2> DEFINE U == {i \in By(d) : ~Refunded(i)}
    <2>1. U' = IF d = c THEN U \cup {id} ELSE U
      BY <1>2, <1>3 DEF By, Refunded
    <2>2. IsFiniteSet(U) /\ Cardinality(U) \in Nat /\ id \notin U
      BY <1>1, <1>3, PlaysFinite DEF TypeOK, By
    <2>3. wallet[d] = InitialPoints - Charge * Cardinality(U)
      BY DEF PointsInv, PointsConserved
    <2>4. wallet'[d] = IF d = c THEN wallet[d] - Charge ELSE wallet[d]
      BY <1>1 DEF StartPlay, TypeOK
    <2> HIDE DEF U, id
    <2>5. CASE d = c
      <3>1. Cardinality(U') = Cardinality(U) + 1
        BY <2>1, <2>2, <2>5, FS_AddElement
      <3>2. Charge * (Cardinality(U) + 1) = Charge * Cardinality(U) + Charge
        BY <1>1, <2>2
      <3> QED
        BY <1>1, <2>2, <2>3, <2>4, <2>5, <3>1, <3>2 DEF U
    <2>6. CASE d # c
      BY <2>1, <2>3, <2>4, <2>6 DEF U
    <2> QED
      BY <2>5, <2>6
  <1>5. points' = IF Charge > 0 THEN points \cup {[type |-> "play_debit", attempt |-> id]} ELSE points
    BY DEF StartPlay
  <1>6. ASSUME Charge = 0 PROVE PointsConserved'
    BY <1>1, <1>4, <1>5, <1>6 DEF PointsInv, PointsConserved
  <1>7. ASSUME Charge # 0 PROVE PointsConserved'
    <2>1. {j \in Plays : Refunded(j)}' = {j \in Plays : Refunded(j)}
      BY <1>2, <1>3 DEF Refunded
    <2>2. points = DebitRows \cup RefundRows
      BY <1>7 DEF PointsInv, PointsConserved, DebitRows, RefundRows
    <2>3. DebitRows' = DebitRows \cup {[type |-> "play_debit", attempt |-> id]}
      BY <1>3 DEF DebitRows
    <2>4. RefundRows' = RefundRows
      BY <2>1 DEF RefundRows
    <2>5. points' = DebitRows' \cup RefundRows'
      BY <1>1, <1>5, <1>7, <2>2, <2>3, <2>4
    <2> QED
      BY <1>1, <1>4, <1>7, <2>5 DEF PointsConserved, DebitRows, RefundRows
  <1>8. FreeNotRefunded'
    BY <1>2, <1>3 DEF PointsInv, FreeNotRefunded, Refunded
  <1> QED
    BY <1>6, <1>7, <1>8

\* A void refunds its play, if it is owed and asked for.
LEMMA PointsVoid ==
    ASSUME PointsInv, NEW i \in Plays, NEW refund \in BOOLEAN, NEW reverse \in BOOLEAN,
           VoidPlay(i, refund, reverse)
    PROVE  PointsConserved' /\ FreeNotRefunded'
  <1> DEFINE owed == IF refund THEN {i} \cap Owed ELSE {}
             row == Voided(attempts[i], i \in owed)
  <1>1. attempts \in Seq(Attempt) /\ attempts[i] \in Attempt
    BY DEF PointsInv, BoardInv, TypeOK, Plays
  <1>2. attempts' = [attempts EXCEPT ![i] = row] /\ RefundPlays(owed) /\ unit' = unit
    BY DEF VoidPlay, clockVars
  <1>3. /\ row.customer = attempts[i].customer
        /\ row.charge = IF i \in owed THEN "refunded" ELSE attempts[i].charge
    BY <1>1 DEF Voided, Attempt
  <1>4. owed \in SUBSET Owed /\ \A j \in owed : j = i
    OBVIOUS
  <1> HIDE DEF row, owed
  <1>5. Plays' = Plays /\ \A j \in Plays : attempts'[j] = IF j = i THEN row ELSE attempts[j]
    BY <1>2 DEF Plays
  <1>6. \A j \in Plays :
          /\ attempts'[j].customer = attempts[j].customer
          /\ attempts'[j].charge = IF j \in owed THEN "refunded" ELSE attempts[j].charge
    BY <1>3, <1>4, <1>5
  <1> QED
    BY <1>2, <1>4, <1>5, <1>6, PointsRefunded

\* Cancelling refunds every play that is owed.
LEMMA PointsCancel ==
    ASSUME PointsInv, Cancel
    PROVE  PointsConserved' /\ FreeNotRefunded'
  <1>1. attempts \in Seq(Attempt) /\ attempts' = ExpireSessions(AllVoided) /\ RefundPlays(Owed)
        /\ unit' = unit
    BY DEF PointsInv, BoardInv, TypeOK, Cancel, clockVars
  <1>2. Plays' = Plays
    BY <1>1 DEF ExpireSessions, AllVoided, Plays
  <1>3. ASSUME NEW i \in Plays
        PROVE  /\ attempts'[i].customer = attempts[i].customer
               /\ attempts'[i].charge = IF i \in Owed THEN "refunded" ELSE attempts[i].charge
    <2>1. attempts[i] \in Attempt
      BY <1>1 DEF Plays
    <2>2. /\ AllVoided[i] \in Attempt /\ DOMAIN AllVoided = Plays
          /\ AllVoided[i].customer = attempts[i].customer
          /\ AllVoided[i].charge = IF i \in Owed THEN "refunded" ELSE attempts[i].charge
      BY <2>1 DEF AllVoided, Attempt
    <2> QED
      BY <1>1, <2>2 DEF ExpireSessions, Attempt
  <1> QED
    BY <1>1, <1>2, <1>3, PointsRefunded

\* Scores and the freeze write sessions, scores and statuses, never charges.
LEMMA ChargesKept ==
    ASSUME TypeOK,
           \/ Freeze
           \/ \E i \in Plays :
                \/ ExpireSession(i)
                \/ \E v \in {"accepted", "manual_review", "rejected"} : SaveOfficialScore(i, v)
                \/ \E v \in {"accepted", "rejected"} : ReviewSubmission(i, v)
    PROVE  /\ Plays' = Plays /\ UNCHANGED <<wallet, points, unit>>
           /\ \A i \in Plays : /\ attempts'[i].customer = attempts[i].customer
                               /\ attempts'[i].charge = attempts[i].charge
                               /\ attempts'[i].key = attempts[i].key
                               /\ attempts'[i].day = attempts[i].day
  <1>1. \A i \in Plays : attempts[i] \in Attempt
    BY DEF TypeOK, Plays
  <1>2. CASE Freeze
    BY <1>1, <1>2 DEF Freeze, ExpireSessions, Unchanging, clockVars, pointVars, Plays, Attempt
  <1>3. ASSUME NEW i \in Plays, NEW row, attempts' = [attempts EXCEPT ![i] = row],
               row.customer = attempts[i].customer, row.charge = attempts[i].charge,
               row.key = attempts[i].key, row.day = attempts[i].day, ScoresOnly
        PROVE  /\ Plays' = Plays /\ UNCHANGED <<wallet, points, unit>>
               /\ \A j \in Plays : /\ attempts'[j].customer = attempts[j].customer
                                   /\ attempts'[j].charge = attempts[j].charge
                                   /\ attempts'[j].key = attempts[j].key
                                   /\ attempts'[j].day = attempts[j].day
    <2>1. Plays' = Plays /\ UNCHANGED <<wallet, points, unit>>
      BY <1>3 DEF ScoresOnly, clockVars, pointVars, Plays
    <2>2. attempts'[i] = row /\ \A j \in Plays \ {i} : attempts'[j] = attempts[j]
      BY <1>3 DEF Plays
    <2> QED
      BY <2>1, <2>2, <1>3
  <1>4. CASE \E i \in Plays : ExpireSession(i)
    <2>1. PICK i \in Plays : ExpireSession(i)
      BY <1>4
    <2> DEFINE row == [attempts[i] EXCEPT !.session = "expired"]
    <2>2. attempts' = [attempts EXCEPT ![i] = row] /\ ScoresOnly
      BY <2>1 DEF ExpireSession
    <2>3. /\ row.customer = attempts[i].customer /\ row.charge = attempts[i].charge
          /\ row.key = attempts[i].key /\ row.day = attempts[i].day
      BY <1>1 DEF Attempt
    <2> QED
      BY <1>3, <2>2, <2>3
  <1>5. CASE \E i \in Plays, v \in {"accepted", "manual_review", "rejected"} :
               SaveOfficialScore(i, v)
    <2>1. PICK i \in Plays, v \in {"accepted", "manual_review", "rejected"} :
            SaveOfficialScore(i, v)
      BY <1>5
    <2> DEFINE row == [attempts[i] EXCEPT !.session = "submitted", !.score = v,
                         !.status = IF v = "manual_review" THEN "submitted" ELSE v]
    <2>2. attempts' = [attempts EXCEPT ![i] = row] /\ ScoresOnly
      BY <2>1 DEF SaveOfficialScore
    <2>3. /\ row.customer = attempts[i].customer /\ row.charge = attempts[i].charge
          /\ row.key = attempts[i].key /\ row.day = attempts[i].day
      BY <1>1 DEF Attempt
    <2> QED
      BY <1>3, <2>2, <2>3
  <1>6. CASE \E i \in Plays, v \in {"accepted", "rejected"} : ReviewSubmission(i, v)
    <2>1. PICK i \in Plays, v \in {"accepted", "rejected"} : ReviewSubmission(i, v)
      BY <1>6
    <2> DEFINE row == [attempts[i] EXCEPT !.score = v, !.status = v]
    <2>2. attempts' = [attempts EXCEPT ![i] = row] /\ ScoresOnly
      BY <2>1 DEF ReviewSubmission
    <2>3. /\ row.customer = attempts[i].customer /\ row.charge = attempts[i].charge
          /\ row.key = attempts[i].key /\ row.day = attempts[i].day
      BY <1>1 DEF Attempt
    <2> QED
      BY <1>3, <2>2, <2>3
  <1> QED
    BY <1>2, <1>4, <1>5, <1>6

\* Balances and the points ledger, over every step.
LEMMA PointsNext ==
    ASSUME PointsInv, Next
    PROVE  PointsInv'
  <1>1. BoardInv'
    BY BoardNext DEF PointsInv
  <1>2. TypeOK
    BY DEF PointsInv, BoardInv
  <1>3. CASE UNCHANGED <<attempts, wallet, points, unit>>
    <2>1. PointsConserved' /\ FreeNotRefunded'
      BY <1>3, PointsUntouched DEF Plays
    <2> QED
      BY <1>1, <2>1 DEF PointsInv
  <1>4. CASE \/ Freeze
             \/ \E i \in Plays :
                  \/ ExpireSession(i)
                  \/ \E v \in {"accepted", "manual_review", "rejected"} : SaveOfficialScore(i, v)
                  \/ \E v \in {"accepted", "rejected"} : ReviewSubmission(i, v)
    BY <1>1, <1>2, <1>4, ChargesKept, PointsUntouched DEF PointsInv
  <1>5. ASSUME NEW i \in Plays, NEW refund \in BOOLEAN, NEW reverse \in BOOLEAN,
               VoidPlay(i, refund, reverse)
        PROVE  PointsInv'
    BY <1>1, <1>5, PointsVoid DEF PointsInv
  <1>6. CASE Cancel
    BY <1>1, <1>6, PointsCancel DEF PointsInv
  <1>7. ASSUME NEW c \in Customers, NEW k \in Keys, NEW now \in Nows,
               PlaySkill(c, k, now) \/ PlayChance(c, k, now) \/ PlayWin(c, k, now)
        PROVE  PointsInv'
    BY <1>1, <1>7, PointsCharged DEF PointsInv, PlaySkill, PlayChance, PlayWin
  <1> QED
    BY <1>3, <1>4, <1>5, <1>6, <1>7
       DEF Next, Update, Wait, Schedule, Tick, NextDay, SyncClose, SyncOpen, Pause, Resume, Close,
           AdjustPrize, Unchanging, SubmitOfficial, ReadForReview, ScoresOnly, clockVars, pointVars

\* They hold in every reachable state.
LEMMA PointsInvariant == Spec => []PointsInv
  <1>1. Init => PointsInv
    <2> SUFFICES ASSUME Init PROVE PointsInv
      OBVIOUS
    <2>1. Plays = {} /\ points = {} /\ \A c \in Customers : wallet[c] = InitialPoints
      BY DEF Init, Plays
    <2>2. \A c : {i \in By(c) : ~Refunded(i)} = {}
      BY <2>1 DEF By
    <2>3. Charge * 0 = 0 /\ InitialPoints - 0 = InitialPoints
      BY RoundAssumption, ChargeType
    <2>4. PointsConserved
      BY <2>1, <2>2, <2>3, FS_EmptySet DEF PointsConserved
    <2>5. BoardInv /\ FreeNotRefunded
      BY <2>1, TypeInit DEF BoardInv, FreeNotRefunded
    <2> QED
      BY <2>4, <2>5 DEF PointsInv
  <1>2. PointsInv /\ [Next]_vars => PointsInv'
    <2>1. CASE UNCHANGED vars
      <3>1. UNCHANGED <<attempts, wallet, points, unit>>
        BY <2>1 DEF vars
      <3>2. PointsInv => PointsConserved' /\ FreeNotRefunded'
        BY <3>1, PointsUntouched DEF Plays
      <3>3. PointsInv => BoardInv'
        BY <2>1, BoardStep DEF PointsInv
      <3> QED
        BY <3>2, <3>3 DEF PointsInv
    <2> QED
      BY <2>1, PointsNext
  <1> QED
    BY <1>1, <1>2, PTL DEF Spec

\* No play is paid for twice or refunded twice, and no player's points are
\* lost, for any number of players and plays.
THEOREM PointsAreConserved == Spec => []PointsConserved
  BY PointsInvariant, PTL DEF PointsInv

-----------------------------------------------------------------------------
(* Cancellation. After it nothing moves the prize or charges a player, and *)
(* only a review that had read the round's status before writes on a play.  *)

RefundedWhole ==
    status = "cancelled" =>
      /\ current = 0
      /\ \A i \in Plays :
           /\ Cost > 0 => Refunded(i)
           /\ Live(i) => Review(i) \in checked /\ attempts[i].status = attempts[i].score

\* Cancelling leaves no play charged.
LEMMA CancelRefunds ==
    ASSUME PointsInv, Cancel
    PROVE  RefundedWhole'
  <1>1. attempts \in Seq(Attempt) /\ attempts' = ExpireSessions(AllVoided) /\ current \in Nat
    BY DEF PointsInv, BoardInv, TypeOK, Cancel
  <1>2. Plays' = Plays
    BY <1>1 DEF ExpireSessions, AllVoided, Plays
  <1>3. ASSUME NEW i \in Plays
        PROVE  attempts'[i].status = "voided" /\ (Cost > 0 => attempts'[i].charge = "refunded")
    <2>1. attempts[i] \in Attempt
      BY <1>1 DEF Plays
    <2>2. /\ AllVoided[i] \in Attempt /\ DOMAIN AllVoided = Plays
          /\ AllVoided[i].status = "voided"
          /\ AllVoided[i].charge = IF i \in Owed THEN "refunded" ELSE attempts[i].charge
      BY <2>1 DEF AllVoided, Attempt
    <2>3. Cost > 0 => AllVoided[i].charge = "refunded"
      BY <2>1, <2>2 DEF Owed, Refunded, Attempt
    <2> QED
      BY <1>1, <2>2, <2>3 DEF ExpireSessions, Attempt
  <1>4. current' = 0
    BY <1>1 DEF Cancel, PostPrize, prizeVars
  <1> QED
    BY <1>2, <1>3, <1>4 DEF RefundedWhole, Live, Refunded

\* A cancelled round stays whole: nothing charges or posts any more, and a
\* review writes its verdict on both the play and its score.
LEMMA WholeNext ==
    ASSUME PointsInv, RefundedWhole, Next
    PROVE  RefundedWhole'
  <1>1. CASE Cancel
    BY <1>1, CancelRefunds
  <1>2. CASE status' # "cancelled"
    BY <1>2 DEF RefundedWhole
  <1>3. ASSUME status = "cancelled", UNCHANGED <<status, current, attempts>>,
               checked \subseteq checked'
        PROVE  RefundedWhole'
    BY <1>3 DEF RefundedWhole, Plays, Live, Refunded
  <1>4. ASSUME status = "cancelled", NEW i \in Plays, NEW v \in {"accepted", "rejected"},
               ReviewSubmission(i, v)
        PROVE  RefundedWhole'
    <2>1. /\ attempts[i] \in Attempt /\ Review(i) \in checked
          /\ UNCHANGED <<status, current, checked>> /\ Plays' = Plays
      BY <1>4 DEF PointsInv, BoardInv, TypeOK, Plays, ReviewSubmission, ScoresOnly, prizeVars
    <2>2. /\ attempts'[i].status = v /\ attempts'[i].score = v
          /\ attempts'[i].charge = attempts[i].charge
          /\ \A j \in Plays : j # i => attempts'[j] = attempts[j]
      BY <1>4, <2>1 DEF ReviewSubmission, Attempt, Plays
    <2> QED
      BY <1>4, <2>1, <2>2 DEF RefundedWhole, Live, Refunded
  <1>5. ASSUME status = "cancelled", ~Cancel,
               ~\E i \in Plays, v \in {"accepted", "rejected"} : ReviewSubmission(i, v)
        PROVE  UNCHANGED <<status, current, attempts>> /\ checked' = checked
    <2>1. \A i \in Plays : attempts[i].session # "active"
      BY <1>5 DEF PointsInv, BoardInv, RowHolds
    <2>2. Wait \/ Tick \/ NextDay => UNCHANGED <<status, current, attempts>> /\ checked' = checked
      BY DEF Wait, Tick, NextDay, prizeVars
    <2>3. ~(Schedule \/ SyncClose \/ SyncOpen \/ Pause \/ Resume \/ Close \/ Freeze)
      BY <1>5 DEF Schedule, SyncClose, SyncOpen, Pause, Resume, Close, Freeze
    <2>4. \A s, w, d, i, refund, reverse :
            ~(Update(s, w) \/ AdjustPrize(d) \/ VoidPlay(i, refund, reverse))
      BY <1>5 DEF Update, AdjustPrize, VoidPlay
    <2>5. \A c, k, now : ~(PlaySkill(c, k, now) \/ PlayChance(c, k, now) \/ PlayWin(c, k, now))
      BY <1>5 DEF PlaySkill, PlayChance, PlayWin, StartPlay
    <2>6. \A i \in Plays : \A v : ~(SubmitOfficial(i) \/ ExpireSession(i) \/ ReadForReview(i)
                                 \/ SaveOfficialScore(i, v))
      BY <1>5, <2>1 DEF SubmitOfficial, ExpireSession, ReadForReview, SaveOfficialScore
    <2> QED
      BY <1>5, <2>2, <2>3, <2>4, <2>5, <2>6 DEF Next
  <1>6. status' = "cancelled" => status = "cancelled" \/ Cancel
    BY NextMovesStatus DEF StatusMove
  <1> QED
    BY <1>1, <1>2, <1>3, <1>4, <1>5, <1>6

\* A cancelled round owes nothing: every player has the points they came
\* with, every charge is refunded and the prize is empty, whatever was voided
\* or adjusted before; and a play counts again only through a review that the
\* cancellation overtook.
THEOREM CancelIsWhole == Spec => []CancelMakesWhole
  <1>1. Init => RefundedWhole
    BY DEF Init, RefundedWhole
  <1>2. PointsInv /\ RefundedWhole /\ [Next]_vars => RefundedWhole'
    <2>1. CASE UNCHANGED vars
      BY <2>1 DEF vars, RefundedWhole, Plays, Live, Refunded
    <2> QED
      BY <2>1, WholeNext
  <1>3. PointsInv /\ RefundedWhole => CancelMakesWhole
    <2> SUFFICES ASSUME PointsInv, RefundedWhole, status = "cancelled", NEW c \in Customers
                 PROVE  wallet[c] = InitialPoints
      BY DEF CancelMakesWhole, RefundedWhole
    <2> DEFINE U == {i \in By(c) : ~Refunded(i)}
    <2>1. /\ wallet[c] = InitialPoints - Charge * Cardinality(U)
          /\ Cardinality(U) \in Nat /\ Charge \in Nat /\ InitialPoints \in Nat
      BY PlaysFinite, RoundAssumption, ChargeType
         DEF PointsInv, PointsConserved, BoardInv, TypeOK, By
    <2>2. Charge * Cardinality(U) = 0
      <3>1. CASE Charge = 0
        BY <2>1, <3>1
      <3>2. CASE Charge # 0
        <4>1. Cost > 0
          BY <2>1, <3>2 DEF Charge
        <4>2. U = {}
          BY <4>1 DEF RefundedWhole, By
        <4>3. Cardinality(U) = 0
          BY <4>2, FS_EmptySet
        <4> QED
          BY <2>1, <4>3
      <3> QED
        BY <3>1, <3>2
    <2> QED
      BY <2>1, <2>2
  <1> QED
    BY <1>1, <1>2, <1>3, PointsInvariant, PTL DEF Spec

-----------------------------------------------------------------------------
(* Limits. A transaction that waited counts from an earlier day than the    *)
(* present, never from a later one, and no play is dated in the future.     *)
(* Once the round is cancelled a voided play still counts against a limit   *)
(* if a review may yet write on it.                                         *)

DaysPast == (\A i \in Plays : attempts[i].day <= day) /\ (\A now \in began : now.day <= day)
Standing(c) == {i \in By(c) : Live(i) \/ (status = "cancelled" /\ Reviewable(i))}
OfDay(c, d) == {i \in Standing(c) : attempts[i].day = d}

\* LimitsKept, of the plays that stand.
StandingKept ==
    \A c \in Customers :
      /\ MaxAttempts > 0 => Cardinality(Standing(c)) <= MaxAttempts
      /\ DailyLimit # Unset => \A d \in 0..day : Cardinality(OfDay(c, d)) <= DailyLimit
      /\ \A i, j \in By(c) : attempts[i].key = attempts[j].key => i = j

LimitsInv == BoardInv /\ StandingKept /\ DaysPast

\* While the round is not cancelled the plays that stand are the active ones.
LEMMA StandingIsActive ==
    status # "cancelled" => \A c : Standing(c) = Active(c)
  BY DEF Standing, Active

LEMMA StandingFinite ==
    TypeOK => \A c : /\ IsFiniteSet(Standing(c)) /\ Cardinality(Standing(c)) \in Nat
                     /\ \A d : IsFiniteSet(OfDay(c, d)) /\ Cardinality(OfDay(c, d)) \in Nat
  BY PlaysFinite DEF TypeOK, By, Standing, OfDay

\* A step that sells nothing makes no play stand that did not: a cancellation
\* only spares scores of live plays, and a review needs such a score.
LEMMA StandingShrinks ==
    ASSUME BoardInv, BoardInv', RowsKept, Next, Plays' = Plays
    PROVE  \A c : Standing(c)' \subseteq Standing(c)
  <1>1. \A i \in Plays : attempts[i] \in Attempt /\ RowHolds(attempts[i], status, method)
    BY DEF BoardInv, TypeOK, Plays
  <1>2. \A c : By(c)' = By(c)
    BY DEF RowsKept, By
  <1>3. \A c : \A i \in By(c) : i \in Plays
    BY DEF By
  <1>4. CASE status # "cancelled" /\ status' # "cancelled"
    BY <1>2, <1>3, <1>4 DEF RowsKept, StaysVoid, Standing, Live
  <1>5. CASE Cancel
    <2>1. ASSUME NEW i \in Plays PROVE attempts'[i].score = attempts[i].score
      <3>1. /\ AllVoided[i] \in Attempt /\ DOMAIN AllVoided = Plays
            /\ AllVoided[i].score = attempts[i].score
        BY <1>1 DEF AllVoided, Attempt
      <3> QED
        BY <1>5, <3>1 DEF Cancel, ExpireSessions, Attempt
    <2>2. status # "cancelled"
      BY <1>5 DEF Cancel
    <2>3. \A i \in Plays : Live(i)' \/ Reviewable(i)' => Live(i)
      BY <1>1, <2>1, <2>2 DEF Live, Reviewable, RowHolds, RowsKept, StaysVoid
    <2> QED
      BY <1>2, <1>3, <2>3 DEF Standing
  <1>6. CASE UNCHANGED <<attempts, status>>
    BY <1>6 DEF Standing, By, Plays, Live, Reviewable
  <1>7. ASSUME NEW i \in Plays, NEW v \in {"accepted", "rejected"}, ReviewSubmission(i, v),
               status = "cancelled"
        PROVE  \A c : Standing(c)' \subseteq Standing(c)
    <2>1. Reviewable(i) /\ status' = status
      BY <1>7 DEF ReviewSubmission, ScoresOnly
    <2>2. \A j \in Plays : j # i => attempts'[j] = attempts[j]
      BY <1>7 DEF ReviewSubmission, Plays
    <2> QED
      BY <1>2, <1>3, <1>7, <2>1, <2>2 DEF Standing, Live, Reviewable
  <1>8. ASSUME status = "cancelled", ~Cancel,
               ~\E i \in Plays, v \in {"accepted", "rejected"} : ReviewSubmission(i, v)
        PROVE  UNCHANGED <<attempts, status>>
    <2>1. \A i \in Plays : attempts[i].session # "active"
      BY <1>1, <1>8 DEF RowHolds
    <2>2. Wait \/ Tick \/ NextDay => UNCHANGED <<attempts, status>>
      BY DEF Wait, Tick, NextDay
    <2>3. ~(Schedule \/ SyncClose \/ SyncOpen \/ Pause \/ Resume \/ Close \/ Freeze)
      BY <1>8 DEF Schedule, SyncClose, SyncOpen, Pause, Resume, Close, Freeze
    <2>4. \A s, w, d, i, refund, reverse :
            ~(Update(s, w) \/ AdjustPrize(d) \/ VoidPlay(i, refund, reverse))
      BY <1>8 DEF Update, AdjustPrize, VoidPlay
    <2>5. \A c, k, now : ~(PlaySkill(c, k, now) \/ PlayChance(c, k, now) \/ PlayWin(c, k, now))
      BY <1>8 DEF PlaySkill, PlayChance, PlayWin, StartPlay
    <2>6. \A i \in Plays : \A v : ~(SubmitOfficial(i) \/ ExpireSession(i) \/ ReadForReview(i)
                                 \/ SaveOfficialScore(i, v))
      BY <1>8, <2>1 DEF SubmitOfficial, ExpireSession, ReadForReview, SaveOfficialScore
    <2> QED
      BY <1>8, <2>2, <2>3, <2>4, <2>5, <2>6 DEF Next
  <1>9. status' = "cancelled" => status = "cancelled" \/ Cancel
    BY NextMovesStatus DEF StatusMove
  <1> QED
    BY <1>4, <1>5, <1>6, <1>7, <1>8, <1>9

\* Fewer standing plays never break a limit.
LEMMA LimitsShrink ==
    ASSUME LimitsInv, BoardInv', RowsKept, Len(attempts') = Len(attempts), day' = day,
           began' = began, \A c : Standing(c)' \subseteq Standing(c)
    PROVE  StandingKept' /\ DaysPast'
  <1>1. TypeOK /\ TypeOK'
    BY DEF LimitsInv, BoardInv
  <1>2. Plays' = Plays
    BY <1>1, PlaysFinite DEF TypeOK, Plays
  <1>3. ASSUME NEW c \in Customers
        PROVE  /\ Standing(c)' \subseteq Standing(c) /\ By(c)' = By(c)
               /\ \A d : OfDay(c, d)' \subseteq OfDay(c, d)
               /\ \A i \in By(c) : attempts'[i].key = attempts[i].key
    <2>1. By(c)' = By(c) /\ \A i \in By(c) : i \in Plays /\ attempts'[i].key = attempts[i].key
      BY <1>2 DEF RowsKept, By
    <2>2. \A i \in Standing(c) : i \in Plays /\ attempts'[i].day = attempts[i].day
      BY DEF Standing, By, RowsKept
    <2> QED
      BY <2>1, <2>2 DEF OfDay
  <1>4. ASSUME NEW c \in Customers, MaxAttempts > 0 PROVE Cardinality(Standing(c)') <= MaxAttempts
    <2>1. IsFiniteSet(Standing(c)) /\ Cardinality(Standing(c)) <= MaxAttempts /\ Cardinality(Standing(c)) \in Nat
      BY <1>1, <1>4, StandingFinite DEF LimitsInv, StandingKept
    <2>2. Cardinality(Standing(c)') <= Cardinality(Standing(c)) /\ IsFiniteSet(Standing(c)')
      BY <1>3, <2>1, FS_Subset
    <2>3. Cardinality(Standing(c)') \in Nat
      BY <2>2, FS_CardinalityType
    <2> QED
      BY <2>1, <2>2, <2>3, RoundAssumption
  <1>5. ASSUME NEW c \in Customers, DailyLimit # Unset, NEW d \in 0..day
        PROVE  Cardinality(OfDay(c, d)') <= DailyLimit
    <2>1. IsFiniteSet(OfDay(c, d)) /\ Cardinality(OfDay(c, d)) \in Nat
      BY <1>1, PlaysFinite DEF TypeOK, OfDay, Standing, By
    <2>2. Cardinality(OfDay(c, d)) <= DailyLimit
      BY <1>5 DEF LimitsInv, StandingKept, OfDay
    <2>3. Cardinality(OfDay(c, d)') <= Cardinality(OfDay(c, d)) /\ IsFiniteSet(OfDay(c, d)')
      BY <1>3, <2>1, FS_Subset
    <2>4. Cardinality(OfDay(c, d)') \in Nat
      BY <2>3, FS_CardinalityType
    <2> QED
      BY <1>5, <2>1, <2>2, <2>3, <2>4, RoundAssumption
  <1>6. DaysPast'
    BY <1>2 DEF LimitsInv, DaysPast, RowsKept
  <1>7. StandingKept'
    BY <1>3, <1>4, <1>5 DEF LimitsInv, StandingKept, OfDay
  <1> QED
    BY <1>6, <1>7

\* A sale within the limits keeps them, though its day may be a past one.
LEMMA LimitsSale ==
    ASSUME LimitsInv, BoardInv', status' # "cancelled",
           NEW c \in Customers, NEW k \in Keys, NEW now \in Nows,
           NEW attemptStatus \in {"started", "accepted"}, NEW session,
           StartPlay(c, k, now, attemptStatus, session)
    PROVE  StandingKept' /\ DaysPast'
  <1> DEFINE id == Len(attempts) + 1
  <1>1. /\ TypeOK /\ attempts \in Seq(Attempt) /\ Plays = 1..Len(attempts) /\ Len(attempts) \in Nat
        /\ UNCHANGED <<day, began>> /\ day \in Nat
    BY PlaysFinite DEF LimitsInv, BoardInv, TypeOK, StartPlay, clockVars
  <1>2. now.day \in Nat /\ now.day <= day
    BY <1>1 DEF Nows, Present, LimitsInv, DaysPast, TypeOK, Moment
  <1>3. PICK row : /\ attempts' = Append(attempts, row) /\ row.customer = c /\ row.key = k
                   /\ row.day = now.day /\ row.status # "voided"
    BY DEF StartPlay
  <1>4. /\ Plays' = Plays \cup {id} /\ id \notin Plays
        /\ attempts'[id] = row /\ \A i \in Plays : attempts'[i] = attempts[i]
    BY <1>1, <1>3 DEF Plays
  <1>5. /\ By(c)' = By(c) \cup {id} /\ Standing(c)' = Standing(c) \cup {id}
        /\ \A b \in Customers : b # c => By(b)' = By(b) /\ Standing(b)' = Standing(b)
    <2>1. status # "cancelled"
      BY DEF StartPlay
    <2> QED
      BY <1>3, <1>4, <2>1 DEF By, Standing, Live
  <1>6. ASSUME NEW b \in Customers, MaxAttempts > 0 PROVE Cardinality(Standing(b)') <= MaxAttempts
    <2>1. CASE b = c
      <3>1. IsFiniteSet(Standing(c)) /\ Cardinality(Standing(c)) \in Nat /\ id \notin Standing(c)
        BY <1>1, <1>4, StandingFinite DEF Standing, By
      <3>2. Cardinality(Standing(c)) < MaxAttempts
        BY <1>6, StandingIsActive DEF StartPlay, WithinLimits
      <3>3. Cardinality(Standing(c) \cup {id}) = Cardinality(Standing(c)) + 1
        BY <3>1, FS_AddElement
      <3>4. Standing(b)' = Standing(c) \cup {id}
        BY <1>5, <2>1
      <3> QED
        BY <3>1, <3>2, <3>3, <3>4, RoundAssumption
    <2>2. CASE b # c
      BY <1>5, <1>6, <2>2 DEF LimitsInv, StandingKept
    <2> QED
      BY <2>1, <2>2
  <1>7. ASSUME NEW b \in Customers, DailyLimit # Unset, NEW d \in 0..day
        PROVE  Cardinality(OfDay(b, d)') <= DailyLimit
    <2>1. Cardinality(OfDay(b, d)) <= DailyLimit
      BY <1>7 DEF LimitsInv, StandingKept, OfDay
    <2>2. CASE b = c /\ d = now.day
      <3>1. OfDay(b, d)' = OfDay(c, now.day) \cup {id}
        BY <1>3, <1>4, <1>5, <2>2 DEF OfDay, Standing, By
      <3>2. /\ IsFiniteSet(Since(c, now.day)) /\ Cardinality(Since(c, now.day)) \in Nat
            /\ IsFiniteSet(OfDay(c, now.day)) /\ Cardinality(OfDay(c, now.day)) \in Nat
        BY <1>1, PlaysFinite DEF Since, OfDay, Standing, Active, By
      <3>3. OfDay(c, now.day) \subseteq Since(c, now.day)
        <4>1. Standing(c) = Active(c)
          BY StandingIsActive DEF StartPlay
        <4> QED
          BY <1>2, <4>1 DEF Since, OfDay
      <3>4. Cardinality(OfDay(c, now.day)) <= Cardinality(Since(c, now.day))
        BY <3>2, <3>3, FS_Subset
      <3>5. Cardinality(Since(c, now.day)) < DailyLimit
        BY <1>7 DEF StartPlay, WithinLimits
      <3>6. id \notin OfDay(c, now.day)
        BY <1>4 DEF OfDay, Standing, By
      <3>7. Cardinality(OfDay(b, d)') = Cardinality(OfDay(c, now.day)) + 1
        BY <3>1, <3>2, <3>6, FS_AddElement
      <3> QED
        BY <1>7, <3>2, <3>4, <3>5, <3>7, RoundAssumption
    <2>3. CASE ~(b = c /\ d = now.day)
      <3>1. CASE b # c
        <4>1. \A i \in Standing(b) : i \in Plays
          BY DEF Standing, By
        <4>2. OfDay(b, d)' = OfDay(b, d)
          BY <1>4, <1>5, <3>1, <4>1 DEF OfDay
        <4> QED
          BY <2>1, <4>2
      <3>2. CASE b = c
        <4>1. \A i \in Standing(c) : i \in Plays
          BY DEF Standing, By
        <4>2. OfDay(b, d)' = OfDay(b, d)
          BY <1>3, <1>4, <1>5, <2>3, <3>2, <4>1 DEF OfDay
        <4> QED
          BY <2>1, <4>2
      <3> QED
        BY <3>1, <3>2
    <2> QED
      BY <2>2, <2>3
  <1>8. ASSUME NEW b \in Customers, NEW i \in By(b)', NEW j \in By(b)',
               attempts'[i].key = attempts'[j].key
        PROVE  i = j
    <2>1. CASE i \in Plays /\ j \in Plays
      <3>1. i \in By(b) /\ j \in By(b)
        BY <1>4, <2>1 DEF By
      <3> QED
        BY <1>4, <1>8, <2>1, <3>1 DEF LimitsInv, StandingKept
    <2>2. \A n \in By(c) : attempts[n].key # k
      BY DEF StartPlay, IsReplay
    <2>3. \A n \in By(b)' : n \in Plays /\ b = c => n \in By(c)
      BY <1>4 DEF By
    <2>4. id \in By(b)' => b = c
      BY <1>3, <1>4 DEF By
    <2>5. i \in Plays \cup {id} /\ j \in Plays \cup {id}
      BY <1>4 DEF By
    <2> QED
      BY <1>3, <1>4, <1>8, <2>1, <2>2, <2>3, <2>4, <2>5
  <1>9. DaysPast'
    BY <1>1, <1>2, <1>3, <1>4 DEF LimitsInv, DaysPast
  <1>10. StandingKept'
    BY <1>1, <1>6, <1>7, <1>8 DEF StandingKept
  <1> QED
    BY <1>9, <1>10

\* A new day is one on which nobody has played yet.
LEMMA LimitsNewDay ==
    ASSUME LimitsInv, NextDay
    PROVE  StandingKept' /\ DaysPast'
  <1>1. TypeOK /\ day \in Nat /\ day' = day + 1 /\ UNCHANGED <<attempts, began, status>>
    BY DEF LimitsInv, BoardInv, TypeOK, NextDay
  <1>2. \A i \in Plays : attempts[i] \in Attempt /\ attempts[i].day <= day
    BY <1>1 DEF TypeOK, Plays, LimitsInv, DaysPast
  <1>3. DaysPast'
    BY <1>1, <1>2 DEF LimitsInv, DaysPast, Plays, TypeOK, Moment, Attempt
  <1>4. ASSUME NEW c \in Customers, DailyLimit # Unset, NEW d \in 0..(day + 1)
        PROVE  Cardinality(OfDay(c, d)) <= DailyLimit
    <2>1. CASE d = day + 1
      <3>1. OfDay(c, d) = {}
        BY <1>1, <1>2, <2>1 DEF OfDay, Standing, By, Attempt
      <3>2. Cardinality(OfDay(c, d)) = 0
        BY <3>1, FS_EmptySet
      <3> QED
        BY <1>4, <3>2, RoundAssumption
    <2>2. CASE d # day + 1
      <3>1. d \in 0..day
        BY <1>1, <2>2
      <3> QED
        BY <1>4, <3>1 DEF LimitsInv, StandingKept, OfDay
    <2> QED
      BY <2>1, <2>2
  <1>5. \A c : Standing(c)' = Standing(c) /\ By(c)' = By(c) /\ \A d : OfDay(c, d)' = OfDay(c, d)
    BY <1>1 DEF By, Standing, Live, Reviewable, Plays, OfDay
  <1>6. StandingKept'
    BY <1>1, <1>4, <1>5 DEF LimitsInv, StandingKept, OfDay
  <1> QED
    BY <1>3, <1>6

\* The limits, over every step.
LEMMA LimitsNext ==
    ASSUME LimitsInv, BoardInv', RowsKept, Next
    PROVE  StandingKept' /\ DaysPast'
  <1>1. CASE Len(attempts') = Len(attempts) /\ UNCHANGED <<day, began>>
    <2>1. Plays' = Plays
      BY <1>1, PlaysFinite DEF LimitsInv, BoardInv, TypeOK, Plays
    <2> QED
      BY <1>1, <2>1, StandingShrinks, LimitsShrink DEF LimitsInv
  <1>2. CASE NextDay
    BY <1>2, LimitsNewDay
  <1>3. CASE Wait
    <2>1. UNCHANGED <<attempts, day, status>> /\ began' = began \cup {Present} /\ day \in Nat
      BY <1>3 DEF Wait, LimitsInv, BoardInv, TypeOK
    <2>2. \A c : /\ Standing(c)' = Standing(c) /\ By(c)' = By(c)
                /\ \A d : OfDay(c, d)' = OfDay(c, d)
      BY <2>1 DEF By, Standing, Live, Reviewable, Plays, OfDay
    <2>3. DaysPast'
      BY <2>1 DEF LimitsInv, DaysPast, Plays, Present
    <2>4. StandingKept'
      BY <2>1, <2>2 DEF LimitsInv, StandingKept
    <2> QED
      BY <2>3, <2>4
  <1>4. ASSUME NEW c \in Customers, NEW k \in Keys, NEW now \in Nows,
               PlaySkill(c, k, now) \/ PlayChance(c, k, now) \/ PlayWin(c, k, now)
        PROVE  StandingKept' /\ DaysPast'
    <2>1. status' # "cancelled"
      BY <1>4 DEF PlaySkill, PlayChance, PlayWin, StartPlay
    <2> QED
      BY <1>4, <2>1, LimitsSale DEF PlaySkill, PlayChance, PlayWin
  <1>5. ASSUME NEW i \in Plays,
               \/ ExpireSession(i)
               \/ \E v \in {"accepted", "manual_review", "rejected"} : SaveOfficialScore(i, v)
               \/ \E v \in {"accepted", "rejected"} : ReviewSubmission(i, v)
        PROVE  DOMAIN attempts' = DOMAIN attempts /\ UNCHANGED <<day, began>>
    BY <1>5 DEF ExpireSession, SaveOfficialScore, ReviewSubmission, ScoresOnly, clockVars
  <1>6. ASSUME NEW i \in Plays, NEW refund \in BOOLEAN, NEW reverse \in BOOLEAN,
               VoidPlay(i, refund, reverse)
        PROVE  DOMAIN attempts' = DOMAIN attempts /\ UNCHANGED <<day, began>>
    BY <1>6 DEF VoidPlay, clockVars
  <1>7. ASSUME Freeze \/ Cancel
        PROVE  DOMAIN attempts' = DOMAIN attempts /\ UNCHANGED <<day, began>>
    BY <1>7 DEF Freeze, Cancel, ExpireSessions, AllVoided, Plays, Unchanging, clockVars
  <1>8. CASE DOMAIN attempts' = DOMAIN attempts /\ UNCHANGED <<day, began>>
    BY <1>1, <1>8, PlaysFinite DEF LimitsInv, BoardInv, TypeOK, Plays
  <1>9. CASE UNCHANGED <<attempts, day, began>>
    BY <1>1, <1>9
  <1> QED
    BY <1>2, <1>3, <1>4, <1>5, <1>6, <1>7, <1>8, <1>9
       DEF Next, Update, Schedule, Tick, SyncClose, SyncOpen, Pause, Resume, Close,
           AdjustPrize, Unchanging, SubmitOfficial, ReadForReview, ScoresOnly, clockVars

\* The round limit, the daily limit and the request key hold for every
\* player, though a sale may count from an earlier day than the present: it
\* is dated on that day too, and a day that is over only loses plays.
THEOREM LimitsAreKept == Spec => []LimitsKept
  <1>1. Init => LimitsInv
    <2> SUFFICES ASSUME Init PROVE LimitsInv
      OBVIOUS
    <2>1. BoardInv
      BY BoardInit
    <2>2. \A c : By(c) = {} /\ Standing(c) = {} /\ \A d : OfDay(c, d) = {}
      BY DEF Init, Plays, By, Standing, OfDay
    <2>3. Cardinality({}) = 0
      BY FS_EmptySet
    <2>4. StandingKept
      <3>1. ASSUME NEW c \in Customers, MaxAttempts > 0
            PROVE  Cardinality(Standing(c)) <= MaxAttempts
        BY <2>2, <2>3, <3>1, RoundAssumption
      <3>2. ASSUME NEW c \in Customers, DailyLimit # Unset, NEW d \in 0..day
            PROVE  Cardinality(OfDay(c, d)) <= DailyLimit
        BY <2>2, <2>3, <3>2, RoundAssumption
      <3> QED
        BY <2>2, <3>1, <3>2 DEF StandingKept
    <2>5. DaysPast
      BY DEF Init, DaysPast, Plays
    <2> QED
      BY <2>1, <2>4, <2>5 DEF LimitsInv
  <1>2. LimitsInv /\ [Next]_vars => LimitsInv'
    <2> SUFFICES ASSUME LimitsInv, [Next]_vars PROVE LimitsInv'
      OBVIOUS
    <2>1. CASE Next
      <3>1. BoardInv' /\ RowsKept
        BY <2>1, BoardNext DEF LimitsInv
      <3> QED
        BY <2>1, <3>1, LimitsNext DEF LimitsInv
    <2>2. CASE UNCHANGED vars
      <3>1. BoardInv'
        BY <2>2, BoardStep DEF LimitsInv
      <3>2. \A c : /\ Standing(c)' = Standing(c) /\ By(c)' = By(c)
                  /\ \A d : OfDay(c, d)' = OfDay(c, d)
        BY <2>2 DEF vars, By, Standing, Live, Reviewable, Plays, OfDay
      <3> QED
        BY <2>2, <3>1, <3>2 DEF vars, LimitsInv, StandingKept, DaysPast, Plays
    <2> QED
      BY <2>1, <2>2
  <1>3. LimitsInv => LimitsKept
    <2> SUFFICES ASSUME LimitsInv PROVE LimitsKept
      OBVIOUS
    <2>1. TypeOK
      BY DEF LimitsInv, BoardInv
    <2>2. ASSUME NEW c \in Customers, MaxAttempts > 0 PROVE Cardinality(Active(c)) <= MaxAttempts
      <3>1. /\ Active(c) \subseteq Standing(c) /\ IsFiniteSet(Standing(c))
            /\ Cardinality(Standing(c)) \in Nat /\ Cardinality(Active(c)) \in Nat
        BY <2>1, StandingFinite, CountsFinite DEF Active, Standing
      <3>2. Cardinality(Active(c)) <= Cardinality(Standing(c))
        BY <3>1, FS_Subset
      <3> QED
        BY <2>2, <3>1, <3>2, RoundAssumption DEF LimitsInv, StandingKept
    <2>3. ASSUME NEW c \in Customers, DailyLimit # Unset, NEW d \in 0..day
          PROVE  Cardinality({i \in Active(c) : attempts[i].day = d}) <= DailyLimit
      <3> DEFINE A == {i \in Active(c) : attempts[i].day = d}
      <3>1. /\ A \subseteq OfDay(c, d) /\ IsFiniteSet(OfDay(c, d))
            /\ Cardinality(OfDay(c, d)) \in Nat
        BY <2>1, StandingFinite DEF Active, Standing, OfDay
      <3>2. Cardinality(A) <= Cardinality(OfDay(c, d)) /\ Cardinality(A) \in Nat
        BY <3>1, FS_Subset, FS_CardinalityType
      <3> HIDE DEF A
      <3>3. Cardinality(A) <= DailyLimit
        BY <2>3, <3>1, <3>2, RoundAssumption DEF LimitsInv, StandingKept
      <3> QED
        BY <3>3 DEF A
    <2> QED
      BY <2>2, <2>3 DEF LimitsInv, StandingKept, LimitsKept
  <1> QED
    BY <1>1, <1>2, <1>3, PTL DEF Spec

-----------------------------------------------------------------------------
(* Counters. They follow the plays on the board and the players who bought  *)
(* one, except that a cancellation voids plays it does not count down.      *)

OnBoard == {i \in Plays : Live(i)}
Buyers == {attempts[i].customer : i \in Plays}

CountersInv == BoardInv /\ CountersMatch

\* The sets counted here have cardinalities.
LEMMA BoardFinite ==
    TypeOK => /\ IsFiniteSet(OnBoard) /\ Cardinality(OnBoard) \in Nat
              /\ IsFiniteSet(Buyers) /\ Cardinality(Buyers) \in Nat
  <1> SUFFICES ASSUME TypeOK
               PROVE  /\ IsFiniteSet(OnBoard) /\ Cardinality(OnBoard) \in Nat
                      /\ IsFiniteSet(Buyers) /\ Cardinality(Buyers) \in Nat
    OBVIOUS
  <1>1. /\ IsFiniteSet(Plays) /\ IsFiniteSet(OnBoard) /\ Cardinality(OnBoard) \in Nat
    BY PlaysFinite DEF OnBoard, TypeOK
  <1> DEFINE f == [i \in Plays |-> attempts[i].customer]
  <1>2. f \in Surjection(Plays, Buyers)
    BY DEF Surjection, Buyers
  <1>3. IsFiniteSet(Buyers)
    BY <1>1, <1>2, FS_Surjection
  <1> QED
    BY <1>1, <1>3, FS_CardinalityType

\* Steps that take no play on or off the board and leave the counters alone.
LEMMA CountersKept ==
    ASSUME CountersInv, Plays' = Plays, UNCHANGED <<plays, players>>,
           status = "cancelled" => status' = "cancelled",
           \A i \in Plays : attempts'[i].customer = attempts[i].customer,
           status' # "cancelled" => \A i \in Plays : Live(i)' <=> Live(i)
    PROVE  CountersMatch'
  <1>1. Buyers' = Buyers
    BY DEF Buyers
  <1>2. status' # "cancelled" => OnBoard' = OnBoard
    BY DEF OnBoard
  <1> QED
    BY <1>1, <1>2 DEF CountersInv, CountersMatch, OnBoard, Buyers

\* A sale adds one play, and one player when it is their first.
LEMMA CountersSale ==
    ASSUME CountersInv, NEW c \in Customers, NEW k \in Keys, NEW now,
           NEW attemptStatus \in {"started", "accepted"}, NEW session,
           StartPlay(c, k, now, attemptStatus, session)
    PROVE  CountersMatch'
  <1> DEFINE id == Len(attempts) + 1
  <1>1. /\ TypeOK /\ attempts \in Seq(Attempt) /\ Plays = 1..Len(attempts) /\ Len(attempts) \in Nat
        /\ status # "cancelled" /\ plays = Cardinality(OnBoard) /\ players = Cardinality(Buyers)
    BY PlaysFinite DEF CountersInv, CountersMatch, BoardInv, TypeOK, StartPlay, OnBoard, Buyers
  <1>2. PICK row : attempts' = Append(attempts, row) /\ row.customer = c /\ row.status # "voided"
    BY DEF StartPlay
  <1>3. /\ Plays' = Plays \cup {id} /\ id \notin Plays
        /\ attempts'[id] = row /\ \A i \in Plays : attempts'[i] = attempts[i]
    BY <1>1, <1>2 DEF Plays
  <1>4. OnBoard' = OnBoard \cup {id} /\ id \notin OnBoard
    BY <1>2, <1>3 DEF OnBoard, Live
  <1>5. Buyers' = Buyers \cup {c}
    BY <1>2, <1>3 DEF Buyers
  <1>6. By(c) = {} <=> c \notin Buyers
    BY DEF By, Buyers
  <1>7. plays' = plays + 1 /\ players' = players + IF By(c) = {} THEN 1 ELSE 0
    BY DEF StartPlay, PostPrize
  <1>8. plays' = Cardinality(OnBoard')
    BY <1>1, <1>4, <1>7, BoardFinite, FS_AddElement
  <1>9. players' = Cardinality(Buyers')
    <2>1. CASE c \in Buyers
      <3>1. Buyers' = Buyers
        BY <1>5, <2>1
      <3> QED
        BY <1>1, <1>6, <1>7, <2>1, <3>1, BoardFinite
    <2>2. CASE c \notin Buyers
      <3>1. Cardinality(Buyers \cup {c}) = Cardinality(Buyers) + 1
        BY <1>1, <2>2, BoardFinite, FS_AddElement
      <3> QED
        BY <1>1, <1>5, <1>6, <1>7, <2>2, <3>1
    <2> QED
      BY <2>1, <2>2
  <1> QED
    BY <1>8, <1>9 DEF CountersMatch, OnBoard, Buyers

\* A void takes one play off the board and no player out of the round.
LEMMA CountersVoid ==
    ASSUME CountersInv, Plays' = Plays, NEW i \in Plays, NEW refund \in BOOLEAN,
           NEW reverse \in BOOLEAN, VoidPlay(i, refund, reverse)
    PROVE  CountersMatch'
  <1> DEFINE owed == IF refund THEN {i} \cap Owed ELSE {}
             row == Voided(attempts[i], i \in owed)
  <1>1. /\ TypeOK /\ status # "cancelled"
        /\ plays = Cardinality(OnBoard) /\ players = Cardinality(Buyers)
    BY DEF CountersInv, CountersMatch, BoardInv, VoidPlay, OnBoard, Buyers
  <1>2. /\ row.status = "voided" /\ row.customer = attempts[i].customer
        /\ attempts' = [attempts EXCEPT ![i] = row] /\ Live(i)
    <2>1. attempts[i] \in Attempt
      BY <1>1 DEF TypeOK, Plays
    <2> QED
      BY <2>1 DEF Voided, Attempt, VoidPlay, Voidable
  <1> HIDE DEF row
  <1>3. \A j \in Plays : attempts'[j] = IF j = i THEN row ELSE attempts[j]
    BY <1>2 DEF Plays
  <1>4. OnBoard' = OnBoard \ {i} /\ i \in OnBoard
    BY <1>2, <1>3 DEF OnBoard, Live
  <1>5. Buyers' = Buyers
    BY <1>2, <1>3 DEF Buyers
  <1>6. plays' = plays - 1 /\ players' = players
    BY <1>1 DEF VoidPlay, PostPrize, TypeOK
  <1>7. plays' = Cardinality(OnBoard')
    BY <1>1, <1>4, <1>6, BoardFinite, FS_RemoveElement
  <1>8. players' = Cardinality(Buyers')
    BY <1>1, <1>5, <1>6
  <1> QED
    BY <1>7, <1>8 DEF CountersMatch, OnBoard, Buyers

\* The counters, over every step.
LEMMA CountersNext ==
    ASSUME CountersInv, BoardInv', RowsKept, Next
    PROVE  CountersMatch'
  <1>1. /\ TypeOK /\ plays \in Int /\ players \in Nat /\ Len(attempts) \in Nat
        /\ Plays = 1..Len(attempts)
        /\ \A i \in Plays : attempts[i] \in Attempt /\ RowHolds(attempts[i], status, method)
        /\ \A i \in Plays : attempts'[i].customer = attempts[i].customer
    BY PlaysFinite DEF CountersInv, BoardInv, TypeOK, Plays, RowsKept
  <1>2. CASE /\ UNCHANGED <<attempts, plays, players>>
             /\ status = "cancelled" => status' = "cancelled"
    BY <1>2, CountersKept DEF Live, Plays
  <1>3. ASSUME NEW s, NEW w, Update(s, w) PROVE CountersMatch'
    BY <1>2, <1>3 DEF Update, prizeVars
  <1>4. CASE Schedule
    <2>1. UNCHANGED <<attempts, plays, players>> /\ status = "draft"
      BY <1>1, <1>4 DEF Schedule, SeedRound, PostPrize, prizeVars
    <2> QED
      BY <1>2, <2>1
  <1>5. ASSUME NEW c \in Customers, NEW k \in Keys, NEW now \in Nows,
               PlaySkill(c, k, now) \/ PlayChance(c, k, now) \/ PlayWin(c, k, now)
        PROVE  CountersMatch'
    BY <1>5, CountersSale DEF PlaySkill, PlayChance, PlayWin
  <1>6. ASSUME NEW i \in Plays,
               \/ ExpireSession(i)
               \/ \E v \in {"accepted", "manual_review", "rejected"} : SaveOfficialScore(i, v)
               \/ \E v \in {"accepted", "rejected"} : ReviewSubmission(i, v)
        PROVE  CountersMatch'
    <2>1. Plays' = Plays /\ UNCHANGED <<status, plays, players>>
      BY <1>6 DEF ExpireSession, SaveOfficialScore, ReviewSubmission, ScoresOnly, prizeVars, Plays
    <2>2. \A j \in Plays : j # i => attempts'[j] = attempts[j]
      BY <1>6 DEF ExpireSession, SaveOfficialScore, ReviewSubmission, Plays
    <2>3. status # "cancelled" => (Live(i)' <=> Live(i))
      <3>1. CASE ExpireSession(i)
        BY <1>1, <3>1 DEF ExpireSession, Live, Attempt, Plays
      <3>2. ASSUME NEW v \in {"accepted", "manual_review", "rejected"}, SaveOfficialScore(i, v)
            PROVE  Live(i)' /\ Live(i)
        BY <1>1, <3>2 DEF SaveOfficialScore, Live, Attempt, Plays, RowHolds
      <3>3. ASSUME NEW v \in {"accepted", "rejected"}, ReviewSubmission(i, v),
                   status # "cancelled"
            PROVE  Live(i)' /\ Live(i)
        BY <1>1, <3>3 DEF ReviewSubmission, Reviewable, Live, Attempt, Plays, RowHolds
      <3> QED
        BY <1>6, <3>1, <3>2, <3>3
    <2> QED
      BY <1>1, <2>1, <2>2, <2>3, CountersKept DEF Live
  <1>7. ASSUME NEW i \in Plays, NEW refund \in BOOLEAN, NEW reverse \in BOOLEAN,
               VoidPlay(i, refund, reverse)
        PROVE  CountersMatch'
    <2>1. Plays' = Plays
      BY <1>7 DEF VoidPlay, Plays
    <2> QED
      BY <1>7, <2>1, CountersVoid
  <1>8. CASE Freeze
    <2>1. Plays' = Plays /\ UNCHANGED <<plays, players>> /\ status = "closed"
      BY <1>8 DEF Freeze, ExpireSessions, Unchanging, prizeVars, Plays
    <2>2. \A i \in Plays : attempts'[i].status = attempts[i].status
      BY <1>1, <1>8 DEF Freeze, ExpireSessions, Attempt, Plays
    <2> QED
      BY <1>1, <2>1, <2>2, CountersKept DEF Live
  <1>9. CASE Cancel
    <2>1. Plays' = Plays /\ status' = "cancelled"
      BY <1>9 DEF Cancel, ExpireSessions, AllVoided, Plays
    <2>2. UNCHANGED <<plays, players>>
      BY <1>1, <1>9 DEF Cancel, PostPrize, prizeVars
    <2> QED
      BY <1>1, <2>1, <2>2, CountersKept
  <1>10. ASSUME NEW d, AdjustPrize(d) PROVE CountersMatch'
    <2>1. UNCHANGED <<attempts, plays, players, status>>
      BY <1>1, <1>10 DEF AdjustPrize, PostPrize
    <2> QED
      BY <1>2, <2>1
  <1>11. CASE Wait \/ Tick \/ NextDay \/ SyncClose \/ SyncOpen \/ Pause \/ Resume \/ Close
    BY <1>2, <1>11 DEF Wait, Tick, NextDay, SyncClose, SyncOpen, Pause, Resume, Close,
                       Unchanging, prizeVars
  <1>12. ASSUME NEW i \in Plays, SubmitOfficial(i) \/ ReadForReview(i) PROVE CountersMatch'
    BY <1>2, <1>12 DEF SubmitOfficial, ReadForReview, ScoresOnly, prizeVars
  <1> QED
    BY <1>3, <1>4, <1>5, <1>6, <1>7, <1>8, <1>9, <1>10, <1>11, <1>12 DEF Next

\* Until a round is cancelled its play counter is the number of plays on the
\* board, and its player counter always the number of players who bought one.
THEOREM CountersFollow == Spec => []CountersMatch
  <1>1. Init => CountersInv
    <2> SUFFICES ASSUME Init PROVE CountersInv
      OBVIOUS
    <2>1. OnBoard = {} /\ Buyers = {} /\ plays = 0 /\ players = 0
      BY DEF Init, OnBoard, Buyers, Plays
    <2> QED
      BY <2>1, BoardInit, FS_EmptySet DEF CountersInv, CountersMatch, OnBoard, Buyers
  <1>2. CountersInv /\ [Next]_vars => CountersInv'
    <2> SUFFICES ASSUME CountersInv, [Next]_vars PROVE CountersInv'
      OBVIOUS
    <2>1. CASE Next
      <3>1. BoardInv' /\ RowsKept
        BY <2>1, BoardNext DEF CountersInv
      <3> QED
        BY <2>1, <3>1, CountersNext DEF CountersInv
    <2>2. CASE UNCHANGED vars
      <3>1. BoardInv'
        BY <2>2, BoardStep DEF CountersInv
      <3> QED
        BY <2>2, <3>1, CountersKept DEF CountersInv, vars, Plays, Live
    <2> QED
      BY <2>1, <2>2
  <1>3. CountersInv => CountersMatch
    BY DEF CountersInv
  <1> QED
    BY <1>1, <1>2, <1>3, PTL DEF Spec

---------------------------------------------------------------------------
(* A round implements the pot of PrizePot, for any players, prizes and     *)
(* limits: every step of PrizeRound is a step of the pot, or leaves it be. *)

\* What the refinement puts in the pot's variables.
Share == [i \in Plays |-> attempts[i].increment]
Counted == {i \in Plays : Live(i) /\ status # "cancelled"}

PotInv == BoardInv /\ PrizeWithinCap

\* What the mapping sends the plays to: a sequence of shares.
LEMMA ShareType ==
    attempts \in Seq(Attempt) => Share \in Seq(Nat) /\ Len(Share) = Len(attempts)
  <1> SUFFICES ASSUME attempts \in Seq(Attempt)
               PROVE  Share \in Seq(Nat) /\ Len(Share) = Len(attempts)
    OBVIOUS
  <1> DEFINE t == Share
  <1>1. DOMAIN t = DOMAIN attempts /\ t = [i \in DOMAIN attempts |-> t[i]]
    BY DEF Share, Plays
  <1>2. ASSUME NEW i \in DOMAIN attempts PROVE t[i] \in Nat
    <2>1. attempts[i] \in Attempt
      OBVIOUS
    <2> QED
      BY <2>1 DEF Share, Plays, Attempt
  <1> HIDE DEF t
  <1>3. t \in Seq(Nat) /\ Len(t) = Len(attempts)
    BY <1>1, <1>2, RowsType
  <1> QED
    BY <1>3 DEF t

\* The prize a step leaves is one the pot may hold.
LEMMA PrizeFits == TypeOK /\ PrizeWithinCap => Pot!Fits(current)
  BY RoundAssumption DEF TypeOK, PrizeWithinCap, Pot!Fits, Unset

\* No step changes an increment, and none that sells no play makes one count.
LEMMA SharesKept ==
    ASSUME TypeOK, TypeOK', RowsKept, Len(attempts') = Len(attempts)
    PROVE  /\ Share' = Share /\ Plays' = Plays
           /\ status' = status => Counted' \subseteq Counted
  <1>1. Plays' = Plays
    BY PlaysFinite DEF TypeOK, Plays
  <1>2. \A i \in Plays : attempts'[i].increment = attempts[i].increment
    BY DEF RowsKept
  <1>3. status' = status => Counted' \subseteq Counted
    BY <1>1 DEF RowsKept, StaysVoid, Counted, Live
  <1> QED
    BY <1>1, <1>2, <1>3 DEF Share

\* Scores and reviews void no play and revive none; in a cancelled round none
\* counts, whatever a review writes.
LEMMA ScoresKeepPot ==
    ASSUME PotInv, PotInv', RowsKept, NEW i \in Plays,
           \/ SubmitOfficial(i) \/ ExpireSession(i) \/ ReadForReview(i)
           \/ \E v \in {"accepted", "manual_review", "rejected"} : SaveOfficialScore(i, v)
           \/ \E v \in {"accepted", "rejected"} : ReviewSubmission(i, v)
    PROVE  UNCHANGED <<Phase, current, Share, Counted>>
  <1>1. /\ attempts[i] \in Attempt /\ RowHolds(attempts[i], status, method)
        /\ attempts \in Seq(Attempt)
    BY DEF PotInv, BoardInv, TypeOK, Plays
  <1>2. UNCHANGED <<Phase, current, status>>
    BY DEF SubmitOfficial, ExpireSession, ReadForReview, SaveOfficialScore, ReviewSubmission,
           ScoresOnly, prizeVars, Phase
  <1>3. DOMAIN attempts' = DOMAIN attempts /\ Len(attempts') = Len(attempts)
    BY <1>1 DEF SubmitOfficial, ExpireSession, ReadForReview, SaveOfficialScore, ReviewSubmission
  <1>4. Share' = Share /\ Plays' = Plays /\ Counted' \subseteq Counted
    BY <1>2, <1>3, SharesKept DEF PotInv, BoardInv
  <1>5. \A j \in Plays : j # i => attempts'[j] = attempts[j]
    BY DEF SubmitOfficial, ExpireSession, ReadForReview, SaveOfficialScore, ReviewSubmission, Plays
  <1>6. Live(i) => attempts'[i].status # "voided"
    BY <1>1 DEF SubmitOfficial, ExpireSession, ReadForReview, SaveOfficialScore, ReviewSubmission,
                   Plays, Live, Attempt
  <1>7. Counted' = Counted
    BY <1>2, <1>4, <1>5, <1>6 DEF Counted, Live
  <1> QED
    BY <1>2, <1>4, <1>7

\* A play is a sale: its increment is its share.
LEMMA PlaySells ==
    ASSUME PotInv, PotInv', NEW c \in Customers, NEW k \in Keys, NEW now \in Nows,
           PlaySkill(c, k, now) \/ PlayChance(c, k, now) \/ PlayWin(c, k, now)
    PROVE  Pot!Sell
  <1> DEFINE id == Len(attempts) + 1
  <1>1. /\ attempts \in Seq(Attempt) /\ attempts' \in Seq(Attempt) /\ current \in Nat
        /\ Plays = 1..Len(attempts) /\ Len(attempts) \in Nat
    BY PlaysFinite DEF PotInv, BoardInv, TypeOK
  <1>2. PlayIncrement \in 0..Increment
    BY PlayIncrementType DEF PotInv, BoardInv
  <1>3. PICK row : /\ attempts' = Append(attempts, row)
                   /\ row.increment = PlayIncrement /\ row.status # "voided"
                   /\ current' = current + PlayIncrement
    BY DEF PlaySkill, PlayChance, PlayWin, StartPlay, PostPrize
  <1>4. /\ Len(attempts') = id /\ Plays' = 1..id
        /\ attempts'[id] = row /\ \A i \in Plays : attempts'[i] = attempts[i]
    BY <1>1, <1>3 DEF Plays
  <1>5. Share' = Append(Share, PlayIncrement)
    <2>1. Share \in Seq(Nat) /\ Len(Share) = Len(attempts)
      BY <1>1, ShareType
    <2>2. Share' \in Seq(Nat) /\ Len(Share') = id
      <3>1. (attempts \in Seq(Attempt) => Share \in Seq(Nat) /\ Len(Share) = Len(attempts))'
        BY ShareType, PTL
      <3> QED
        BY <1>1, <1>4, <3>1
    <2> QED
      BY <1>1, <1>2, <1>3, <1>4, <2>1, <2>2, SeqEqual DEF Share
  <1>6. Counted' = Counted \cup {id}
    <2>1. status # "cancelled" /\ status' # "cancelled"
      BY DEF PlaySkill, PlayChance, PlayWin, StartPlay
    <2> QED
      BY <1>1, <1>3, <1>4, <2>1 DEF Counted, Live
  <1>7. Phase = "open" /\ Phase' \in {"open", "settling"}
    BY DEF PlaySkill, PlayChance, PlayWin, StartPlay, Phase
  <1>8. Pot!Fits(current')
    <2>1. (TypeOK /\ PrizeWithinCap => Pot!Fits(current))'
      BY PrizeFits, PTL
    <2> QED
      BY <2>1 DEF PotInv, BoardInv, Pot!Fits
  <1>9. Len(Share) = Len(attempts)
    BY <1>1, ShareType
  <1> QED
    BY <1>2, <1>3, <1>5, <1>6, <1>7, <1>8, <1>9 DEF Pot!Sell, Pot!Fits, Share, Counted

\* A void takes one play back, with its share or without.
LEMMA VoidTakesBack ==
    ASSUME PotInv, PotInv', RowsKept, NEW i \in Plays,
           NEW refund \in BOOLEAN, NEW reverse \in BOOLEAN, VoidPlay(i, refund, reverse)
    PROVE  Pot!TakeBack
  <1> DEFINE owed == IF refund THEN {i} \cap Owed ELSE {}
             row == Voided(attempts[i], i \in owed)
  <1>1. /\ attempts[i] \in Attempt /\ attempts \in Seq(Attempt) /\ Live(i)
        /\ attempts' = [attempts EXCEPT ![i] = row]
    <2>1. attempts[i] \in Attempt /\ attempts \in Seq(Attempt)
      BY DEF PotInv, BoardInv, TypeOK, Plays
    <2>2. Live(i)
      BY DEF VoidPlay, Voidable
    <2>3. attempts' = [attempts EXCEPT ![i] = row]
      BY DEF VoidPlay
    <2> QED
      BY <2>1, <2>2, <2>3
  <1>2. Share' = Share /\ Plays' = Plays
    <2>1. Len(attempts') = Len(attempts)
      BY <1>1
    <2> QED
      BY <2>1, SharesKept DEF PotInv, BoardInv
  <1>3. Counted' = Counted \ {i}
    <2>1. row.status = "voided"
      BY <1>1 DEF Voided, Attempt
    <2>2. \A j \in Plays : attempts'[j] = IF j = i THEN row ELSE attempts[j]
      BY <1>1 DEF Plays
    <2>3. status # "cancelled" /\ status' = status
      BY DEF VoidPlay
    <2> HIDE DEF row
    <2> QED
      BY <1>2, <2>1, <2>2, <2>3 DEF Counted, Live
  <1>4. current' \in {current, current - Share[i]} /\ current' \in Nat
    <2>1. \/ PostPrize("play_reversal", -attempts[i].increment, i, -1, 0)
          \/ PostPrize("", 0, i, -1, 0)
      BY DEF VoidPlay
    <2>2. attempts[i].increment \in Nat /\ current \in Nat /\ current' \in Nat
      BY <1>1 DEF Attempt, PotInv, BoardInv, TypeOK
    <2> QED
      BY <2>1, <2>2 DEF PostPrize, Share
  <1>5. Phase \in {"open", "held", "settling"} /\ Phase' = Phase
    BY DEF VoidPlay, Phase
  <1>6. i \in Counted
    BY <1>1 DEF Counted, VoidPlay
  <1> QED
    BY <1>2, <1>3, <1>4, <1>5, <1>6 DEF Pot!TakeBack, Share, Counted

\* Cancelling empties the pot and takes every play back.
LEMMA CancelWithdraws ==
    ASSUME PotInv, PotInv', RowsKept, Cancel
    PROVE  Pot!Withdraw
  <1>1. attempts \in Seq(Attempt) /\ attempts' = ExpireSessions(AllVoided) /\ current \in Nat
    BY DEF PotInv, BoardInv, TypeOK, Cancel
  <1>2. Share' = Share /\ Plays' = Plays
    <2>1. Len(attempts') = Len(attempts)
      BY <1>1, AllVoidedType, ExpireSessionsType
    <2> QED
      BY <2>1, SharesKept DEF PotInv, BoardInv
  <1>3. Counted' = {}
    BY DEF Cancel, Counted
  <1>4. current' = 0
    BY <1>1 DEF Cancel, PostPrize, prizeVars
  <1>5. Phase \notin {"paid", "withdrawn"} /\ Phase' = "withdrawn"
    BY DEF Cancel, Phase, PotInv, BoardInv, TypeOK, Statuses
  <1> QED
    BY <1>2, <1>3, <1>4, <1>5 DEF Pot!Withdraw, Share, Counted

\* The other steps leave the plays be.
LEMMA OthersStep ==
    ASSUME PotInv, PotInv',
           \/ \E s \in StartPrizes, w \in {"before", "open", "over"} : Update(s, w)
           \/ Wait \/ Schedule \/ Tick \/ NextDay \/ SyncClose \/ SyncOpen
           \/ Pause \/ Resume \/ Close
           \/ \E d \in AdjustDeltas : AdjustPrize(d)
    PROVE  Pot!PotNext \/ UNCHANGED <<Phase, current, Share, Counted>>
  <1>1. UNCHANGED <<Share, Counted>>
    <2>1. UNCHANGED attempts /\ (status = "cancelled" <=> status' = "cancelled")
      BY DEF Update, Wait, Schedule, Tick, NextDay, SyncClose, SyncOpen, Pause, Resume, Close,
             AdjustPrize, Unchanging
    <2> QED
      BY <2>1 DEF Share, Counted, Plays, Live
  <1>2. Pot!Fits(current')
    <2>1. (TypeOK /\ PrizeWithinCap => Pot!Fits(current))'
      BY PrizeFits, PTL
    <2> QED
      BY <2>1 DEF PotInv, BoardInv, Pot!Fits
  <1>3. ASSUME NEW s, NEW w, Update(s, w)
        PROVE  Pot!Unpublish \/ UNCHANGED <<Phase, current, Share, Counted>>
    BY <1>1, <1>3 DEF Update, Phase, Pot!Unpublish, Share, Counted, prizeVars
  <1>4. CASE Schedule
    BY <1>1, <1>2, <1>4 DEF Schedule, Phase, Pot!PotNext, Pot!Publish, Share, Counted
  <1>5. CASE SyncClose \/ Close
    BY <1>1, <1>5 DEF SyncClose, Close, Unchanging, prizeVars, Phase, Pot!PotNext, Pot!Stop,
                      Share, Counted
  <1>6. CASE Pause \/ Resume
    BY <1>1, <1>6 DEF Pause, Resume, Unchanging, prizeVars, Phase, Pot!PotNext, Pot!Hold,
                      Pot!Release, Share, Counted
  <1>7. CASE SyncOpen \/ Wait \/ Tick \/ NextDay
    BY <1>1, <1>7 DEF SyncOpen, Wait, Tick, NextDay, Unchanging, prizeVars, Phase
  <1>8. ASSUME NEW d \in AdjustDeltas, AdjustPrize(d) PROVE Pot!Adjust
    BY <1>1, <1>2, <1>8 DEF AdjustPrize, Phase, Pot!Adjust, Share, Counted
  <1> QED
    BY <1>3, <1>4, <1>5, <1>6, <1>7, <1>8 DEF Pot!PotNext

\* The freeze closes sessions only.
LEMMA FreezeKeepsPot ==
    ASSUME PotInv, PotInv', RowsKept, Freeze
    PROVE  UNCHANGED <<Phase, current, Share, Counted>>
  <1>1. attempts \in Seq(Attempt) /\ attempts' = ExpireSessions(attempts)
    BY DEF PotInv, BoardInv, TypeOK, Freeze
  <1>2. Share' = Share /\ Plays' = Plays
    <2>1. Len(attempts') = Len(attempts)
      BY <1>1, ExpireSessionsType
    <2> QED
      BY <2>1, SharesKept DEF PotInv, BoardInv
  <1>3. ASSUME NEW i \in Plays PROVE attempts'[i].status = attempts[i].status
    <2>1. attempts[i] \in Attempt
      BY <1>1 DEF Plays
    <2> QED
      BY <1>1, <2>1 DEF ExpireSessions, Attempt, Plays
  <1>4. Counted' = Counted
    BY <1>2, <1>3 DEF Counted, Live, Freeze
  <1> QED
    BY <1>2, <1>4 DEF Freeze, Unchanging, prizeVars, Phase

-----------------------------------------------------------------------------

\* Every step of a round is a step of its pot, or none.
LEMMA StepIsPotStep ==
    ASSUME PotInv, PotInv', [Next]_vars
    PROVE  [Pot!PotNext]_(Pot!potVars)
  <1>1. CASE UNCHANGED vars
    BY <1>1 DEF vars, Pot!potVars, Phase, Plays, Live
  <1>2. CASE Next
    <2>1. RowsKept
      BY <1>2, BoardNext DEF PotInv
    <2>2. Pot!PotNext \/ UNCHANGED <<Phase, current, Share, Counted>>
      BY <1>2, <2>1, ScoresKeepPot, PlaySells, VoidTakesBack, CancelWithdraws, OthersStep,
         FreezeKeepsPot DEF Next, Pot!PotNext
    <2> QED
      BY <2>2 DEF Pot!potVars, Share, Counted
  <1> QED
    BY <1>1, <1>2

\* A draft is an unopened pot.
LEMMA InitIsPotInit == Init => Pot!PotInit
  <1> SUFFICES ASSUME Init PROVE Pot!PotInit
    OBVIOUS
  <1>1. attempts = <<>> /\ attempts \in Seq(Attempt)
    BY TypeInit DEF Init, TypeOK
  <1>2. Share \in Seq(Nat) /\ Len(Share) = 0
    BY <1>1, ShareType
  <1>3. Share = <<>>
    BY <1>2, EmptySeq
  <1>4. Counted = {}
    BY <1>1 DEF Counted, Plays
  <1>5. Phase = "hidden" /\ current = 0
    BY DEF Init, Phase
  <1> QED
    BY <1>3, <1>4, <1>5 DEF Pot!PotInit, Share, Counted

\* The prize engine keeps the promises of the pot: every play counts once
\* and raises the prize by at most the increment, a play taken back lowers it
\* by its share or not at all and never counts again, and a cancelled round's
\* prize is empty for good, with no play counting towards it.
THEOREM RoundImplementsPot == Spec => ImplementsPot
  <1>1. Spec => []PotInv
    BY BoardInvariant, PrizeCapped, PTL DEF PotInv
  <1> QED
    BY <1>1, InitIsPotInit, StepIsPotStep, PTL DEF Spec, ImplementsPot, Pot!PotSpec


---------------------------------------------------------------------------
(* The reconciliation. What its checks compare is kept in step by every    *)
(* transaction: the sum of the ledger, the entries of the plays, and who   *)
(* was debited.                                                            *)

Raised == {i \in Plays : attempts[i].increment > 0}

\* The sum of the ledger is the prize; a play's entry is what it raised the
\* prize by, a reversal what a play had raised it by that is voided, unless
\* the round is cancelled; and every play that raised it has its entry.
EntriesTell ==
    /\ LedgerSum = current
    /\ \A n \in DOMAIN ledger : ledger[n].type = "play_increment" =>
         ledger[n].ref \in Plays /\ ledger[n].delta = attempts[ledger[n].ref].increment
    /\ \A n \in DOMAIN ledger : ledger[n].type = "play_reversal" =>
         /\ ledger[n].ref \in Plays
         /\ status # "cancelled" => attempts[ledger[n].ref].status = "voided"
         /\ ledger[n].delta = -attempts[ledger[n].ref].increment
    /\ Cardinality(Entries("play_increment")) = Cardinality(Raised)

TellsInv == BoardInv /\ EntriesTell

LEMMA LedgerFinite ==
    ASSUME TypeOK
    PROVE  /\ IsFiniteSet(DOMAIN ledger)
           /\ \A t : IsFiniteSet(Entries(t)) /\ Cardinality(Entries(t)) \in Nat
           /\ IsFiniteSet(Raised) /\ Cardinality(Raised) \in Nat
  <1>1. IsFiniteSet(1..Len(ledger)) /\ DOMAIN ledger = 1..Len(ledger)
    BY FS_Interval DEF TypeOK
  <1>2. ASSUME NEW t PROVE IsFiniteSet(Entries(t)) /\ Cardinality(Entries(t)) \in Nat
    <2>1. Entries(t) \subseteq DOMAIN ledger
      BY DEF Entries
    <2> QED
      BY <1>1, <2>1, FS_Subset, FS_CardinalityType
  <1>3. IsFiniteSet(Raised) /\ Cardinality(Raised) \in Nat
    <2>1. Raised \subseteq Plays /\ IsFiniteSet(Plays)
      BY PlaysFinite DEF Raised, TypeOK
    <2> QED
      BY <2>1, FS_Subset, FS_CardinalityType
  <1> QED
    BY <1>1, <1>2, <1>3

\* One more entry.
LEMMA EntryAppended ==
    ASSUME TypeOK, NEW e, e.delta \in Int, ledger' = Append(ledger, e)
    PROVE  /\ DOMAIN ledger' = DOMAIN ledger \cup {Len(ledger) + 1}
           /\ Len(ledger) + 1 \notin DOMAIN ledger
           /\ ledger'[Len(ledger) + 1] = e /\ \A n \in DOMAIN ledger : ledger'[n] = ledger[n]
           /\ LedgerSum' = LedgerSum + e.delta
           /\ \A t : Entries(t)' = IF e.type = t THEN Entries(t) \cup {Len(ledger) + 1}
                                                ELSE Entries(t)
  <1> DEFINE len == Len(ledger)
  <1>1. /\ ledger \in Seq(PrizeEntry) /\ len \in Nat /\ DOMAIN ledger = 1..len
        /\ \A n \in DOMAIN ledger : ledger[n].delta \in Int
    <2>1. ledger \in Seq(PrizeEntry)
      BY DEF TypeOK
    <2>2. \A n \in DOMAIN ledger : ledger[n] \in PrizeEntry
      BY <2>1
    <2> QED
      BY <2>1, <2>2 DEF PrizeEntry
  <1>2. /\ DOMAIN ledger' = DOMAIN ledger \cup {len + 1} /\ len + 1 \notin DOMAIN ledger
        /\ ledger'[len + 1] = e /\ \A n \in DOMAIN ledger : ledger'[n] = ledger[n]
    BY <1>1
  <1>3. LedgerSum' = LedgerSum + e.delta
    <2>1. PICK f : f = [n \in DOMAIN ledger |-> ledger[n].delta]
      OBVIOUS
    <2>2. PICK g : g = [n \in DOMAIN ledger' |-> ledger'[n].delta]
      OBVIOUS
    <2>3. IsFiniteSet(DOMAIN ledger) /\ \A n \in DOMAIN ledger : f[n] = g[n]
      BY <1>2, <2>1, <2>2, LedgerFinite
    <2>4. SumFunctionOnSet(f, DOMAIN ledger) = SumFunctionOnSet(g, DOMAIN ledger)
      BY <2>3, SumEqual
    <2>5. \A n \in DOMAIN ledger \cup {len + 1} : g[n] \in Int
      BY <1>1, <1>2, <2>2
    <2>6. SumFunctionOnSet(g, DOMAIN ledger \cup {len + 1})
            = SumFunctionOnSet(g, DOMAIN ledger) + g[len + 1]
      BY <1>2, <2>3, <2>5, SumAdd
    <2>7. g[len + 1] = e.delta
      BY <1>2, <2>2
    <2>8. LedgerSum = SumFunctionOnSet(f, DOMAIN ledger)
      BY <2>1, Zenon DEF LedgerSum
    <2>9. LedgerSum' = SumFunctionOnSet(g, DOMAIN ledger')
      BY <2>2, Zenon DEF LedgerSum
    <2> QED
      BY <1>2, <2>4, <2>6, <2>7, <2>8, <2>9
  <1>4. ASSUME NEW t
        PROVE  Entries(t)' = IF e.type = t THEN Entries(t) \cup {len + 1} ELSE Entries(t)
    BY <1>2 DEF Entries
  <1> QED
    BY <1>2, <1>3, <1>4

\* A step that sells no play, and posts nothing or an entry that tells the truth.
Posts(e) ==
    /\ ledger' = Append(ledger, e) /\ e.delta \in Int
    /\ current' = current + e.delta /\ e.type # "play_increment"
    /\ e.type = "play_reversal" =>
         /\ e.ref \in Plays /\ attempts'[e.ref].status = "voided"
         /\ e.delta = -attempts[e.ref].increment

LEMMA TellsKept ==
    ASSUME TellsInv, BoardInv', RowsKept, Plays' = Plays,
           status = "cancelled" => status' = "cancelled",
           \/ UNCHANGED <<current, ledger>>
           \/ \E e : Posts(e)
    PROVE  EntriesTell'
  <1>1. TypeOK /\ EntriesTell
    BY DEF TellsInv, BoardInv
  <1>2. \A i \in Plays : /\ attempts'[i].increment = attempts[i].increment
                         /\ status # "cancelled" /\ attempts[i].status = "voided" =>
                              attempts'[i].status = "voided"
    BY DEF RowsKept, StaysVoid, Live
  <1>3. Raised' = Raised
    BY <1>2 DEF Raised
  <1>4. CASE UNCHANGED <<current, ledger>>
    <2>1. LedgerSum' = LedgerSum /\ Entries("play_increment")' = Entries("play_increment")
      BY <1>4 DEF LedgerSum, Entries
    <2> QED
      BY <1>1, <1>2, <1>3, <1>4, <2>1 DEF EntriesTell
  <1>5. ASSUME NEW e, Posts(e)
        PROVE  EntriesTell'
    <2>1. /\ DOMAIN ledger' = DOMAIN ledger \cup {Len(ledger) + 1}
          /\ ledger'[Len(ledger) + 1] = e /\ \A n \in DOMAIN ledger : ledger'[n] = ledger[n]
          /\ LedgerSum' = LedgerSum + e.delta
          /\ Entries("play_increment")' = Entries("play_increment")
      BY <1>1, <1>5, EntryAppended DEF Posts
    <2> QED
      BY <1>1, <1>2, <1>3, <1>5, <2>1 DEF EntriesTell, Posts
  <1> QED
    BY <1>4, <1>5

\* A sale adds one play, and the entry of what it raised the prize by, if at all.
LEMMA TellsSale ==
    ASSUME TellsInv, NEW c \in Customers, NEW k \in Keys, NEW now, NEW attemptStatus, NEW session,
           StartPlay(c, k, now, attemptStatus, session)
    PROVE  EntriesTell'
  <1> DEFINE id == Len(attempts) + 1
             inc == PlayIncrement
  <1>1. /\ TypeOK /\ EntriesTell /\ attempts \in Seq(Attempt) /\ Plays = 1..Len(attempts)
        /\ Len(attempts) \in Nat /\ id \in Nat /\ current \in Nat
        /\ ledger \in Seq(PrizeEntry) /\ inc \in Nat
    BY PlaysFinite, PlayIncrementType DEF TellsInv, BoardInv, TypeOK
  <1>2. PICK row : attempts' = Append(attempts, row) /\ row.increment = inc
    BY DEF StartPlay
  <1>3. /\ Plays' = Plays \cup {id} /\ id \notin Plays
        /\ attempts'[id] = row /\ \A i \in Plays : attempts'[i] = attempts[i]
    BY <1>1, <1>2 DEF Plays
  <1>4. Raised' = IF inc > 0 THEN Raised \cup {id} ELSE Raised
    BY <1>2, <1>3 DEF Raised
  <1>5. status # "cancelled"
    BY DEF StartPlay
  <1>6. PICK newcomers : PostPrize("play_increment", inc, id, 1, newcomers)
    BY DEF StartPlay
  <1> HIDE DEF inc, id
  <1>7. CASE inc = 0
    <2>1. UNCHANGED <<current, ledger>> /\ Raised' = Raised
      BY <1>1, <1>4, <1>6, <1>7 DEF PostPrize
    <2>2. LedgerSum' = LedgerSum /\ Entries("play_increment")' = Entries("play_increment")
      BY <2>1 DEF LedgerSum, Entries
    <2> QED
      BY <1>1, <1>3, <1>5, <2>1, <2>2 DEF EntriesTell
  <1>8. CASE inc > 0
    <2>1. PICK e : /\ e = [type |-> "play_increment", delta |-> inc,
                           after |-> current + inc, ref |-> id]
                   /\ ledger' = Append(ledger, e) /\ current' = current + inc
      BY <1>1, <1>6, <1>8 DEF PostPrize
    <2>2. e.type = "play_increment" /\ e.delta = inc /\ e.ref = id /\ e.delta \in Int
      BY <1>1, <2>1
    <2>3. /\ DOMAIN ledger' = DOMAIN ledger \cup {Len(ledger) + 1}
          /\ Len(ledger) + 1 \notin DOMAIN ledger
          /\ ledger'[Len(ledger) + 1] = e /\ \A n \in DOMAIN ledger : ledger'[n] = ledger[n]
          /\ LedgerSum' = LedgerSum + inc
          /\ Entries("play_increment")' = Entries("play_increment") \cup {Len(ledger) + 1}
      BY <1>1, <2>1, <2>2, EntryAppended
    <2>4. Len(ledger) + 1 \notin Entries("play_increment")
      BY <2>3 DEF Entries
    <2>5. id \notin Raised /\ Raised' = Raised \cup {id}
      BY <1>3, <1>4, <1>8 DEF Raised
    <2>6. /\ Cardinality(Raised') = Cardinality(Raised) + 1
          /\ Cardinality(Entries("play_increment")') = Cardinality(Entries("play_increment")) + 1
      BY <1>1, <2>3, <2>4, <2>5, LedgerFinite, FS_AddElement
    <2>7. LedgerSum' = current' /\ Cardinality(Raised') = Cardinality(Entries("play_increment")')
      BY <1>1, <2>1, <2>3, <2>6 DEF EntriesTell
    <2>8. \A n \in DOMAIN ledger' : ledger'[n].type = "play_increment" =>
            ledger'[n].ref \in Plays' /\ ledger'[n].delta = attempts'[ledger'[n].ref].increment
      <3>1. ASSUME NEW n \in DOMAIN ledger, ledger[n].type = "play_increment"
            PROVE  /\ ledger'[n].ref \in Plays'
                   /\ ledger'[n].delta = attempts'[ledger'[n].ref].increment
        BY <1>1, <1>3, <2>3, <3>1 DEF EntriesTell
      <3>2. e.ref \in Plays' /\ e.delta = attempts'[e.ref].increment
        BY <1>2, <1>3, <2>2
      <3> QED
        BY <2>3, <3>1, <3>2
    <2>9. \A n \in DOMAIN ledger' : ledger'[n].type = "play_reversal" =>
            /\ ledger'[n].ref \in Plays'
            /\ status' # "cancelled" => attempts'[ledger'[n].ref].status = "voided"
            /\ ledger'[n].delta = -attempts'[ledger'[n].ref].increment
      BY <1>1, <1>3, <1>5, <2>2, <2>3 DEF EntriesTell
    <2> QED
      BY <2>7, <2>8, <2>9 DEF EntriesTell
  <1> QED
    BY <1>1, <1>7, <1>8

\* The entries, over every step.
LEMMA TellsNext ==
    ASSUME TellsInv, BoardInv', RowsKept, Next
    PROVE  EntriesTell'
  <1>1. /\ TypeOK /\ EntriesTell /\ current \in Int /\ Plays = 1..Len(attempts)
        /\ \A i \in Plays : i \in Nat /\ attempts[i] \in Attempt
        /\ status = "cancelled" => status' = "cancelled"
    BY PlaysFinite, NextMovesStatus DEF TellsInv, BoardInv, TypeOK, Plays, StatusMove
  <1>2. ASSUME Plays' = Plays, UNCHANGED <<current, ledger>> PROVE EntriesTell'
    BY <1>1, <1>2, TellsKept
  <1>3. ASSUME NEW type \in {"seed", "correction", "admin_adjustment"}, NEW delta \in Int,
               NEW more, NEW ref, Plays' = Plays, PostPrize(type, delta, ref, more, 0)
        PROVE  EntriesTell'
    <2>1. CASE delta # 0 \/ type = "seed"
      <3>1. PICK e : /\ e = [type |-> type, delta |-> delta, after |-> current + delta, ref |-> ref]
                     /\ ledger' = Append(ledger, e) /\ current' = current + delta
        BY <1>3, <2>1 DEF PostPrize
      <3>2. Posts(e)
        BY <1>3, <3>1 DEF Posts
      <3> QED
        BY <1>1, <1>3, <3>2, TellsKept
    <2>2. CASE delta = 0 /\ type # "seed"
      <3>1. current' = current
        <4>1. current' = current + delta
          BY <1>3 DEF PostPrize
        <4> QED
          BY <1>1, <2>2, <4>1
      <3>2. ledger' = ledger
        BY <1>3, <2>2, Zenon DEF PostPrize
      <3> QED
        BY <1>1, <1>3, <3>1, <3>2, TellsKept
    <2> QED
      BY <2>1, <2>2
  <1>6. ASSUME NEW s, NEW w, Update(s, w) PROVE EntriesTell'
    BY <1>2, <1>6 DEF Update, prizeVars, Plays
  <1>7. CASE Schedule
    <2>1. start - current \in Int
      BY <1>1, RoundAssumption DEF TypeOK
    <2>2. Plays' = Plays
      BY <1>7 DEF Schedule, Plays
    <2>3. CASE UNCHANGED prizeVars
      BY <1>2, <2>2, <2>3 DEF prizeVars
    <2>4. CASE PostPrize("seed", start - current, 0, 0, 0)
      BY <1>3, <2>1, <2>2, <2>4
    <2>5. CASE PostPrize("correction", start - current, 0, 0, 0)
      BY <1>3, <2>1, <2>2, <2>5
    <2> QED
      BY <1>7, <2>3, <2>4, <2>5 DEF Schedule, SeedRound
  <1>8. ASSUME NEW c \in Customers, NEW k \in Keys, NEW now \in Nows,
               PlaySkill(c, k, now) \/ PlayChance(c, k, now) \/ PlayWin(c, k, now)
        PROVE  EntriesTell'
    BY <1>8, TellsSale DEF PlaySkill, PlayChance, PlayWin
  <1>9. ASSUME NEW i \in Plays,
               \/ SubmitOfficial(i) \/ ExpireSession(i) \/ ReadForReview(i)
               \/ \E v \in {"accepted", "manual_review", "rejected"} : SaveOfficialScore(i, v)
               \/ \E v \in {"accepted", "rejected"} : ReviewSubmission(i, v)
        PROVE  EntriesTell'
    <2>1. Plays' = Plays /\ UNCHANGED <<current, ledger>>
      BY <1>9 DEF SubmitOfficial, ExpireSession, ReadForReview, SaveOfficialScore,
                  ReviewSubmission, ScoresOnly, prizeVars, Plays
    <2> QED
      BY <1>2, <2>1
  <1>10. ASSUME NEW i \in Plays, NEW refund \in BOOLEAN, NEW reverse \in BOOLEAN,
               VoidPlay(i, refund, reverse)
        PROVE  EntriesTell'
    <2>1. Plays' = Plays
      BY <1>10 DEF VoidPlay, Plays
    <2>3. attempts'[i].status = "voided"
      BY <1>1, <1>10 DEF VoidPlay, Voided, Attempt, Plays
    <2>4. PICK delta \in Int : delta = -attempts[i].increment
      BY <1>1 DEF Attempt
    <2>5. CASE delta # 0 /\ PostPrize("play_reversal", delta, i, -1, 0)
      <3>1. PICK e : /\ e = [type |-> "play_reversal", delta |-> delta,
                             after |-> current + delta, ref |-> i]
                     /\ ledger' = Append(ledger, e) /\ current' = current + delta
        BY <2>5 DEF PostPrize
      <3>2. Posts(e)
        BY <2>3, <2>4, <3>1 DEF Posts
      <3> QED
        BY <1>1, <2>1, <3>2, TellsKept
    <2>6. CASE PostPrize("", 0, i, -1, 0)
      <3>1. "" # "seed" /\ current + 0 = current
        BY <1>1
      <3>2. UNCHANGED <<current, ledger>>
        BY <2>6, <3>1 DEF PostPrize
      <3> QED
        BY <1>1, <2>1, <3>2, TellsKept
    <2>7. \/ delta # 0 /\ PostPrize("play_reversal", delta, i, -1, 0)
          \/ PostPrize("", 0, i, -1, 0)
      <3>1. attempts[i].increment \in Nat
        BY <1>1 DEF Attempt
      <3>2. \/ PostPrize("", 0, i, -1, 0)
            \/ /\ attempts[i].increment > 0
               /\ PostPrize("play_reversal", -attempts[i].increment, i, -1, 0)
        BY <1>10, Zenon DEF VoidPlay
      <3>3. CASE /\ attempts[i].increment > 0
                 /\ PostPrize("play_reversal", -attempts[i].increment, i, -1, 0)
        <4>1. delta # 0
          BY <2>4, <3>1, <3>3
        <4>2. PostPrize("play_reversal", delta, i, -1, 0)
          BY <2>4, <3>3, Zenon
        <4> QED
          BY <4>1, <4>2
      <3> QED
        BY <3>2, <3>3
    <2> QED
      BY <2>5, <2>6, <2>7
  <1>11. CASE Freeze
    BY <1>2, <1>11 DEF Freeze, ExpireSessions, Unchanging, prizeVars, Plays
  <1>12. CASE Cancel
    <2>1. Plays' = Plays
      BY <1>12 DEF Cancel, ExpireSessions, AllVoided, Plays
    <2>3. CASE UNCHANGED prizeVars
      BY <1>1, <2>1, <2>3, TellsKept DEF prizeVars
    <2>4. CASE PostPrize("correction", -current, 0, 0, 0)
      <3>1. -current \in Int
        BY <1>1
      <3> QED
        BY <1>3, <2>1, <2>4, <3>1
    <2> QED
      BY <1>12, <2>3, <2>4 DEF Cancel
  <1>13. ASSUME NEW d \in AdjustDeltas, AdjustPrize(d) PROVE EntriesTell'
    <2>1. Plays' = Plays /\ d \in Int /\ PostPrize("admin_adjustment", d, 0, 0, 0)
      BY <1>13, RoundAssumption DEF AdjustPrize, Plays
    <2> QED
      BY <1>3, <2>1
  <1>14. CASE Wait \/ Tick \/ NextDay \/ SyncClose \/ SyncOpen \/ Pause \/ Resume \/ Close
    BY <1>2, <1>14 DEF Wait, Tick, NextDay, SyncClose, SyncOpen, Pause, Resume, Close,
                       Unchanging, prizeVars, Plays
  <1> QED
    BY <1>6, <1>7, <1>8, <1>9, <1>10, <1>11, <1>12, <1>13, <1>14 DEF Next

LEMMA TellsInvariant == Spec => []TellsInv
  <1>1. Init => TellsInv
    <2> SUFFICES ASSUME Init PROVE TellsInv
      OBVIOUS
    <2>1. Raised = {} /\ DOMAIN ledger = {} /\ Entries("play_increment") = {}
      BY DEF Init, Raised, Entries, Plays
    <2>2. LedgerSum = 0
      BY <2>1, SumEmpty DEF LedgerSum
    <2> QED
      BY <2>1, <2>2, BoardInit, FS_EmptySet DEF TellsInv, EntriesTell, Init
  <1>2. TellsInv /\ [Next]_vars => TellsInv'
    <2> SUFFICES ASSUME TellsInv, [Next]_vars PROVE TellsInv'
      OBVIOUS
    <2>1. CASE Next
      <3>1. BoardInv' /\ RowsKept
        BY <2>1, BoardNext DEF TellsInv
      <3> QED
        BY <2>1, <3>1, TellsNext DEF TellsInv
    <2>2. CASE UNCHANGED vars
      <3>1. BoardInv'
        BY <2>2, BoardStep DEF TellsInv
      <3>2. /\ LedgerSum' = LedgerSum /\ Entries("play_increment")' = Entries("play_increment")
            /\ Raised' = Raised
        BY <2>2 DEF vars, LedgerSum, Entries, Raised, Plays
      <3> QED
        BY <2>2, <3>1, <3>2 DEF TellsInv, EntriesTell, vars, Plays
    <2> QED
      BY <2>1, <2>2
  <1> QED
    BY <1>1, <1>2, PTL DEF Spec

\* As many rows of one type as plays they are about, when there is one for
\* each of those plays and none for another.
LEMMA OneRowEach ==
    ASSUME NEW type, NEW S, IsFiniteSet(S),
           \A i \in S : [type |-> type, attempt |-> i] \in points,
           \A p \in points : p.type = type => p.attempt \in S,
           points \subseteq PointsEntry
    PROVE  Cardinality(PointsRows(type)) = Cardinality(S)
  <1> DEFINE f == [i \in S |-> [type |-> type, attempt |-> i]]
  <1>1. \A i \in S : f[i] \in PointsRows(type) /\ f[i].attempt = i
    BY DEF PointsRows
  <1>2. ASSUME NEW p \in PointsRows(type) PROVE \E i \in S : f[i] = p
    <2>1. p \in points /\ p.type = type /\ p.attempt \in S
      BY DEF PointsRows
    <2>2. p = [type |-> type, attempt |-> p.attempt]
      BY <2>1 DEF PointsEntry
    <2> QED
      BY <2>1, <2>2
  <1>3. f \in Bijection(S, PointsRows(type))
    <2>1. f \in [S -> PointsRows(type)]
      BY <1>1
    <2>2. \A i, j \in S : f[i] = f[j] => i = j
      BY <1>1
    <2> HIDE DEF f
    <2> QED
      BY <1>2, <2>1, <2>2 DEF Bijection, Injection, Surjection, IsInjective
  <1> QED
    BY <1>3, FS_Bijection DEF ExistsBijection

\* What every check of the reconciliation finds.
LEMMA TruthReported ==
    ASSUME TellsInv, LedgerInv, PrizeWithinCap, CountersMatch, PointsConserved, FreeNotRefunded
    PROVE  ReconcileClean
  <1> SUFFICES ASSUME status # "cancelled"
               PROVE  IF unit = "legacy" THEN Discrepancies = {}
                      ELSE /\ Discrepancies \subseteq PointsChecks
                           /\ attempts # <<>> =>
                                {"pointsDebits", "debitAmounts"} \subseteq Discrepancies
                           /\ (\E i \in Plays : Refunded(i)) =>
                                {"pointsRefunds", "refundAmounts"} \subseteq Discrepancies
    BY Zenon DEF ReconcileClean
  <1> DEFINE Given == {i \in Plays : Refunded(i)}
             NoDebit == {i \in Plays : Cost > 0 /\
                           [type |-> "play_debit", attempt |-> i] \notin points}
             NoRefund == {i \in Plays : Refunded(i) /\
                           [type |-> "play_refund", attempt |-> i] \notin points}
  <1>1. /\ TypeOK /\ EntriesTell /\ LedgerIsChain /\ current \in Nat
        /\ points \subseteq PointsEntry /\ attempts \in Seq(Attempt)
        /\ Plays = 1..Len(attempts) /\ Len(attempts) \in Nat /\ IsFiniteSet(Plays)
        /\ \A i \in Plays : attempts[i] \in Attempt
    <2>1. TypeOK
      BY DEF TellsInv, BoardInv
    <2>2. \A i \in Plays : attempts[i] \in Attempt
      BY <2>1 DEF TypeOK, Plays
    <2> QED
      BY <2>1, <2>2, PlaysFinite DEF TellsInv, LedgerInv, TypeOK
  <1>2. Expected = current
    <2>1. LedgerSum = current /\ ~(LedgerSum < 0)
      BY <1>1 DEF EntriesTell
    <2>2. MaxPrize # Unset => ~(current > MaxPrize)
      BY <1>1, RoundAssumption DEF PrizeWithinCap
    <2> QED
      BY <2>1, <2>2 DEF Expected
  <1>3. LedgerSum = LastBalance
    BY <1>1 DEF EntriesTell, LedgerIsChain, LastBalance
  <1>4. Cardinality({i \in Plays : Live(i)}) = plays
    BY DEF CountersMatch
  <1>5. Cardinality({i \in Plays : attempts[i].increment > 0})
          = Cardinality(Entries("play_increment"))
    BY <1>1 DEF EntriesTell, Raised
  <1>6. {n \in Entries("play_increment") :
           ledger[n].delta # attempts[ledger[n].ref].increment} = {}
    BY <1>1 DEF EntriesTell, Entries
  <1>7. {n \in Entries("play_reversal") :
           \/ Live(ledger[n].ref)
           \/ ledger[n].delta # -attempts[ledger[n].ref].increment} = {}
    BY <1>1 DEF EntriesTell, Entries, Live
  <1>8. Cardinality({}) = 0 /\ Cardinality(Plays) = Len(attempts)
    BY <1>1, FS_EmptySet, FS_Interval
  <1>9. /\ IsFiniteSet(Given) /\ IsFiniteSet(NoDebit) /\ IsFiniteSet(NoRefund)
    BY <1>1, FS_Subset
  <1> HIDE DEF Given, NoDebit, NoRefund
  <1>10. PICK a, b, c, d, z, de, da, dm, re, ra, rm :
           /\ a = Expected /\ a = current /\ b = LedgerSum /\ b = LastBalance
           /\ c = Cardinality({i \in Plays : Live(i)}) /\ c = plays
           /\ d = Cardinality({i \in Plays : attempts[i].increment > 0})
           /\ d = Cardinality(Entries("play_increment"))
           /\ de = (IF Cost > 0 THEN Len(attempts) ELSE 0)
           /\ da = Cardinality(PointsRows("play_debit"))
           /\ dm = Cardinality(NoDebit)
           /\ re = Cardinality(Given)
           /\ ra = Cardinality(PointsRows("play_refund"))
           /\ rm = Cardinality(NoRefund)
           /\ z = 0
    BY <1>2, <1>3, <1>4, <1>5, Zenon
  <1>11. Reconcile =
           [cachedPrize      |-> Check(a, a),
            runningBalance   |-> Check(b, b),
            playCounter      |-> Check(c, c),
            incrementEntries |-> Check(d, d),
            incrementAmounts |-> Check(z, z),
            orphanReversals  |-> Check(z, z),
            pointsDebits     |-> Check(de, da),
            debitAmounts     |-> Check(z, dm),
            pointsRefunds    |-> Check(re, ra),
            refundAmounts    |-> Check(z, rm)]
    BY <1>6, <1>7, <1>8, <1>10, Zenon DEF Reconcile, Given, NoDebit, NoRefund
  <1>12. /\ Discrepancies \subseteq PointsChecks
         /\ "pointsDebits" \in Discrepancies <=> de # da
         /\ "debitAmounts" \in Discrepancies <=> z # dm
         /\ "pointsRefunds" \in Discrepancies <=> re # ra
         /\ "refundAmounts" \in Discrepancies <=> z # rm
    BY <1>11 DEF Discrepancies, PointsChecks, Check
  <1>13. CASE unit = "legacy"
    <2>1. Charge = Cost /\ Cost \in Nat
      BY <1>13, RoundAssumption DEF Charge
    <2>2. CASE Cost = 0
      <3>1. points = {} /\ Given = {} /\ NoDebit = {} /\ NoRefund = {}
        BY <2>1, <2>2 DEF PointsConserved, FreeNotRefunded, Given, NoDebit, NoRefund
      <3>2. PointsRows("play_debit") = {} /\ PointsRows("play_refund") = {}
        BY <3>1 DEF PointsRows
      <3>3. z = dm /\ z = rm /\ de = da /\ re = ra
        <4>1. ~(Cost > 0)
          BY <2>2
        <4> QED
          BY <1>8, <1>10, <3>1, <3>2, <4>1, Zenon
      <3> QED
        BY <1>12, <1>13, <3>3 DEF PointsChecks
    <2>3. CASE Cost > 0
      <3>1. points = DebitRows \cup RefundRows
        BY <2>1, <2>3 DEF PointsConserved, DebitRows, RefundRows
      <3>2. NoDebit = {} /\ NoRefund = {}
        BY <3>1 DEF DebitRows, RefundRows, NoDebit, NoRefund
      <3>3. Cardinality(PointsRows("play_debit")) = Cardinality(Plays)
        <4>1. \A p \in points : p.type = "play_debit" => p.attempt \in Plays
          BY <3>1 DEF DebitRows, RefundRows
        <4>2. \A i \in Plays : [type |-> "play_debit", attempt |-> i] \in points
          BY <3>1 DEF DebitRows
        <4> QED
          BY <1>1, <4>1, <4>2, OneRowEach
      <3>4. Cardinality(PointsRows("play_refund")) = Cardinality(Given)
        <4>1. \A p \in points : p.type = "play_refund" => p.attempt \in Given
          BY <3>1 DEF DebitRows, RefundRows, Given
        <4>2. \A i \in Given : [type |-> "play_refund", attempt |-> i] \in points
          BY <3>1 DEF RefundRows, Given
        <4> QED
          BY <1>1, <1>9, <4>1, <4>2, OneRowEach
      <3> QED
        BY <1>8, <1>10, <1>12, <1>13, <2>3, <3>2, <3>3, <3>4 DEF PointsChecks
    <2> QED
      BY <2>1, <2>2, <2>3
  <1>14. CASE unit # "legacy"
    <2>1. Cost > 0 /\ points = {}
      <3>1. unit \in PointsUnits
        BY <1>1 DEF TypeOK, UnitsOf
      <3>2. "competition" \in PointsUnits
        BY <1>14, <3>1, RoundAssumption
      <3> QED
        BY <1>14, <3>2, RoundAssumption DEF PointsConserved, Charge
    <2>2. da = 0 /\ ra = 0
      <3>1. \A t : PointsRows(t) = {}
        BY <2>1 DEF PointsRows
      <3> QED
        BY <1>8, <1>10, <3>1
    <2>3. ASSUME attempts # <<>> PROVE de # da /\ z # dm
      <3>1. Len(attempts) > 0
        BY <1>1, <2>3, EmptySeq
      <3>2. NoDebit = Plays
        BY <2>1 DEF NoDebit
      <3> QED
        BY <1>1, <1>8, <1>10, <2>1, <2>2, <3>1, <3>2
    <2>4. ASSUME NEW i \in Plays, Refunded(i) PROVE re # ra /\ z # rm
      <3>1. i \in Given /\ NoRefund = Given
        BY <2>1, <2>4 DEF Given, NoRefund
      <3>2. Cardinality(Given) # 0
        BY <1>9, <3>1, FS_EmptySet
      <3> QED
        BY <1>10, <2>2, <3>1, <3>2
    <2> QED
      BY <1>12, <1>14, <2>3, <2>4
  <1> QED
    BY <1>13, <1>14

\* On a round that was not cancelled the scheduled reconciliation reports
\* nothing when its plays cost legacy points, and when they cost competition
\* points the checks of the points and none of the prize, whenever it runs and
\* whatever players and admins did.
THEOREM ReconcileTellsTruth == Spec => []ReconcileClean
  <1>1. PointsInv => PointsConserved /\ FreeNotRefunded
    BY DEF PointsInv
  <1> QED
    BY <1>1, TellsInvariant, LedgerInvariant, PrizeCapped, CountersFollow, PointsInvariant,
       TruthReported, PTL
=============================================================================
