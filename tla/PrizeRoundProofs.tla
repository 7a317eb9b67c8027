-------------------------- MODULE PrizeRoundProofs --------------------------
(***************************************************************************)
(* Theorems about PrizeRound, for any players, prizes, limits and bounds.  *)
(***************************************************************************)
EXTENDS PrizeRound, FiniteSetTheorems, TLAPS

-----------------------------------------------------------------------------
(* Sequences of rows.                                                      *)

\* A sequence of rows changed in place is a sequence of rows.
LEMMA RowsType ==
    ASSUME NEW S, NEW T, NEW s \in Seq(S), NEW t, DOMAIN t = DOMAIN s,
           t = [i \in DOMAIN s |-> t[i]], \A i \in DOMAIN s : t[i] \in T
    PROVE  t \in Seq(T) /\ Len(t) = Len(s)
  <1>1. DOMAIN s = 1..Len(s) /\ Len(s) \in Nat
    OBVIOUS
  <1>2. t \in [1..Len(s) -> T]
    BY <1>1
  <1> QED
    BY <1>1, <1>2

\* What PostPrize leaves in the prize columns and the ledger.
LEMMA PostPrizeType ==
    ASSUME TypeOK, NEW type, NEW delta \in Int, NEW ref \in Nat,
           NEW more \in Int, NEW newcomers \in Nat,
           PostPrize(type, delta, ref, more, newcomers),
           \/ delta = 0 /\ type # "seed"
           \/ type \in {"seed", "play_increment", "play_reversal", "admin_adjustment", "correction"}
    PROVE  /\ current' \in Nat /\ plays' \in Int /\ players' \in Nat
           /\ ledger' \in Seq(PrizeEntry)
  <1>1. current' \in Nat /\ plays' \in Int /\ players' \in Nat
    BY DEF PostPrize, InRange, TypeOK
  <1>2. CASE delta = 0 /\ type # "seed"
    BY <1>1, <1>2 DEF PostPrize, TypeOK
  <1>3. CASE type \in {"seed", "play_increment", "play_reversal", "admin_adjustment", "correction"}
    <2>1. [type |-> type, delta |-> delta, after |-> current + delta, ref |-> ref] \in PrizeEntry
      BY <1>1, <1>3 DEF PostPrize, PrizeEntry
    <2> QED
      BY <1>1, <2>1 DEF PostPrize, TypeOK
  <1> QED
    BY <1>2, <1>3

\* What a play adds is at most the increment.
LEMMA PlayIncrementType ==
    TypeOK => PlayIncrement \in Nat /\ PlayIncrement \in 0..Increment
  <1> SUFFICES ASSUME TypeOK PROVE PlayIncrement \in 0..Increment /\ Increment \in Nat
    OBVIOUS
  <1>1. CASE ~Growth
    BY <1>1, RoundAssumption DEF PlayIncrement
  <1>2. CASE Growth
    <2>1. /\ Increment \in Nat \ {0} /\ MaxPrize \in Nat \ {0} /\ current \in Nat
          /\ MaxPrize # Unset
      BY <1>2, RoundAssumption DEF TypeOK, Unset
    <2>2. PlayIncrement = IF current >= MaxPrize THEN 0
                          ELSE IF Increment < MaxPrize - current THEN Increment
                          ELSE MaxPrize - current
      BY <1>2, <2>1 DEF PlayIncrement, AtCap, Smaller
    <2> QED
      BY <2>1, <2>2
  <1> QED
    BY <1>1, <1>2, RoundAssumption

\* Plays are numbered from 1, and any set of them has a cardinality.
LEMMA PlaysFinite ==
    ASSUME attempts \in Seq(Attempt)
    PROVE  /\ Plays = 1..Len(attempts) /\ Len(attempts) \in Nat
           /\ Plays \subseteq Nat \ {0}
           /\ \A S \in SUBSET Plays : IsFiniteSet(S) /\ Cardinality(S) \in Nat
  <1>1. Plays = 1..Len(attempts) /\ Len(attempts) \in Nat
    BY DEF Plays
  <1>2. IsFiniteSet(Plays)
    BY <1>1, FS_Interval
  <1>3. \A S \in SUBSET Plays : IsFiniteSet(S) /\ Cardinality(S) \in Nat
    BY <1>2, FS_Subset, FS_CardinalityType
  <1> QED
    BY <1>1, <1>3

\* A charge is a number of points.
LEMMA ChargeType == Charge \in Nat
  BY RoundAssumption DEF Charge

\* Refunds keep balances and points entries of their types.
LEMMA RefundPlaysType ==
    ASSUME TypeOK, NEW owed \in SUBSET Plays, RefundPlays(owed)
    PROVE  wallet' \in [Customers -> Int] /\ points' \subseteq PointsEntry
  <1>1. Plays \subseteq Nat \ {0}
    BY PlaysFinite DEF TypeOK
  <1>2. ASSUME NEW c \in Customers
        PROVE  Cardinality({i \in owed : attempts[i].customer = c}) \in Nat
    BY PlaysFinite DEF TypeOK
  <1>3. wallet' \in [Customers -> Int]
    BY <1>2, ChargeType DEF RefundPlays, TypeOK
  <1>4. points' \subseteq PointsEntry
    BY <1>1 DEF RefundPlays, TypeOK, PointsEntry
  <1> QED
    BY <1>3, <1>4

-----------------------------------------------------------------------------
(* Type correctness.                                                       *)

\* A draft is well typed.
LEMMA TypeInit == Init => TypeOK
  BY RoundAssumption DEF Init, TypeOK, Statuses, Unset, UnitsOf

\* Everything StartPlay writes keeps its type.
LEMMA StartPlayType ==
    ASSUME TypeOK, NEW c \in Customers, NEW k \in Keys, NEW now \in Nows,
           NEW attemptStatus \in {"started", "accepted"},
           NEW session \in {"active", "submitted"},
           StartPlay(c, k, now, attemptStatus, session)
    PROVE  /\ attempts' \in Seq(Attempt) /\ wallet' \in [Customers -> Int]
           /\ points' \subseteq PointsEntry
           /\ current' \in Nat /\ plays' \in Int /\ players' \in Nat
           /\ ledger' \in Seq(PrizeEntry)
           /\ UNCHANGED <<method, unit, clock, day, began, start, edits, checked>>
  <1> DEFINE id == Len(attempts) + 1
  <1>1. id \in Nat \ {0} /\ now.day \in Nat
    BY DEF TypeOK, Nows, Present, Moment
  <1>2. PlayIncrement \in Nat
    BY PlayIncrementType
  <1>3. attempts' \in Seq(Attempt)
    <2>1. [customer |-> c, key |-> k, day |-> now.day, increment |-> PlayIncrement,
           status |-> attemptStatus, charge |-> "kept", session |-> session,
           score |-> "none"] \in Attempt
      BY <1>1, <1>2 DEF Attempt
    <2> QED
      BY <2>1 DEF StartPlay, TypeOK
  <1>4. wallet' \in [Customers -> Int]
    BY ChargeType DEF StartPlay, TypeOK
  <1>5. points' \subseteq PointsEntry
    BY <1>1 DEF StartPlay, TypeOK, PointsEntry
  <1>6. PICK newcomers \in {0, 1} :
          PostPrize("play_increment", PlayIncrement, id, 1, newcomers)
    BY DEF StartPlay
  <1>7. /\ current' \in Nat /\ plays' \in Int /\ players' \in Nat
        /\ ledger' \in Seq(PrizeEntry)
    BY <1>1, <1>2, <1>6, PostPrizeType
  <1> QED
    BY <1>3, <1>4, <1>5, <1>7 DEF StartPlay, clockVars

\* A score or a review changes one row of attempts, and the row stays one.
LEMMA RowType ==
    ASSUME attempts \in Seq(Attempt), NEW i \in Plays, NEW row \in Attempt,
           attempts' = [attempts EXCEPT ![i] = row]
    PROVE  attempts' \in Seq(Attempt) /\ Len(attempts') = Len(attempts)
  BY DEF Plays

LEMMA ExpireSessionsType ==
    ASSUME NEW rows \in Seq(Attempt)
    PROVE  /\ ExpireSessions(rows) \in Seq(Attempt)
           /\ Len(ExpireSessions(rows)) = Len(rows)
  <1> DEFINE t == ExpireSessions(rows)
  <1>1. DOMAIN t = DOMAIN rows /\ t = [i \in DOMAIN rows |-> t[i]]
    BY DEF ExpireSessions
  <1>2. ASSUME NEW i \in DOMAIN rows PROVE t[i] \in Attempt
    <2>1. rows[i] \in Attempt
      OBVIOUS
    <2>2. [rows[i] EXCEPT !.session = "expired"] \in Attempt
      BY <2>1 DEF Attempt
    <2>3. t[i] = IF rows[i].session = "active" THEN [rows[i] EXCEPT !.session = "expired"]
                 ELSE rows[i]
      BY DEF ExpireSessions
    <2> QED
      BY <2>1, <2>2, <2>3
  <1> HIDE DEF t
  <1>3. t \in Seq(Attempt) /\ Len(t) = Len(rows)
    BY <1>1, <1>2, RowsType
  <1> QED
    BY <1>3 DEF t

\* The steps of the lifecycle: they write the status, the prize a round
\* closed on, or the window.
LEMMA TypeLifecycle ==
    ASSUME TypeOK,
           \/ \E s \in StartPrizes, w \in {"before", "open", "over"} : Update(s, w)
           \/ Wait \/ Tick \/ NextDay \/ SyncClose \/ SyncOpen \/ Pause \/ Resume \/ Close
    PROVE  TypeOK'
  <1>1. ASSUME NEW s \in StartPrizes, NEW w \in {"before", "open", "over"}, Update(s, w)
        PROVE  TypeOK'
    BY <1>1 DEF TypeOK, Update, Statuses, prizeVars, pointVars
  <1>2. CASE Wait
    BY <1>2 DEF TypeOK, Wait, Present, Moment, prizeVars, pointVars
  <1>3. CASE Tick
    BY <1>3 DEF TypeOK, Tick, prizeVars, pointVars
  <1>4. CASE NextDay
    BY <1>4 DEF TypeOK, NextDay, prizeVars, pointVars
  <1>5. CASE SyncClose \/ SyncOpen \/ Pause \/ Resume \/ Close
    BY <1>5 DEF TypeOK, SyncClose, SyncOpen, Pause, Resume, Close, Unchanging, Coalesce,
                Statuses, clockVars, prizeVars, pointVars
  <1> QED
    BY <1>1, <1>2, <1>3, <1>4, <1>5

\* Publishing seeds or corrects the prize within its range.
LEMMA TypeSchedule == ASSUME TypeOK, Schedule PROVE TypeOK'
  <1>1. start - current \in Int
    BY RoundAssumption DEF TypeOK
  <1>2. /\ current' \in Nat /\ plays' \in Int /\ players' \in Nat
        /\ ledger' \in Seq(PrizeEntry)
    <2>1. CASE PostPrize("seed", start - current, 0, 0, 0)
      BY <1>1, <2>1, PostPrizeType
    <2>2. CASE PostPrize("correction", start - current, 0, 0, 0)
      BY <1>1, <2>2, PostPrizeType
    <2>3. CASE UNCHANGED prizeVars
      BY <2>3 DEF prizeVars, TypeOK
    <2> QED
      BY <2>1, <2>2, <2>3 DEF Schedule, SeedRound
  <1> QED
    BY <1>2 DEF TypeOK, Schedule, Statuses, clockVars, pointVars

\* A play, by whatever method, keeps every column's type.
LEMMA TypePlays ==
    ASSUME TypeOK, NEW c \in Customers, NEW k \in Keys, NEW now \in Nows,
           PlaySkill(c, k, now) \/ PlayChance(c, k, now) \/ PlayWin(c, k, now)
    PROVE  TypeOK'
  <1>1. CASE PlaySkill(c, k, now)
    <2>1. StartPlay(c, k, now, "started", "active")
      BY <1>1 DEF PlaySkill
    <2> QED
      BY <1>1, <2>1, StartPlayType DEF PlaySkill, TypeOK
  <1>2. CASE PlayChance(c, k, now)
    <2>1. StartPlay(c, k, now, "accepted", "submitted")
      BY <1>2 DEF PlayChance
    <2> QED
      BY <1>2, <2>1, StartPlayType DEF PlayChance, TypeOK
  <1>3. CASE PlayWin(c, k, now)
    <2>1. StartPlay(c, k, now, "accepted", "submitted")
      BY <1>3 DEF PlayWin
    <2>2. current' \in Nat
      BY <2>1, StartPlayType
    <2>3. [customer |-> c, attempt |-> Len(attempts) + 1, position |-> 1,
           status |-> "pending_validation", settlement |-> "pending",
           value |-> current', claim |-> "none"] \in Winner
      BY <2>2 DEF Winner, TypeOK
    <2>4. winners' \in Seq(Winner)
      BY <1>3, <2>3 DEF PlayWin, TypeOK
    <2> QED
      BY <1>3, <2>1, <2>4, StartPlayType DEF PlayWin, TypeOK, Statuses
  <1> QED
    BY <1>1, <1>2, <1>3

\* So do scores and reviews,
LEMMA TypeScores ==
    ASSUME TypeOK, NEW i \in Plays,
           \/ SubmitOfficial(i) \/ ExpireSession(i) \/ ReadForReview(i)
           \/ \E v \in {"accepted", "manual_review", "rejected"} : SaveOfficialScore(i, v)
           \/ \E v \in {"accepted", "rejected"} : ReviewSubmission(i, v)
    PROVE  TypeOK'
  <1> DEFINE row == attempts[i]
  <1>1. attempts \in Seq(Attempt) /\ i \in Nat /\ row \in Attempt
    BY PlaysFinite DEF TypeOK, Plays
  <1>2. attempts' \in Seq(Attempt)
    <2>1. CASE SubmitOfficial(i) \/ ReadForReview(i)
      BY <1>1, <2>1 DEF SubmitOfficial, ReadForReview
    <2>2. CASE ExpireSession(i)
      <3>1. [row EXCEPT !.session = "expired"] \in Attempt
        BY <1>1 DEF Attempt
      <3> QED
        BY <1>1, <2>2, <3>1, RowType DEF ExpireSession
    <2>3. ASSUME NEW v \in {"accepted", "manual_review", "rejected"}, SaveOfficialScore(i, v)
          PROVE  attempts' \in Seq(Attempt)
      <3>1. [row EXCEPT !.session = "submitted", !.score = v,
               !.status = IF v = "manual_review" THEN "submitted" ELSE v] \in Attempt
        BY <1>1 DEF Attempt
      <3> QED
        BY <1>1, <2>3, <3>1, RowType DEF SaveOfficialScore
    <2>4. ASSUME NEW v \in {"accepted", "rejected"}, ReviewSubmission(i, v)
          PROVE  attempts' \in Seq(Attempt)
      <3>1. [row EXCEPT !.score = v, !.status = v] \in Attempt
        BY <1>1 DEF Attempt
      <3> QED
        BY <1>1, <2>4, <3>1, RowType DEF ReviewSubmission
    <2> QED
      BY <2>1, <2>2, <2>3, <2>4
  <1>3. checked' \subseteq Request
    <2>1. Submit(i) \in Request /\ Review(i) \in Request
      BY <1>1 DEF Submit, Review, Request
    <2> QED
      BY <2>1 DEF TypeOK, SubmitOfficial, ExpireSession, ReadForReview, SaveOfficialScore,
                  ReviewSubmission
  <1>4. ScoresOnly
    BY DEF SubmitOfficial, ExpireSession, ReadForReview, SaveOfficialScore, ReviewSubmission
  <1> QED
    BY <1>2, <1>3, <1>4 DEF TypeOK, ScoresOnly, clockVars, prizeVars, pointVars

\* the freeze,
LEMMA TypeFreeze == ASSUME TypeOK, Freeze PROVE TypeOK'
  <1>1. attempts' \in Seq(Attempt)
    BY ExpireSessionsType DEF Freeze, TypeOK
  <1> QED
    BY <1>1 DEF Freeze, Unchanging, TypeOK, Statuses, Coalesce, clockVars, prizeVars, pointVars

\* an adjustment,
LEMMA TypeAdjust ==
    ASSUME TypeOK, NEW d \in AdjustDeltas, AdjustPrize(d)
    PROVE  TypeOK'
  <1>1. d \in Int
    BY RoundAssumption
  <1>2. PostPrize("admin_adjustment", d, 0, 0, 0)
    BY DEF AdjustPrize
  <1>3. /\ current' \in Nat /\ plays' \in Int /\ players' \in Nat
        /\ ledger' \in Seq(PrizeEntry)
    BY <1>1, <1>2, PostPrizeType
  <1> QED
    BY <1>3 DEF AdjustPrize, TypeOK, clockVars, pointVars

\* a void,
LEMMA TypeVoid ==
    ASSUME TypeOK, NEW i \in Plays, NEW refund \in BOOLEAN, NEW reverse \in BOOLEAN,
           VoidPlay(i, refund, reverse)
    PROVE  TypeOK'
  <1> DEFINE owed == IF refund THEN {i} \cap Owed ELSE {}
  <1>1. attempts[i] \in Attempt /\ i \in Nat
    BY PlaysFinite DEF TypeOK, Plays
  <1>2. attempts' \in Seq(Attempt)
    <2>1. Voided(attempts[i], i \in owed) \in Attempt
      BY <1>1 DEF Voided, Attempt
    <2> QED
      BY <2>1, RowType DEF VoidPlay, TypeOK
  <1>3. wallet' \in [Customers -> Int] /\ points' \subseteq PointsEntry
    <2>1. owed \in SUBSET Plays /\ RefundPlays(owed)
      BY DEF VoidPlay, Owed
    <2> QED
      BY <2>1, RefundPlaysType
  <1>4. /\ current' \in Nat /\ plays' \in Int /\ players' \in Nat
        /\ ledger' \in Seq(PrizeEntry)
    <2>1. attempts[i].increment \in Nat
      BY <1>1 DEF Attempt
    <2>2. CASE PostPrize("play_reversal", -attempts[i].increment, i, -1, 0)
      BY <1>1, <2>1, <2>2, PostPrizeType
    <2>3. CASE PostPrize("", 0, i, -1, 0)
      <3>1. "" # "seed"
        OBVIOUS
      <3>2. -1 \in Int /\ 0 \in Int /\ 0 \in Nat /\ i \in Nat
        BY <1>1
      <3> QED
        BY <3>1, <3>2, <2>3, PostPrizeType
    <2> QED
      BY <2>2, <2>3 DEF VoidPlay
  <1> QED
    BY <1>2, <1>3, <1>4 DEF VoidPlay, TypeOK, clockVars

\* the rows a cancellation leaves,
LEMMA AllVoidedType ==
    ASSUME attempts \in Seq(Attempt)
    PROVE  AllVoided \in Seq(Attempt) /\ Len(AllVoided) = Len(attempts)
  <1> DEFINE rows == AllVoided
  <1>1. ASSUME NEW i \in Plays PROVE rows[i] \in Attempt
    <2>1. attempts[i] \in Attempt
      BY DEF Plays
    <2> QED
      BY <2>1 DEF Attempt, AllVoided
  <1>2. DOMAIN rows = DOMAIN attempts /\ rows = [i \in DOMAIN attempts |-> rows[i]]
    BY DEF Plays, AllVoided
  <1> HIDE DEF rows
  <1>3. rows \in Seq(Attempt) /\ Len(rows) = Len(attempts)
    BY <1>1, <1>2, RowsType DEF Plays
  <1> QED
    BY <1>3 DEF rows

\* and the cancellation.
LEMMA TypeCancel == ASSUME TypeOK, Cancel PROVE TypeOK'
  <1>1. attempts' \in Seq(Attempt)
    BY AllVoidedType, ExpireSessionsType DEF Cancel, TypeOK
  <1>2. wallet' \in [Customers -> Int] /\ points' \subseteq PointsEntry
    <2>1. Owed \in SUBSET Plays /\ RefundPlays(Owed)
      BY DEF Cancel, Owed
    <2> QED
      BY <2>1, RefundPlaysType
  <1>3. /\ current' \in Nat /\ plays' \in Int /\ players' \in Nat
        /\ ledger' \in Seq(PrizeEntry)
    <2>1. CASE PostPrize("correction", -current, 0, 0, 0)
      BY <2>1, PostPrizeType DEF TypeOK
    <2>2. CASE UNCHANGED prizeVars
      BY <2>2 DEF prizeVars, TypeOK
    <2> QED
      BY <2>1, <2>2 DEF Cancel
  <1> QED
    BY <1>1, <1>2, <1>3 DEF Cancel, TypeOK, Statuses, Coalesce, clockVars

\* Type correctness, over every step.
LEMMA TypeStep == TypeOK /\ [Next]_vars => TypeOK'
  <1> SUFFICES ASSUME TypeOK, [Next]_vars PROVE TypeOK'
    OBVIOUS
  <1>1. CASE UNCHANGED vars
    BY <1>1 DEF vars, TypeOK
  <1>2. CASE Next
    BY <1>2, TypeLifecycle, TypeSchedule, TypePlays, TypeScores, TypeFreeze, TypeAdjust,
       TypeVoid, TypeCancel DEF Next
  <1> QED
    BY <1>1, <1>2

\* Every column keeps its type, for any number of players and plays: the
\* prize and the counters never leave their ranges, whatever admins post.
THEOREM TypeCorrect == Spec => []TypeOK
  BY TypeInit, TypeStep, PTL DEF Spec

-----------------------------------------------------------------------------
(* The ledger and the cap. LedgerIsChain is not inductive by itself: that   *)
(* nothing is posted before the seed needs every published round seeded.    *)

PublishedIsSeeded == status \notin {"draft", "cancelled"} => ledger # <<>>

LedgerInv == TypeOK /\ LedgerIsChain /\ PublishedIsSeeded

\* The entries that may follow the seed.
LaterTypes == {"play_increment", "play_reversal", "admin_adjustment", "correction"}

\* What one step may do to the prize: nothing, the seed, or a later entry.
PrizeMove ==
    \/ UNCHANGED <<current, ledger>>
    \/ /\ ledger = <<>>
       /\ \E delta \in Int : PostPrize("seed", delta, 0, 0, 0)
    \/ /\ ledger # <<>>
       /\ \E type \in LaterTypes, delta \in Int, ref \in Nat, more \in Int, newcomers \in Nat :
            PostPrize(type, delta, ref, more, newcomers)

\* A published round's entry is a later entry, and PostPrize("", ...) none.
LEMMA LaterEntry ==
    ASSUME ledger # <<>>, NEW type \in LaterTypes, NEW delta \in Int, NEW ref \in Nat,
           NEW more \in Int, NEW newcomers \in Nat, PostPrize(type, delta, ref, more, newcomers)
    PROVE  PrizeMove
  BY DEF PrizeMove

\* Entries are never deleted.
LEMMA SeedStays ==
    ASSUME ledger \in Seq(PrizeEntry), ledger # <<>>, PrizeMove
    PROVE  ledger' # <<>>
  <1>1. \A e : Append(ledger, e) # <<>>
    OBVIOUS
  <1> QED
    BY <1>1 DEF PrizeMove, PostPrize

\* A play moves the prize by at most one posted entry.
LEMMA PlayMovesPrize ==
    ASSUME TypeOK, PublishedIsSeeded, NEW c, NEW k, NEW now, NEW attemptStatus, NEW session,
           StartPlay(c, k, now, attemptStatus, session)
    PROVE  PrizeMove /\ ledger # <<>>
  <1>1. ledger # <<>>
    BY DEF StartPlay, PublishedIsSeeded
  <1>2. PICK newcomers \in {0, 1} :
          PostPrize("play_increment", PlayIncrement, Len(attempts) + 1, 1, newcomers)
    BY DEF StartPlay
  <1>3. /\ "play_increment" \in LaterTypes /\ PlayIncrement \in Int
        /\ Len(attempts) + 1 \in Nat /\ 1 \in Int /\ newcomers \in Nat
    BY PlayIncrementType, PlaysFinite DEF TypeOK, LaterTypes
  <1>4. PrizeMove
    BY <1>1, <1>2, <1>3, LaterEntry
  <1> QED
    BY <1>1, <1>4

\* A void moves it by a reversal, or not at all.
LEMMA VoidMovesPrize ==
    ASSUME TypeOK, PublishedIsSeeded, NEW i \in Plays, NEW refund, NEW reverse,
           VoidPlay(i, refund, reverse)
    PROVE  PrizeMove
  <1>1. ledger # <<>> /\ i \in Nat /\ attempts[i].increment \in Nat
    <2>1. attempts[i] \in Attempt
      BY DEF TypeOK, Plays
    <2> QED
      BY <2>1, PlaysFinite DEF TypeOK, Attempt, VoidPlay, PublishedIsSeeded
  <1>2. CASE PostPrize("play_reversal", -attempts[i].increment, i, -1, 0)
    <2>1. /\ "play_reversal" \in LaterTypes /\ -attempts[i].increment \in Int
          /\ -1 \in Int /\ 0 \in Nat
      BY <1>1 DEF LaterTypes
    <2> QED
      BY <1>1, <1>2, <2>1, LaterEntry
  <1>3. CASE PostPrize("", 0, i, -1, 0)
    <2>1. "" # "seed"
      OBVIOUS
    <2> QED
      BY <1>3, <2>1 DEF PostPrize, PrizeMove, TypeOK
  <1> QED
    BY <1>2, <1>3 DEF VoidPlay

\* Every step moves the prize by at most one posted entry.
LEMMA StepMovesPrize ==
    ASSUME LedgerInv, Next
    PROVE  PrizeMove /\ PublishedIsSeeded'
  <1> USE DEF LedgerInv
  <1>1. CASE /\ UNCHANGED prizeVars
             /\ status = "draft" => status' \in {"draft", "cancelled"}
             /\ status = "cancelled" => status' = "cancelled"
    BY <1>1 DEF PrizeMove, prizeVars, PublishedIsSeeded
  <1>2. CASE Schedule
    <2>1. start - current \in Int
      BY RoundAssumption DEF TypeOK
    <2>2. CASE ~Seeded
      <3>1. ledger = <<>>
        BY <2>2 DEF Seeded, LedgerIsChain, TypeOK
      <3>2. PostPrize("seed", start - current, 0, 0, 0)
        BY <1>2, <2>2 DEF Schedule, SeedRound
      <3> QED
        BY <2>1, <3>1, <3>2 DEF PrizeMove, PublishedIsSeeded, PostPrize
    <2>3. CASE Seeded
      <3>1. ledger # <<>>
        BY <2>3 DEF Seeded
      <3>2. CASE start # current
        <4>1. PostPrize("correction", start - current, 0, 0, 0)
          BY <1>2, <2>3, <3>2 DEF Schedule, SeedRound
        <4>2. PrizeMove
          BY <2>1, <3>1, <4>1, LaterEntry DEF LaterTypes
        <4> QED
          BY <3>1, <4>2, SeedStays DEF PublishedIsSeeded, TypeOK
      <3>3. CASE start = current
        BY <1>2, <2>3, <3>1, <3>3 DEF Schedule, SeedRound, prizeVars, PrizeMove, PublishedIsSeeded
      <3> QED
        BY <3>2, <3>3
    <2> QED
      BY <2>2, <2>3
  <1>3. ASSUME NEW c \in Customers, NEW k \in Keys, NEW now \in Nows,
               PlaySkill(c, k, now) \/ PlayChance(c, k, now) \/ PlayWin(c, k, now)
        PROVE  PrizeMove /\ PublishedIsSeeded'
    <2>1. PrizeMove /\ ledger # <<>>
      BY <1>3, PlayMovesPrize DEF PlaySkill, PlayChance, PlayWin
    <2> QED
      BY <2>1, SeedStays DEF PublishedIsSeeded, TypeOK
  <1>4. ASSUME NEW d \in AdjustDeltas, AdjustPrize(d)
        PROVE  PrizeMove /\ PublishedIsSeeded'
    <2>1. d \in Int /\ PostPrize("admin_adjustment", d, 0, 0, 0) /\ ledger # <<>>
      BY <1>4, RoundAssumption DEF AdjustPrize, PublishedIsSeeded
    <2>2. PrizeMove
      BY <2>1, LaterEntry DEF LaterTypes
    <2> QED
      BY <2>1, <2>2, SeedStays DEF PublishedIsSeeded, TypeOK
  <1>5. ASSUME NEW i \in Plays, NEW refund \in BOOLEAN, NEW reverse \in BOOLEAN,
               VoidPlay(i, refund, reverse)
        PROVE  PrizeMove /\ PublishedIsSeeded'
    <2>1. PrizeMove
      BY <1>5, VoidMovesPrize
    <2>2. ledger # <<>>
      BY <1>5 DEF PublishedIsSeeded, VoidPlay
    <2> QED
      BY <2>1, <2>2, SeedStays DEF PublishedIsSeeded, TypeOK
  <1>6. CASE Cancel
    <2>1. CASE UNCHANGED prizeVars
      BY <1>6, <2>1 DEF PrizeMove, prizeVars, PublishedIsSeeded, Cancel
    <2>2. CASE current > 0 /\ PostPrize("correction", -current, 0, 0, 0)
      <3>1. ledger # <<>> /\ -current \in Int
        BY <2>2 DEF LedgerIsChain, TypeOK
      <3>2. PrizeMove
        BY <2>2, <3>1, LaterEntry DEF LaterTypes
      <3> QED
        BY <1>6, <3>2 DEF PublishedIsSeeded, Cancel
    <2> QED
      BY <1>6, <2>1, <2>2 DEF Cancel
  <1> QED
    BY <1>1, <1>2, <1>3, <1>4, <1>5, <1>6
       DEF Next, Update, Wait, Tick, NextDay, SyncClose, SyncOpen, Pause, Resume, Close, Freeze,
           Unchanging, SubmitOfficial, ExpireSession, ReadForReview, SaveOfficialScore,
           ReviewSubmission, ScoresOnly


\* The heart of it: an entry posted to a chain makes a chain.
LEMMA MoveKeepsChain ==
    ASSUME TypeOK, LedgerIsChain, PrizeMove
    PROVE  LedgerIsChain'
  <1>1. CASE UNCHANGED <<current, ledger>>
    BY <1>1 DEF LedgerIsChain
  <1>2. ASSUME NEW type, NEW delta \in Int, NEW ref \in Nat,
               current' = current + delta, type = "seed" <=> ledger = <<>>,
               ledger' = Append(ledger, [type |-> type, delta |-> delta,
                                         after |-> current + delta, ref |-> ref])
        PROVE  LedgerIsChain'
    <2> DEFINE e == [type |-> type, delta |-> delta, after |-> current + delta, ref |-> ref]
               len == Len(ledger)
    <2>1. ledger \in Seq(PrizeEntry) /\ len \in Nat /\ current \in Int /\ DOMAIN ledger = 1..len
      BY DEF TypeOK
    <2>2. /\ Len(ledger') = len + 1 /\ DOMAIN ledger' = 1..(len + 1) /\ ledger' # <<>>
          /\ ledger'[len + 1] = e /\ \A n \in 1..len : ledger'[n] = ledger[n]
      BY <1>2, <2>1
    <2>3. e.delta = delta /\ e.after = current + delta /\ e.type = type
      OBVIOUS
    <2>4. ledger = <<>> <=> len = 0
      BY <2>1
    <2>5. ASSUME NEW n \in DOMAIN ledger'
          PROVE  /\ ledger'[n].after = (IF n = 1 THEN 0 ELSE ledger'[n - 1].after) + ledger'[n].delta
                 /\ ledger'[n].type = "seed" <=> n = 1
      <3>1. CASE n \in 1..len
        <4>1. n = 1 \/ n - 1 \in 1..len
          BY <2>1, <3>1
        <4> QED
          BY <2>1, <2>2, <3>1, <4>1 DEF LedgerIsChain
      <3>2. CASE n = len + 1
        <4>1. CASE len = 0
          BY <1>2, <2>1, <2>2, <2>3, <2>4, <3>2, <4>1 DEF LedgerIsChain
        <4>2. CASE len # 0
          <5>1. n - 1 = len /\ len \in 1..len /\ n # 1
            BY <2>1, <3>2, <4>2
          <5>2. ledger'[n - 1].after = current
            BY <2>2, <2>4, <4>2, <5>1 DEF LedgerIsChain
          <5>3. ledger'[n].delta = delta /\ ledger'[n].after = current + delta
            BY <2>2, <2>3, <3>2
          <5>4. ledger'[n].type # "seed"
            BY <1>2, <2>2, <2>3, <2>4, <3>2, <4>2
          <5> QED
            BY <5>1, <5>2, <5>3, <5>4
        <4> QED
          BY <4>1, <4>2
      <3> QED
        BY <2>1, <2>2, <3>1, <3>2
    <2>6. current' = IF ledger' = <<>> THEN 0 ELSE ledger'[Len(ledger')].after
      BY <1>2, <2>2, <2>3
    <2> HIDE DEF e
    <2> QED
      BY <2>5, <2>6 DEF LedgerIsChain
  <1>3. ASSUME ledger = <<>>, NEW delta \in Int, PostPrize("seed", delta, 0, 0, 0)
        PROVE  LedgerIsChain'
    BY <1>2, <1>3 DEF PostPrize
  <1>4. ASSUME ledger # <<>>, NEW type \in LaterTypes, NEW delta \in Int, NEW ref \in Nat,
               NEW more, NEW newcomers, PostPrize(type, delta, ref, more, newcomers)
        PROVE  LedgerIsChain'
    <2>1. type # "seed"
      BY DEF LaterTypes
    <2>2. CASE delta = 0
      BY <1>1, <1>4, <2>1, <2>2 DEF PostPrize, TypeOK
    <2>3. CASE delta # 0
      BY <1>2, <1>4, <2>1, <2>3 DEF PostPrize
    <2> QED
      BY <2>2, <2>3
  <1> QED
    BY <1>1, <1>3, <1>4 DEF PrizeMove

\* An unseeded round has an empty ledger and no prize.
LEMMA LedgerInit == Init => LedgerInv
  BY TypeInit DEF Init, LedgerInv, LedgerIsChain, PublishedIsSeeded

\* The chain, with the seed first, is inductive.
LEMMA LedgerStep == LedgerInv /\ [Next]_vars => LedgerInv'
  <1> SUFFICES ASSUME LedgerInv, [Next]_vars PROVE LedgerInv'
    OBVIOUS
  <1>1. TypeOK'
    BY TypeStep DEF LedgerInv
  <1>2. CASE Next
    BY <1>1, <1>2, StepMovesPrize, MoveKeepsChain DEF LedgerInv
  <1>3. CASE UNCHANGED vars
    BY <1>1, <1>3 DEF vars, LedgerInv, LedgerIsChain, PublishedIsSeeded
  <1> QED
    BY <1>2, <1>3

\* It holds in every reachable state.
LEMMA LedgerInvariant == Spec => []LedgerInv
  BY LedgerInit, LedgerStep, PTL DEF Spec

\* The ledger explains the prize to the cent, whoever plays, edits, adjusts,
\* voids or cancels, in whatever order.
THEOREM LedgerChain == Spec => []LedgerIsChain
  BY LedgerInvariant, PTL DEF LedgerInv

\* The cap, over every step.
LEMMA CapStep == LedgerInv /\ PrizeWithinCap /\ [Next]_vars => PrizeWithinCap'
  <1> SUFFICES ASSUME LedgerInv, PrizeWithinCap, [Next]_vars PROVE PrizeWithinCap'
    OBVIOUS
  <1>1. MaxPrize \in Int /\ current \in Int
    BY RoundAssumption DEF LedgerInv, TypeOK, Unset
  <1>2. CASE UNCHANGED <<current, ledger>>
    BY <1>2 DEF PrizeWithinCap
  <1>3. ASSUME NEW delta \in Int, InRange(delta), current' = current + delta
        PROVE  PrizeWithinCap'
    BY <1>1, <1>3 DEF InRange, PrizeWithinCap
  <1>4. UNCHANGED <<current, ledger>>
          \/ \E delta \in Int : InRange(delta) /\ current' = current + delta
    <2>1. CASE Next
      BY <2>1, StepMovesPrize DEF PrizeMove, PostPrize
    <2>2. CASE UNCHANGED vars
      BY <2>2 DEF vars
    <2> QED
      BY <2>1, <2>2
  <1> QED
    BY <1>2, <1>3, <1>4

\* Nothing raises the prize over its cap: not the last increment before it,
\* not an adjustment, not an edit of the start prize and a second seeding.
THEOREM PrizeCapped == Spec => []PrizeWithinCap
  <1>1. Init => PrizeWithinCap
    BY RoundAssumption DEF Init, PrizeWithinCap, Unset
  <1> QED
    BY <1>1, LedgerInvariant, CapStep, PTL DEF Spec


-----------------------------------------------------------------------------
(***************************************************************************)
(* Theorems about the board of a round: scores, voids, the freeze, the     *)
(* winning play and the lifecycle.                                         *)
(***************************************************************************)

-----------------------------------------------------------------------------
(* One row of the board. Beyond what ScoresMatchPlays and FrozenBoardHolds  *)
(* say of it, the session of a voided play is closed: without that, a score *)
(* on its way could still be saved to it.                                   *)

RowHolds(row, st, m) ==
    /\ row.score # "none" => row.session = "submitted"
    /\ row.status = "voided" => row.session # "active"
    /\ st \in {"frozen", "finalised", "cancelled"} => row.session # "active"
    /\ st # "cancelled" =>
         /\ row.status = "voided" => row.score \in {"none", "rejected"}
         /\ m = "score" /\ row.status \in {"accepted", "rejected"} => row.score = row.status
    /\ row.score \in {"accepted", "rejected"} => row.status \in {row.score, "voided"}

BoardInv == TypeOK /\ \A i \in Plays : RowHolds(attempts[i], status, method)

\* A voided play's status may become st.
StaysVoid(i, st) == st = "voided" \/ (status = "cancelled" /\ Review(i) \in checked)

\* What one step may do to the plays there are: none goes, and each keeps
\* its customer, day and increment, stays refunded, and stays voided unless a
\* review of it was overtaken by the cancellation.
RowsKept ==
    /\ Len(attempts) <= Len(attempts')
    /\ \A i \in Plays :
         /\ attempts'[i].customer = attempts[i].customer
         /\ attempts'[i].key = attempts[i].key
         /\ attempts'[i].day = attempts[i].day
         /\ attempts'[i].increment = attempts[i].increment
         /\ ~Live(i) => StaysVoid(i, attempts'[i].status)
         /\ Refunded(i) => attempts'[i].charge = "refunded"

\* The steps that leave every row alone, and stop or cancel nothing.
LEMMA BoardUntouched ==
    ASSUME BoardInv, UNCHANGED <<attempts, method>>,
           status' \in {"frozen", "finalised", "cancelled"} => status' = status,
           status = "cancelled" => status' = "cancelled"
    PROVE  (\A i \in Plays : RowHolds(attempts'[i], status', method')) /\ RowsKept
  <1>1. ASSUME NEW i \in Plays PROVE RowHolds(attempts'[i], status', method')
    BY DEF BoardInv, RowHolds
  <1>2. RowsKept
    BY PlaysFinite DEF RowsKept, StaysVoid, Live, Refunded, BoardInv, TypeOK
  <1> QED
    BY <1>1, <1>2

\* A step that changes row i to one that holds, with status and method as
\* they were.
LEMMA BoardRow ==
    ASSUME BoardInv, NEW i \in Plays, NEW row, UNCHANGED <<method, status>>,
           attempts' = [attempts EXCEPT ![i] = row], RowHolds(row, status, method),
           row.customer = attempts[i].customer, row.key = attempts[i].key,
           row.day = attempts[i].day, row.increment = attempts[i].increment,
           ~Live(i) => StaysVoid(i, row.status), Refunded(i) => row.charge = "refunded"
    PROVE  (\A j \in Plays : RowHolds(attempts'[j], status', method')) /\ RowsKept
  <1>1. /\ attempts \in Seq(Attempt) /\ Plays = 1..Len(attempts) /\ Len(attempts) \in Nat
        /\ Len(attempts') = Len(attempts)
        /\ \A j \in Plays : attempts'[j] = IF j = i THEN row ELSE attempts[j]
    BY PlaysFinite DEF BoardInv, TypeOK, Plays
  <1>2. ASSUME NEW j \in Plays PROVE RowHolds(attempts'[j], status', method')
    BY <1>1 DEF BoardInv
  <1>3. RowsKept
    BY <1>1 DEF RowsKept, StaysVoid, Live, Refunded
  <1> QED
    BY <1>2, <1>3

\* Submitting, expiring, saving and reviewing change one row, and leave it one
\* the board allows.
LEMMA BoardScores ==
    ASSUME BoardInv, NEW i \in Plays,
           \/ ExpireSession(i)
           \/ \E v \in {"accepted", "manual_review", "rejected"} : SaveOfficialScore(i, v)
           \/ \E v \in {"accepted", "rejected"} : ReviewSubmission(i, v)
    PROVE  (\A j \in Plays : RowHolds(attempts'[j], status', method')) /\ RowsKept
  <1>1. attempts[i] \in Attempt /\ RowHolds(attempts[i], status, method)
    BY DEF BoardInv, TypeOK, Plays
  <1>2. UNCHANGED <<method, status>>
    BY DEF ExpireSession, SaveOfficialScore, ReviewSubmission, ScoresOnly, clockVars
  <1>3. CASE ExpireSession(i)
    <2> DEFINE row == [attempts[i] EXCEPT !.session = "expired"]
    <2>1. attempts' = [attempts EXCEPT ![i] = row] /\ attempts[i].session = "active"
      BY <1>3 DEF ExpireSession
    <2>2. RowHolds(row, status, method)
      BY <1>1, <2>1 DEF RowHolds, Attempt
    <2>3. /\ row.customer = attempts[i].customer /\ row.key = attempts[i].key
          /\ row.day = attempts[i].day /\ row.increment = attempts[i].increment
          /\ row.status = attempts[i].status /\ row.charge = attempts[i].charge
      BY <1>1 DEF Attempt
    <2> HIDE DEF row
    <2> QED
      BY <1>2, <2>1, <2>2, <2>3, BoardRow DEF StaysVoid, Live, Refunded
  <1>4. ASSUME NEW v \in {"accepted", "manual_review", "rejected"}, SaveOfficialScore(i, v)
        PROVE  (\A j \in Plays : RowHolds(attempts'[j], status', method')) /\ RowsKept
    <2> DEFINE row == [attempts[i] EXCEPT !.session = "submitted", !.score = v,
                         !.status = IF v = "manual_review" THEN "submitted" ELSE v]
    <2>1. attempts' = [attempts EXCEPT ![i] = row] /\ attempts[i].session = "active"
      BY <1>4 DEF SaveOfficialScore
    <2>2. Live(i) /\ status \notin {"frozen", "finalised", "cancelled"}
      BY <1>1, <2>1 DEF RowHolds, Live
    <2>3. /\ row.customer = attempts[i].customer /\ row.key = attempts[i].key
          /\ row.day = attempts[i].day /\ row.increment = attempts[i].increment
          /\ row.charge = attempts[i].charge
          /\ row.session = "submitted" /\ row.score = v
          /\ row.status = IF v = "manual_review" THEN "submitted" ELSE v
      BY <1>1 DEF Attempt
    <2> HIDE DEF row
    <2>4. RowHolds(row, status, method)
      BY <2>2, <2>3 DEF RowHolds
    <2> QED
      BY <1>2, <2>1, <2>2, <2>3, <2>4, BoardRow DEF Refunded
  <1>5. ASSUME NEW v \in {"accepted", "rejected"}, ReviewSubmission(i, v)
        PROVE  (\A j \in Plays : RowHolds(attempts'[j], status', method')) /\ RowsKept
    <2> DEFINE row == [attempts[i] EXCEPT !.score = v, !.status = v]
    <2>1. /\ attempts' = [attempts EXCEPT ![i] = row]
          /\ attempts[i].score \in {"manual_review", "accepted"} /\ Review(i) \in checked
      BY <1>5 DEF ReviewSubmission, Reviewable
    <2>2. (Live(i) \/ status = "cancelled") /\ attempts[i].session = "submitted"
      BY <1>1, <2>1 DEF RowHolds, Live
    <2>3. /\ row.customer = attempts[i].customer /\ row.key = attempts[i].key
          /\ row.day = attempts[i].day /\ row.increment = attempts[i].increment
          /\ row.charge = attempts[i].charge /\ row.session = attempts[i].session
          /\ row.score = v /\ row.status = v
      BY <1>1 DEF Attempt
    <2> HIDE DEF row
    <2>4. RowHolds(row, status, method)
      BY <2>1, <2>2, <2>3 DEF RowHolds
    <2> QED
      BY <1>2, <2>1, <2>2, <2>3, <2>4, BoardRow DEF StaysVoid, Refunded
  <1> QED
    BY <1>3, <1>4, <1>5

\* A sale appends a fresh row, open for play or settled at once.
LEMMA BoardPlay ==
    ASSUME BoardInv, NEW c \in Customers, NEW k \in Keys, NEW now \in Nows,
           PlaySkill(c, k, now) \/ PlayChance(c, k, now) \/ PlayWin(c, k, now)
    PROVE  (\A i \in Plays' : RowHolds(attempts'[i], status', method')) /\ RowsKept
  <1> DEFINE len == Len(attempts)
  <1>1. /\ attempts \in Seq(Attempt) /\ Plays = 1..len /\ len \in Nat
        /\ \A i \in Plays : RowHolds(attempts[i], status, method)
    BY PlaysFinite DEF BoardInv, TypeOK
  <1>2. \/ /\ method = "score" /\ StartPlay(c, k, now, "started", "active")
        \/ /\ method # "score" /\ StartPlay(c, k, now, "accepted", "submitted")
    BY DEF PlaySkill, PlayChance, PlayWin
  <1>3. /\ method' = method /\ status \in {"live", "scheduled"}
        /\ status' \in {status, "closed"}
    BY <1>2 DEF PlaySkill, PlayChance, PlayWin, StartPlay, clockVars
  <1>4. PICK row : /\ attempts' = Append(attempts, row)
                   /\ row.score = "none"
                   /\ \/ method = "score" /\ row.status = "started" /\ row.session = "active"
                      \/ method # "score" /\ row.status = "accepted" /\ row.session = "submitted"
    BY <1>2 DEF StartPlay
  <1>5. /\ Len(attempts') = len + 1 /\ Plays' = 1..(len + 1)
        /\ attempts'[len + 1] = row /\ \A i \in 1..len : attempts'[i] = attempts[i]
    BY <1>1, <1>4 DEF Plays
  <1>6. RowHolds(row, status', method')
    BY <1>3, <1>4 DEF RowHolds
  <1>7. ASSUME NEW i \in Plays PROVE RowHolds(attempts[i], status', method')
    BY <1>1, <1>3 DEF RowHolds
  <1>8. \A i \in Plays' : RowHolds(attempts'[i], status', method')
    BY <1>1, <1>5, <1>6, <1>7
  <1>9. RowsKept
    BY <1>1, <1>5 DEF RowsKept, StaysVoid, Live, Refunded
  <1> QED
    BY <1>8, <1>9

\* Closing open sessions closes the board for the statuses that need it.
LEMMA BoardFreeze ==
    ASSUME BoardInv, Freeze
    PROVE  (\A i \in Plays : RowHolds(attempts'[i], status', method')) /\ RowsKept
  <1>1. /\ attempts \in Seq(Attempt) /\ Plays = 1..Len(attempts) /\ Len(attempts) \in Nat
        /\ attempts' = ExpireSessions(attempts)
        /\ Len(attempts') = Len(attempts)
    BY ExpireSessionsType, PlaysFinite DEF BoardInv, TypeOK, Freeze, ExpireSessions
  <1>2. ASSUME NEW i \in Plays
        PROVE  /\ RowHolds(attempts'[i], status', method')
               /\ attempts'[i].customer = attempts[i].customer
               /\ attempts'[i].key = attempts[i].key
               /\ attempts'[i].day = attempts[i].day
               /\ attempts'[i].increment = attempts[i].increment
               /\ attempts'[i].status = attempts[i].status
               /\ attempts'[i].charge = attempts[i].charge
    <2>1. attempts[i] \in Attempt /\ RowHolds(attempts[i], status, method)
      BY DEF BoardInv, TypeOK, Plays
    <2>2. status' = "frozen" /\ method' = method /\ status = "closed"
      BY DEF Freeze, Unchanging, clockVars
    <2>3. CASE attempts[i].session = "active"
      <3>1. attempts'[i] = [attempts[i] EXCEPT !.session = "expired"]
        BY <1>1, <2>3 DEF ExpireSessions
      <3>2. /\ attempts'[i].session = "expired" /\ attempts'[i].score = attempts[i].score
            /\ attempts'[i].customer = attempts[i].customer
            /\ attempts'[i].key = attempts[i].key
            /\ attempts'[i].day = attempts[i].day
            /\ attempts'[i].increment = attempts[i].increment
            /\ attempts'[i].status = attempts[i].status
            /\ attempts'[i].charge = attempts[i].charge
        BY <2>1, <3>1 DEF Attempt
      <3> QED
        BY <2>1, <2>2, <2>3, <3>2 DEF RowHolds
    <2>4. CASE attempts[i].session # "active"
      <3>1. attempts'[i] = attempts[i]
        BY <1>1, <2>4 DEF ExpireSessions
      <3> QED
        BY <2>1, <2>2, <2>4, <3>1 DEF RowHolds
    <2> QED
      BY <2>3, <2>4
  <1> QED
    BY <1>1, <1>2 DEF RowsKept, StaysVoid, Live, Refunded

\* A void closes the row's session and rejects its score.
LEMMA BoardVoid ==
    ASSUME BoardInv, NEW i \in Plays, NEW refund \in BOOLEAN, NEW reverse \in BOOLEAN,
           VoidPlay(i, refund, reverse)
    PROVE  (\A j \in Plays : RowHolds(attempts'[j], status', method')) /\ RowsKept
  <1> DEFINE owed == IF refund THEN {i} \cap Owed ELSE {}
             row == Voided(attempts[i], i \in owed)
  <1>1. attempts[i] \in Attempt /\ RowHolds(attempts[i], status, method)
    BY DEF BoardInv, TypeOK, Plays
  <1>2. attempts' = [attempts EXCEPT ![i] = row] /\ UNCHANGED <<method, status>>
    BY DEF VoidPlay, clockVars
  <1>3. /\ row.customer = attempts[i].customer /\ row.key = attempts[i].key
        /\ row.day = attempts[i].day /\ row.increment = attempts[i].increment
        /\ row.status = "voided"
        /\ Refunded(i) => row.charge = "refunded"
        /\ row.session = IF attempts[i].session = "active" THEN "expired" ELSE attempts[i].session
        /\ row.score = IF attempts[i].score = "none" THEN "none" ELSE "rejected"
    BY <1>1 DEF Voided, Attempt, Refunded
  <1> HIDE DEF row
  <1>4. RowHolds(row, status, method)
    BY <1>1, <1>3 DEF RowHolds
  <1> QED
    BY <1>2, <1>3, <1>4, BoardRow DEF StaysVoid

\* Cancelling voids every row and closes every session.
LEMMA BoardCancel ==
    ASSUME BoardInv, Cancel
    PROVE  (\A i \in Plays : RowHolds(attempts'[i], status', method')) /\ RowsKept
  <1>1. /\ attempts \in Seq(Attempt) /\ Plays = 1..Len(attempts) /\ Len(attempts) \in Nat
        /\ attempts' = ExpireSessions(AllVoided) /\ Len(attempts') = Len(attempts)
        /\ DOMAIN AllVoided = Plays
    BY AllVoidedType, ExpireSessionsType, PlaysFinite DEF Cancel, BoardInv, TypeOK, AllVoided
  <1>2. ASSUME NEW i \in Plays
        PROVE  /\ RowHolds(attempts'[i], status', method')
               /\ attempts'[i].customer = attempts[i].customer
               /\ attempts'[i].key = attempts[i].key
               /\ attempts'[i].day = attempts[i].day
               /\ attempts'[i].increment = attempts[i].increment
               /\ attempts'[i].status = "voided"
               /\ Refunded(i) => attempts'[i].charge = "refunded"
    <2> DEFINE row == AllVoided[i]
    <2>1. attempts[i] \in Attempt /\ RowHolds(attempts[i], status, method)
      BY DEF BoardInv, TypeOK, Plays
    <2>2. status' = "cancelled" /\ method' = method
      BY DEF Cancel, clockVars
    <2>3. /\ row.customer = attempts[i].customer /\ row.key = attempts[i].key
          /\ row.day = attempts[i].day /\ row.increment = attempts[i].increment
          /\ row.status = "voided"
          /\ Refunded(i) => row.charge = "refunded"
          /\ row.session = attempts[i].session /\ row.score = attempts[i].score
      BY <2>1 DEF Attempt, Refunded, AllVoided
    <2>4. row \in Attempt
      BY <1>1, AllVoidedType
    <2>5. attempts'[i] = IF row.session = "active" THEN [row EXCEPT !.session = "expired"]
                         ELSE row
      BY <1>1 DEF ExpireSessions
    <2> HIDE DEF row
    <2>6. /\ attempts'[i].customer = row.customer /\ attempts'[i].key = row.key
          /\ attempts'[i].day = row.day /\ attempts'[i].increment = row.increment
          /\ attempts'[i].status = row.status /\ attempts'[i].charge = row.charge
          /\ attempts'[i].score = row.score
          /\ attempts'[i].session = IF row.session = "active" THEN "expired" ELSE row.session
      BY <2>4, <2>5 DEF Attempt
    <2>7. RowHolds(attempts'[i], status', method')
      BY <2>1, <2>2, <2>3, <2>6 DEF RowHolds
    <2> QED
      BY <2>3, <2>6, <2>7
  <1> QED
    BY <1>1, <1>2 DEF RowsKept, StaysVoid, Live, Refunded

-----------------------------------------------------------------------------
(* The board, over every step.                                             *)

\* The board, over every step.
LEMMA BoardNext ==
    ASSUME BoardInv, Next
    PROVE  BoardInv' /\ RowsKept
  <1>1. TypeOK' /\ TypeOK
    BY TypeStep DEF BoardInv
  <1>2. CASE Len(attempts') = Len(attempts) /\ (\A i \in Plays : RowHolds(attempts'[i], status', method'))
             /\ RowsKept
    <2>1. Plays' = Plays
      BY <1>1, <1>2, PlaysFinite DEF TypeOK, Plays
    <2> QED
      BY <1>1, <1>2, <2>1 DEF BoardInv
  <1>3. CASE /\ UNCHANGED <<attempts, method>>
             /\ status' \in {"frozen", "finalised", "cancelled"} => status' = status
             /\ status = "cancelled" => status' = "cancelled"
    BY <1>2, <1>3, BoardUntouched
  <1>4. ASSUME NEW i \in Plays,
               \/ ExpireSession(i)
               \/ \E v \in {"accepted", "manual_review", "rejected"} : SaveOfficialScore(i, v)
               \/ \E v \in {"accepted", "rejected"} : ReviewSubmission(i, v)
        PROVE  BoardInv' /\ RowsKept
    <2>1. DOMAIN attempts' = DOMAIN attempts
      BY <1>4 DEF ExpireSession, SaveOfficialScore, ReviewSubmission
    <2> QED
      BY <1>1, <1>4, <2>1, BoardScores DEF BoardInv, Plays
  <1>5. ASSUME NEW i \in Plays, NEW refund \in BOOLEAN, NEW reverse \in BOOLEAN,
               VoidPlay(i, refund, reverse)
        PROVE  BoardInv' /\ RowsKept
    <2>1. DOMAIN attempts' = DOMAIN attempts
      BY <1>5 DEF VoidPlay
    <2> QED
      BY <1>1, <1>5, <2>1, BoardVoid DEF BoardInv, Plays
  <1>6. CASE Freeze
    <2>1. DOMAIN attempts' = DOMAIN attempts
      BY <1>6 DEF Freeze, ExpireSessions
    <2> QED
      BY <1>1, <1>6, <2>1, BoardFreeze DEF BoardInv, Plays
  <1>7. CASE Cancel
    <2>1. DOMAIN attempts' = DOMAIN attempts
      BY <1>7 DEF Cancel, ExpireSessions, AllVoided, Plays
    <2> QED
      BY <1>1, <1>7, <2>1, BoardCancel DEF BoardInv, Plays
  <1>8. ASSUME NEW c \in Customers, NEW k \in Keys, NEW now \in Nows,
               PlaySkill(c, k, now) \/ PlayChance(c, k, now) \/ PlayWin(c, k, now)
        PROVE  BoardInv' /\ RowsKept
    BY <1>1, <1>8, BoardPlay DEF BoardInv
  <1> QED
    BY <1>2, <1>3, <1>4, <1>5, <1>6, <1>7, <1>8
       DEF Next, Update, Wait, Schedule, Tick, NextDay, SyncClose, SyncOpen, Pause, Resume, Close,
           AdjustPrize, Unchanging, SubmitOfficial, ReadForReview, ScoresOnly, clockVars

\* The board is inductive.
LEMMA BoardStep == BoardInv /\ [Next]_vars => BoardInv'
  <1>1. CASE UNCHANGED vars
    BY <1>1 DEF vars, BoardInv, TypeOK, RowHolds, Plays
  <1> QED
    BY <1>1, BoardNext

\* A draft has an empty board.
LEMMA BoardInit == Init => BoardInv
  BY TypeInit DEF Init, BoardInv, Plays

\* The board holds in every reachable state.
LEMMA BoardInvariant == Spec => []BoardInv
  BY BoardInit, BoardStep, PTL DEF Spec

\* A play and its score never contradict each other, however submissions,
\* reviews, voids and cancellation interleave.
THEOREM ScoresAgree == Spec => []ScoresMatchPlays
  <1>1. BoardInv => ScoresMatchPlays
    BY DEF BoardInv, RowHolds, ScoresMatchPlays
  <1> QED
    BY <1>1, BoardInvariant, PTL

\* No score is saved to a board once it is frozen.
THEOREM FreezeHolds == Spec => []FrozenBoardHolds
  <1>1. BoardInv => FrozenBoardHolds
    BY DEF BoardInv, RowHolds, FrozenBoardHolds
  <1> QED
    BY <1>1, BoardInvariant, PTL

\* A void is final: nothing under way brings the play back, but for a review
\* that had read the round's status before the round was cancelled.
THEOREM VoidsAreFinal == Spec => VoidedForGood
  <1>1. BoardInv /\ [Next]_vars =>
          [\A i \in Plays : /\ ~Live(i) => StaysVoid(i, attempts'[i].status)
                            /\ Refunded(i) => attempts'[i].charge = "refunded"]_vars
    BY BoardNext DEF RowsKept
  <1> QED
    BY <1>1, BoardInvariant, PTL DEF Spec, VoidedForGood, StaysVoid

-----------------------------------------------------------------------------
(* The lifecycle and the winning play.                                     *)

\* How far one step may move the status.
StatusMove ==
    \/ status' = status
    \/ status \in {"draft", "scheduled"} /\ status' \in {"draft", "scheduled"}
    \/ status = "scheduled" /\ status' \in {"live", "closed"}
    \/ status \in {"live", "paused"} /\ status' \in {"live", "paused", "closed"}
    \/ status = "closed" /\ status' = "frozen"
    \/ status \notin {"finalised", "cancelled"} /\ status' = "cancelled" /\ Cancel

\* Where each step may take the status.
LEMMA NextMovesStatus == Next => StatusMove
  <1> SUFFICES ASSUME Next PROVE StatusMove
    OBVIOUS
  <1>1. ASSUME NEW c \in Customers, NEW k \in Keys, NEW now \in Nows,
               PlaySkill(c, k, now) \/ PlayChance(c, k, now) \/ PlayWin(c, k, now)
        PROVE  StatusMove
    BY <1>1 DEF PlaySkill, PlayChance, PlayWin, StartPlay, StatusMove
  <1>2. CASE Schedule \/ Cancel \/ Freeze \/ SyncClose \/ SyncOpen \/ Pause \/ Resume \/ Close
    BY <1>2 DEF Schedule, Cancel, Freeze, SyncClose, SyncOpen, Pause, Resume, Close, StatusMove
  <1>3. ASSUME NEW s, NEW w, Update(s, w) PROVE StatusMove
    BY <1>3 DEF Update, StatusMove
  <1>4. CASE status' = status
    BY <1>4 DEF StatusMove
  <1> QED
    BY <1>1, <1>2, <1>3, <1>4
       DEF Next, Wait, Tick, NextDay, SubmitOfficial, ExpireSession, ReadForReview,
           SaveOfficialScore, ReviewSubmission, ScoresOnly, AdjustPrize, VoidPlay

\* A round only moves forward: no admin request or late clock statement
\* reopens one that closed, and a cancelled one stays cancelled.
THEOREM LifecycleMovesForward == Spec => NeverReopens
  <1>1. [Next]_vars =>
          [/\ status \in {"closed", "frozen", "finalised", "cancelled"} =>
                 status' \notin {"draft", "scheduled", "live", "paused"}
           /\ status = "frozen" => status' # "closed"
           /\ status \in {"finalised", "cancelled"} => status' = status]_vars
    BY NextMovesStatus DEF StatusMove
  <1> QED
    BY <1>1, PTL DEF Spec, NeverReopens

\* One winning play at most is inductive: it closes the round it wins.
LEMMA WonStep == TypeOK /\ WonOnce /\ [Next]_vars => WonOnce'
  <1> SUFFICES ASSUME TypeOK, WonOnce, [Next]_vars PROVE WonOnce'
    OBVIOUS
  <1>1. CASE UNCHANGED vars
    BY <1>1 DEF vars, WonOnce
  <1>2. ASSUME NEW c \in Customers, NEW k \in Keys, NEW now \in Nows, PlayWin(c, k, now)
        PROVE  WonOnce'
    <2>1. winners = <<>> /\ status' = "closed"
      BY <1>2 DEF PlayWin, StartPlay, WonOnce
    <2>2. PICK w : winners' = Append(<<>>, w)
      BY <1>2, <2>1 DEF PlayWin
    <2>3. Len(winners') = 1
      BY <2>2
    <2> QED
      BY <2>1, <2>3 DEF WonOnce
  <1>3. CASE Next /\ UNCHANGED <<winners, method>>
    BY <1>3, NextMovesStatus DEF StatusMove, WonOnce
  <1>4. Next => \/ UNCHANGED <<winners, method>>
                \/ \E c \in Customers, k \in Keys, now \in Nows : PlayWin(c, k, now)
    <2> SUFFICES ASSUME Next, \A c \in Customers, k \in Keys, now \in Nows : ~PlayWin(c, k, now)
                 PROVE  UNCHANGED <<winners, method>>
      OBVIOUS
    <2>1. ASSUME NEW c \in Customers, NEW k \in Keys, NEW now \in Nows,
                 PlaySkill(c, k, now) \/ PlayChance(c, k, now)
          PROVE  UNCHANGED <<winners, method>>
      BY <2>1 DEF PlaySkill, PlayChance, StartPlay, clockVars
    <2>2. CASE Wait \/ Schedule \/ Tick \/ NextDay \/ SyncClose \/ SyncOpen
      BY <2>2 DEF Wait, Schedule, Tick, NextDay, SyncClose, SyncOpen, Unchanging, clockVars
    <2>3. CASE Pause \/ Resume \/ Close \/ Freeze \/ Cancel
      BY <2>3 DEF Pause, Resume, Close, Freeze, Cancel, Unchanging, clockVars
    <2>4. ASSUME NEW s, NEW w, Update(s, w) PROVE UNCHANGED <<winners, method>>
      BY <2>4 DEF Update
    <2>5. ASSUME NEW i, NEW v,
                 \/ SubmitOfficial(i) \/ ExpireSession(i) \/ ReadForReview(i)
                 \/ SaveOfficialScore(i, v) \/ ReviewSubmission(i, v)
          PROVE  UNCHANGED <<winners, method>>
      BY <2>5 DEF SubmitOfficial, ExpireSession, ReadForReview, SaveOfficialScore,
                  ReviewSubmission, ScoresOnly, clockVars
    <2>6. ASSUME NEW d, NEW i, NEW refund, NEW reverse,
                 AdjustPrize(d) \/ VoidPlay(i, refund, reverse)
          PROVE  UNCHANGED <<winners, method>>
      BY <2>6 DEF AdjustPrize, VoidPlay, clockVars
    <2> QED
      BY <2>1, <2>2, <2>3, <2>4, <2>5, <2>6 DEF Next
  <1> QED
    BY <1>1, <1>2, <1>3, <1>4

\* An instant round is won by one play only, and that play ends the round.
THEOREM OneWinningPlay == Spec => []WonOnce
  <1>1. Init => WonOnce
    BY DEF Init, WonOnce
  <1> QED
    BY <1>1, WonStep, TypeCorrect, PTL DEF Spec

=============================================================================
