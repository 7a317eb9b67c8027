----------------------------- MODULE PrizeRound -----------------------------
(***************************************************************************)
(* One round of the progressive prize engine, from draft to the frozen     *)
(* board: the lifecycle, the prize and its append-only ledger, the plays   *)
(* customers buy with points, their game sessions and scores.              *)
(*                                                                         *)
(* Every repository function in prize_repository.go and                    *)
(* competition_repository.go is one database transaction that takes the    *)
(* round's row lock, or touches only rows it locks itself, so each is one  *)
(* atomic action here. What is not atomic in the code is not atomic here:  *)
(* a submitted score is checked in one step (SubmitOfficial) and saved in  *)
(* a later one (SaveOfficialScore), and a review reads the round's status  *)
(* in one step (ReadForReview) and writes in a later one                   *)
(* (ReviewSubmission), with anything in between.                           *)
(*                                                                         *)
(* A Mut... operator is a faulty variant of the definition after it, for   *)
(* mutation tests of the properties; nothing else refers to it.            *)
(***************************************************************************)
EXTENDS Integers, Sequences, FiniteSets

CONSTANTS
    Customers,      \* players of the round
    Keys,           \* client_request_id values a player may send
    WinnerMethods,  \* winner_method values the round's game may have
    PointsUnits,    \* points_unit values the round may have
    Growth,         \* prize_growth_enabled
    Increment,      \* increment_per_play_cents
    MaxPrize,       \* max_prize_cents, or Unset
    ContinueAtCap,  \* continue_at_cap
    StartPrizes,    \* values an admin may give start_prize_cents
    Cost,           \* points_per_attempt
    InitialPoints,  \* every player's points balance when the round is made
    MaxAttempts,    \* max_attempts_per_customer; 0 is no limit
    DailyLimit,     \* daily_play_limit, or Unset
    AdjustDeltas,   \* amounts an admin may post to the prize
    MaxPlays,       \* bound: plays in the whole round
    MaxAdjusts,     \* bound: admin adjustments
    MaxVoids,       \* bound: plays voided one by one
    MaxEdits,       \* bound: edits of the draft
    MaxDay,         \* bound: calendar days the window spans
    MaxWaits        \* bound: moments at which a waiting transaction began

\* A NULL column.
Unset == -1

\* What CompetitionService.apply accepts: a growing prize has a positive
\* increment and a cap no lower than its start; a fixed one has neither. A
\* play bought with competition points costs some (competitionPointsTerms).
ASSUME RoundAssumption ==
    /\ WinnerMethods \subseteq {"score", "instant", "draw"}
    /\ Growth \in BOOLEAN /\ ContinueAtCap \in BOOLEAN
    /\ StartPrizes \subseteq Nat
    /\ IF Growth
         THEN /\ Increment \in Nat \ {0}
              /\ MaxPrize \in Nat \ {0}
              /\ \A s \in StartPrizes : s <= MaxPrize
         ELSE Increment = 0 /\ MaxPrize = Unset
    /\ PointsUnits \subseteq {"legacy", "competition"}
    /\ "competition" \in PointsUnits => Cost > 0
    /\ Cost \in Nat /\ InitialPoints \in Nat /\ MaxAttempts \in Nat
    /\ DailyLimit \in Nat \/ DailyLimit = Unset
    /\ AdjustDeltas \subseteq Int \ {0}
    /\ MaxPlays \in Nat /\ MaxAdjusts \in Nat /\ MaxVoids \in Nat
    /\ MaxEdits \in Nat /\ MaxDay \in Nat /\ MaxWaits \in Nat

VARIABLES
    method,    \* competitions.winner_method: the game decides it
    unit,      \* competitions.points_unit: what plays are bought with
    status,    \* competitions.status
    clock,     \* where now() lies in [starts_at, ends_at)
    day,       \* the calendar day in the round's time zone
    start,     \* start_prize_cents
    current,   \* current_prize_cents, the cached prize
    final,     \* final_prize_cents
    plays,     \* eligible_play_count
    players,   \* unique_player_count
    edits,     \* config_version - 1
    attempts,  \* competition_attempts joined with their session and score
    ledger,    \* prize_ledger, in seq order
    wallet,    \* points_accounts.balance by customer
    points,    \* points_ledger rows of this round, by their unique key
    winners,   \* competition_winners, in creation order
    checked,   \* requests to submit or review a play, past their checks
    began      \* when the transactions waiting for the round lock began

clockVars  == <<method, unit, clock, day, began>>
prizeVars  == <<current, plays, players, ledger>>
pointVars  == <<wallet, points>>
vars == <<method, unit, status, clock, day, start, current, final, plays, players, edits,
          attempts, ledger, wallet, points, winners, checked, began>>

Statuses == {"draft", "scheduled", "live", "paused", "closed", "frozen",
             "finalised", "cancelled"}

Attempt ==
    [customer : Customers, key : Keys, day : Nat, increment : Nat,
     status : {"started", "submitted", "accepted", "rejected", "voided"},
     charge : {"kept", "refunded"},   \* refunded_at
     session : {"active", "submitted", "expired"},
     score : {"none", "accepted", "manual_review", "rejected"}]

\* ref is the play or the winner the entry belongs to, 0 when neither.
PrizeEntry ==
    [type : {"seed", "play_increment", "play_reversal", "admin_adjustment",
             "correction", "winner_settlement"},
     delta : Int, after : Nat, ref : Nat]

PointsEntry == [type : {"play_debit", "play_refund"}, attempt : Nat \ {0}]

Winner ==
    [customer : Customers, attempt : Nat, position : Nat \ {0},
     status : {"pending_validation", "validated", "disqualified", "unclaimed"},
     settlement : {"pending", "settled", "not_applicable"},
     value : Nat \cup {Unset},
     claim : {"none", "pending", "claimed", "verified", "fulfilled",
              "rejected", "expired"}]

\* A request that passed its checks: rows it read then may have changed.
Request == [kind : {"submit", "review"}, play : Nat]
Submit(i) == [kind |-> "submit", play |-> i]
Review(i) == [kind |-> "review", play |-> i]

Plays == DOMAIN attempts
Live(i) == attempts[i].status # "voided"
Refunded(i) == attempts[i].charge = "refunded"

\* What a play takes from the legacy balance. One bought with competition
\* points takes them from lots (CpEntries) and leaves no row here.
Charge == IF unit = "legacy" THEN Cost ELSE 0

\* The units a round decided this way may have (competitionPointsTerms: only
\* a skill game won by the best score is entered with competition points).
UnitsOf(m) == IF m = "score" THEN PointsUnits ELSE PointsUnits \ {"competition"}

\* A round is created as a draft with an empty prize; its window is whatever
\* the admin chose.
Init ==
    /\ method \in WinnerMethods /\ unit \in UnitsOf(method) /\ status = "draft"
    /\ clock \in {"before", "open"} /\ day = 0
    /\ start \in StartPrizes
    /\ current = 0 /\ final = Unset /\ plays = 0 /\ players = 0 /\ edits = 0
    /\ attempts = <<>> /\ ledger = <<>>
    /\ wallet = [c \in Customers |-> InitialPoints] /\ points = {}
    /\ winners = <<>> /\ checked = {} /\ began = {}

-----------------------------------------------------------------------------
(* The prize.                                                              *)

Smaller(a, b) == IF a < b THEN a ELSE b

AtCap == MaxPrize # Unset /\ current >= MaxPrize

\* PlayIncrement: the increment, cut down to the room left under the cap.
PlayIncrement ==
    IF ~Growth \/ AtCap THEN 0
    ELSE IF MaxPrize = Unset THEN Increment
    ELSE Smaller(Increment, MaxPrize - current)

\* The prize may never leave [0, max]: below, or raised above the cap.
MutInRangeNoFloor(delta) == delta > 0 /\ MaxPrize # Unset => current + delta <= MaxPrize
InRange(delta) ==
    /\ current + delta >= 0
    /\ delta > 0 /\ MaxPrize # Unset => current + delta <= MaxPrize

\* postPrize: a ledger row unless nothing moved, the cached prize and the
\* counters. Outside the range it fails, and the transaction with it.
MutPostPrize(type, delta, ref, morePlays, morePlayers) ==
    /\ current' = current + delta
    /\ plays' = plays + morePlays
    /\ players' = players + morePlayers
    /\ ledger' = IF delta # 0 \/ type = "seed"
                   THEN Append(ledger, [type |-> type, delta |-> delta,
                                        after |-> current, ref |-> ref])
                   ELSE ledger
PostPrize(type, delta, ref, morePlays, morePlayers) ==
    /\ InRange(delta)
    /\ current' = current + delta
    /\ plays' = plays + morePlays
    /\ players' = players + morePlayers
    /\ ledger' = IF delta # 0 \/ type = "seed"
                   THEN Append(ledger, [type |-> type, delta |-> delta,
                                        after |-> current + delta, ref |-> ref])
                   ELSE ledger

Coalesce(a, b) == IF a # Unset THEN a ELSE b

-----------------------------------------------------------------------------
(* Time.                                                                   *)

Moment == [clock : {"before", "open", "over"}, day : Nat]

\* What now() may read in a transaction that holds the round lock. now() is
\* the time its transaction began: the present, or an earlier moment when it
\* waited for the lock since then.
Present == [clock |-> clock, day |-> day]
Nows == {Present} \cup began
Sees(phase) == \E now \in Nows : now.clock = phase
BeforeEnd == Sees("before") \/ Sees("open")

\* Some transaction begins and has to wait for the round lock.
Wait ==
    /\ Cardinality(began) < MaxWaits
    /\ began' = began \cup {Present}
    /\ UNCHANGED <<method, unit, status, clock, day, start, final, edits, attempts, prizeVars,
                   pointVars, winners, checked>>

-----------------------------------------------------------------------------
(* Publishing.                                                             *)

\* Update: a draft, or a round scheduled but not started, goes back to draft
\* with a new start prize and a new window. The prize itself is untouched.
Update(newStart, newClock) ==
    /\ edits < MaxEdits
    /\ status = "draft" \/ (status = "scheduled" /\ Sees("before"))
    /\ status' = "draft" /\ start' = newStart /\ clock' = newClock
    /\ edits' = edits + 1
    /\ UNCHANGED <<method, unit, day, began, final, attempts, winners, checked, prizeVars, pointVars>>

Seeded == \E n \in DOMAIN ledger : ledger[n].type = "seed"

\* seedRound: the SEED entry the first time, later a correction that brings
\* the prize back to the edited start.
SeedRound ==
    IF ~Seeded THEN PostPrize("seed", start - current, 0, 0, 0)
    ELSE IF start # current THEN PostPrize("correction", start - current, 0, 0, 0)
    ELSE UNCHANGED prizeVars

Schedule ==
    /\ status = "draft" /\ BeforeEnd
    /\ status' = "scheduled"
    /\ SeedRound
    /\ UNCHANGED <<clockVars, start, final, edits, attempts, pointVars, winners, checked>>

-----------------------------------------------------------------------------
(* The clock, and the stored status that follows it.                       *)

Tick ==
    /\ \/ clock = "before" /\ clock' = "open"
       \/ clock = "open" /\ clock' = "over"
    /\ UNCHANGED <<method, unit, status, day, start, final, edits, attempts, prizeVars,
                   pointVars, winners, checked, began>>

NextDay ==
    /\ clock = "open" /\ day < MaxDay
    /\ day' = day + 1
    /\ UNCHANGED <<method, unit, status, clock, start, final, edits, attempts, prizeVars,
                   pointVars, winners, checked, began>>

Unchanging == UNCHANGED <<clockVars, start, edits, prizeVars, pointVars, winners, checked>>

\* SyncStatuses, first statement: a round past its end closes on its prize.
SyncClose ==
    /\ status \in {"scheduled", "live", "paused"} /\ clock = "over"
    /\ status' = "closed" /\ final' = Coalesce(final, current)
    /\ UNCHANGED attempts /\ Unchanging

\* SyncStatuses, second statement: a published round opens at its start.
SyncOpen ==
    /\ status = "scheduled" /\ Sees("open")
    /\ status' = "live"
    /\ UNCHANGED <<final, attempts>> /\ Unchanging

-----------------------------------------------------------------------------
(* Plays.                                                                  *)

By(c) == {i \in Plays : attempts[i].customer = c}
Active(c) == {i \in By(c) : Live(i)}
Since(c, d) == {i \in Active(c) : attempts[i].day >= d}

\* A request that repeats a key is answered with the play it already bought.
IsReplay(c, k) == \E i \in By(c) : attempts[i].key = k

\* The round and daily limits; plays from the start of day d count as today's.
MutWithinLimits(c, d) ==
    /\ MaxAttempts > 0 => Cardinality(Active(c)) <= MaxAttempts
    /\ DailyLimit # Unset => Cardinality(Since(c, d)) <= DailyLimit
WithinLimits(c, d) ==
    /\ MaxAttempts > 0 => Cardinality(Active(c)) < MaxAttempts
    /\ DailyLimit # Unset => Cardinality(Since(c, d)) < DailyLimit

\* StartPlay: limits, balance, increment, then debit, session, play, prize
\* entry and counters all at once, at the moment the transaction began. The
\* play starts in attemptStatus, its session in session.
StartPlay(c, k, now, attemptStatus, session) ==
    LET id == Len(attempts) + 1 IN
    /\ Len(attempts) < MaxPlays
    /\ ~IsReplay(c, k)
    /\ status \in {"live", "scheduled"} /\ now.clock = "open"
    /\ WithinLimits(c, now.day)
    /\ wallet[c] >= Charge
    /\ ~(AtCap /\ Growth /\ ~ContinueAtCap)
    /\ attempts' = Append(attempts,
         [customer |-> c, key |-> k, day |-> now.day, increment |-> PlayIncrement,
          status |-> attemptStatus, charge |-> "kept", session |-> session,
          score |-> "none"])
    /\ wallet' = [wallet EXCEPT ![c] = @ - Charge]
    /\ points' = IF Charge > 0
                   THEN points \cup {[type |-> "play_debit", attempt |-> id]}
                   ELSE points
    /\ PostPrize("play_increment", PlayIncrement, id, 1, IF By(c) = {} THEN 1 ELSE 0)
    /\ UNCHANGED <<clockVars, start, edits, checked>>

\* A skill game is played in a session and scored afterwards.
PlaySkill(c, k, now) ==
    /\ method = "score"
    /\ StartPlay(c, k, now, "started", "active")
    /\ UNCHANGED <<status, final, winners>>

\* resolveChance: a chance play is settled in its own transaction. Here it
\* enters a draw, or loses.
PlayChance(c, k, now) ==
    /\ method # "score"
    /\ StartPlay(c, k, now, "accepted", "submitted")
    /\ UNCHANGED <<status, final, winners>>

\* resolveChance: the winning play closes the round on the prize it left.
PlayWin(c, k, now) ==
    /\ method = "instant"
    /\ StartPlay(c, k, now, "accepted", "submitted")
    /\ winners' = Append(winners,
         [customer |-> c, attempt |-> Len(attempts) + 1, position |-> 1,
          status |-> "pending_validation", settlement |-> "pending",
          value |-> current', claim |-> "none"])
    /\ status' = "closed" /\ final' = current'

-----------------------------------------------------------------------------
(* Scores.                                                                 *)

ScoresOnly == UNCHANGED <<status, final>> /\ UNCHANGED <<clockVars, start, edits,
                          prizeVars, pointVars, winners>>

\* SubmitOfficial's checks, made on rows read before any lock: an active
\* session, a play not voided, a round that is running by the clock.
SubmitOfficial(i) ==
    /\ attempts[i].session = "active" /\ Live(i)
    /\ status \in {"scheduled", "live", "paused"} /\ clock = "open"
    /\ checked' = checked \cup {Submit(i)}
    /\ UNCHANGED attempts /\ ScoresOnly

\* SubmitOfficial's refusals: the round has closed or the session's time is
\* up, and the session is expired if it is still active.
ExpireSession(i) ==
    /\ attempts[i].session = "active"
    /\ attempts' = [attempts EXCEPT ![i].session = "expired"]
    /\ UNCHANGED checked /\ ScoresOnly

\* SaveOfficialScore: closes the session if it is still active, writes the
\* score and settles the play. The request may be one of several retries, so
\* the play stays in checked.
MutSaveOfficialScore(i, verdict) ==
    /\ Submit(i) \in checked
    /\ attempts' = [attempts EXCEPT ![i] =
         [@ EXCEPT !.session = "submitted", !.score = verdict, !.status = verdict]]
    /\ UNCHANGED checked /\ ScoresOnly
SaveOfficialScore(i, verdict) ==
    /\ Submit(i) \in checked
    /\ attempts[i].session = "active"
    /\ attempts' = [attempts EXCEPT ![i] =
         [@ EXCEPT !.session = "submitted", !.score = verdict,
                   !.status = IF verdict = "manual_review" THEN "submitted" ELSE verdict]]
    /\ UNCHANGED checked /\ ScoresOnly

\* A score an admin may still decide about.
Reviewable(i) == attempts[i].score \in {"manual_review", "accepted"}

\* ReviewSubmission's first statement reads the round's status through a join
\* that locks only the submission, and may wait for that lock.
ReadForReview(i) ==
    /\ status \in {"live", "closed", "frozen"}
    /\ Reviewable(i)
    /\ checked' = checked \cup {Review(i)}
    /\ UNCHANGED attempts /\ ScoresOnly

\* ReviewSubmission: an admin's verdict on a held, or accepted, score. With
\* the lock the score is looked at again, the round is not, and the play is
\* written by its id, whatever it has become. A void of the play or a
\* rejection of its score needs the submission's lock too, so it comes
\* wholly before or after; a cancellation does not.
ReviewSubmission(i, verdict) ==
    /\ Review(i) \in checked
    /\ Reviewable(i)
    /\ attempts' = [attempts EXCEPT ![i] =
         [@ EXCEPT !.score = verdict, !.status = verdict]]
    /\ UNCHANGED checked /\ ScoresOnly

-----------------------------------------------------------------------------
(* The lifecycle, by admins.                                               *)

Pause ==
    /\ status = "live" /\ BeforeEnd
    /\ status' = "paused"
    /\ UNCHANGED <<final, attempts>> /\ Unchanging

MutResume ==
    /\ status \in {"paused", "closed"} /\ BeforeEnd
    /\ status' = "live"
    /\ UNCHANGED <<final, attempts>> /\ Unchanging
Resume ==
    /\ status = "paused" /\ BeforeEnd
    /\ status' = "live"
    /\ UNCHANGED <<final, attempts>> /\ Unchanging

Close ==
    /\ status \in {"live", "paused"}
    /\ status' = "closed" /\ final' = Coalesce(final, current)
    /\ UNCHANGED attempts /\ Unchanging

\* expireSessions: every session of the round still active.
ExpireSessions(rows) ==
    [i \in DOMAIN rows |->
       IF rows[i].session = "active" THEN [rows[i] EXCEPT !.session = "expired"]
       ELSE rows[i]]

Freeze ==
    /\ status = "closed"
    /\ status' = "frozen" /\ final' = Coalesce(final, current)
    /\ attempts' = ExpireSessions(attempts)
    /\ Unchanging

-----------------------------------------------------------------------------
(* Money movements, by admins.                                             *)

Adjusts == Cardinality({n \in DOMAIN ledger : ledger[n].type = "admin_adjustment"})

\* AdjustPrize: after the close it moves the prize the round closed on too.
AdjustPrize(delta) ==
    /\ Adjusts < MaxAdjusts
    /\ status \in {"scheduled", "live", "paused", "closed", "frozen"}
    /\ PostPrize("admin_adjustment", delta, 0, 0, 0)
    /\ final' = IF status \in {"closed", "frozen"} THEN current' ELSE final
    /\ UNCHANGED <<clockVars, status, start, edits, attempts, pointVars, winners, checked>>

\* refundPlay: the legacy points of each play in owed, under its unique key.
RefundPlays(owed) ==
    /\ \A i \in owed : [type |-> "play_refund", attempt |-> i] \notin points
    /\ wallet' = [c \in Customers |->
         wallet[c] + Charge * Cardinality({i \in owed : attempts[i].customer = c})]
    /\ points' = IF unit = "legacy"
                   THEN points \cup {[type |-> "play_refund", attempt |-> i] : i \in owed}
                   ELSE points

\* Plays charged and not given back yet.
MutOwed == {i \in Plays : Cost > 0 /\ ~Refunded(i) /\ Live(i)}
Owed == {i \in Plays : Cost > 0 /\ ~Refunded(i)}

\* What VoidPlay and Cancel leave of a play: the score it had is rejected
\* when the play alone is voided.
MutVoidedNoRefund(row, owed) ==
    [row EXCEPT !.status = "voided",
                !.session = IF @ = "active" THEN "expired" ELSE @,
                !.score = IF @ = "none" THEN "none" ELSE "rejected"]
MutVoidedKeepsScore(row, owed) ==
    [row EXCEPT !.status = "voided", !.charge = IF owed THEN "refunded" ELSE @,
                !.session = IF @ = "active" THEN "expired" ELSE @]
Voided(row, owed) ==
    [row EXCEPT !.status = "voided", !.charge = IF owed THEN "refunded" ELSE @,
                !.session = IF @ = "active" THEN "expired" ELSE @,
                !.score = IF @ = "none" THEN "none" ELSE "rejected"]

Voidable(i) == Live(i)

\* VoidPlay: the play leaves the board, its points go back when refund is
\* set and its increment comes off the prize when reverse is set. The prize
\* the round closed on is not touched.
VoidPlay(i, refund, reverse) ==
    LET owed == IF refund THEN {i} \cap Owed ELSE {} IN
    /\ Cardinality({j \in Plays : ~Live(j)}) < MaxVoids
    /\ status \in {"live", "paused", "closed", "frozen"}
    /\ Voidable(i)
    /\ attempts' = [attempts EXCEPT ![i] = Voided(@, i \in owed)]
    /\ RefundPlays(owed)
    /\ IF reverse /\ attempts[i].increment > 0
         THEN PostPrize("play_reversal", -attempts[i].increment, i, -1, 0)
         ELSE PostPrize("", 0, i, -1, 0)
    /\ UNCHANGED <<clockVars, status, start, final, edits, winners, checked>>

AllVoided ==
    [i \in Plays |->
       [attempts[i] EXCEPT !.status = "voided",
                           !.charge = IF i \in Owed THEN "refunded" ELSE @]]

\* Cancel: every play voided, every point still owed given back, the prize
\* withdrawn with a correction and open sessions closed. Scores keep their
\* verdicts, and the play counter its value.
Cancel ==
    /\ status \notin {"finalised", "cancelled"}
    /\ status' = "cancelled" /\ final' = Coalesce(final, current)
    /\ RefundPlays(Owed)
    /\ attempts' = ExpireSessions(AllVoided)
    /\ IF current > 0 THEN PostPrize("correction", -current, 0, 0, 0)
                      ELSE UNCHANGED prizeVars
    /\ UNCHANGED <<clockVars, start, edits, winners, checked>>

-----------------------------------------------------------------------------

Next ==
    \/ \E s \in StartPrizes, w \in {"before", "open", "over"} : Update(s, w)
    \/ Wait \/ Schedule \/ Tick \/ NextDay \/ SyncClose \/ SyncOpen
    \/ \E c \in Customers, k \in Keys, now \in Nows :
         PlaySkill(c, k, now) \/ PlayChance(c, k, now) \/ PlayWin(c, k, now)
    \/ \E i \in Plays : SubmitOfficial(i) \/ ExpireSession(i) \/ ReadForReview(i)
    \/ \E i \in Plays, v \in {"accepted", "manual_review", "rejected"} :
         SaveOfficialScore(i, v)
    \/ \E i \in Plays, v \in {"accepted", "rejected"} : ReviewSubmission(i, v)
    \/ Pause \/ Resume \/ Close \/ Freeze \/ Cancel
    \/ \E d \in AdjustDeltas : AdjustPrize(d)
    \/ \E i \in Plays, refund \in BOOLEAN, reverse \in BOOLEAN :
         VoidPlay(i, refund, reverse)

Spec == Init /\ [][Next]_vars

-----------------------------------------------------------------------------
(* Properties.                                                             *)

\* Every variable holds a value of its column's type.
TypeOK ==
    /\ method \in WinnerMethods /\ unit \in UnitsOf(method) /\ status \in Statuses
    /\ clock \in {"before", "open", "over"} /\ day \in Nat
    /\ began \subseteq Moment
    /\ start \in StartPrizes /\ edits \in Nat
    /\ current \in Nat /\ final \in Nat \cup {Unset}
    /\ plays \in Int /\ players \in Nat
    /\ attempts \in Seq(Attempt)
    /\ ledger \in Seq(PrizeEntry)
    /\ wallet \in [Customers -> Int]
    /\ points \subseteq PointsEntry
    /\ winners \in Seq(Winner)
    /\ checked \subseteq Request

\* The ledger is a chain: each entry's balance is the one before it plus its
\* amount, and the cached prize is the last balance (postPrize). Nothing
\* moves the prize without its row, and nothing is posted before the seed.
LedgerIsChain ==
    /\ \A n \in DOMAIN ledger :
         ledger[n].after = (IF n = 1 THEN 0 ELSE ledger[n - 1].after) + ledger[n].delta
    /\ current = IF ledger = <<>> THEN 0 ELSE ledger[Len(ledger)].after
    /\ \A n \in DOMAIN ledger : (ledger[n].type = "seed") <=> (n = 1)

\* The prize stays within its cap whatever plays, admins and edits of the
\* start prize do to it (the check constraint on competitions).
PrizeWithinCap == MaxPrize # Unset => current <= MaxPrize

\* The two counters the round keeps: plays not voided, and players. A
\* cancelled round voids its plays and leaves the counters as they were.
CountersMatch ==
    /\ status # "cancelled" => plays = Cardinality({i \in Plays : Live(i)})
    /\ players = Cardinality({attempts[i].customer : i \in Plays})

\* No player's legacy points are lost or made: what a player lacks of the
\* starting balance is the charge of the plays not refunded, and the points
\* ledger has the debit and the refund of exactly those plays that had one. A
\* round entered with competition points leaves the balance and ledger alone.
PointsConserved ==
    /\ \A c \in Customers :
         wallet[c] = InitialPoints - Charge * Cardinality({i \in By(c) : ~Refunded(i)})
    /\ points = IF Charge = 0 THEN {}
                ELSE {[type |-> "play_debit", attempt |-> i] : i \in Plays} \cup
                     {[type |-> "play_refund", attempt |-> i] : i \in {j \in Plays : Refunded(j)}}

\* However requests race or are retried, a player never holds more plays of
\* the round, or of one calendar day, than its limits, and one request key
\* buys one play.
LimitsKept ==
    \A c \in Customers :
      /\ MaxAttempts > 0 => Cardinality(Active(c)) <= MaxAttempts
      /\ DailyLimit # Unset => \A d \in 0..day :
           Cardinality({i \in Active(c) : attempts[i].day = d}) <= DailyLimit
      /\ \A i, j \in By(c) : attempts[i].key = attempts[j].key => i = j

\* A play and its score agree: a voided play's score counts for nothing, a
\* settled one says what its score says, and only a session that was
\* submitted has a score. Cancelling keeps verdicts, on a board no one ranks.
ScoresMatchPlays ==
    \A i \in Plays :
      LET row == attempts[i] IN
      /\ row.score # "none" => row.session = "submitted"
      /\ status # "cancelled" =>
           /\ row.status = "voided" => row.score \in {"none", "rejected"}
           /\ method = "score" /\ row.status \in {"accepted", "rejected"}
                => row.score = row.status
      /\ row.score \in {"accepted", "rejected"} => row.status \in {row.score, "voided"}

\* The board stops changing with the freeze except by an admin's review or
\* void: no session stays open on a closed board that was frozen or
\* cancelled, so a score checked before the freeze cannot be saved after it.
FrozenBoardHolds ==
    status \in {"frozen", "finalised", "cancelled"} =>
      \A i \in Plays : attempts[i].session # "active"

\* A round is won at most once by a play, on the prize that play left, and
\* a won round never runs again.
WonOnce ==
    /\ method = "instant" => Len(winners) <= 1
    /\ winners # <<>> => status \in {"closed", "frozen", "finalised", "cancelled"}

\* A cancelled round leaves no one out of pocket and nothing in the prize:
\* every charge is refunded, once, and every play is voided. A play that is
\* not, or not any more, is one whose review read the round's status before
\* the cancellation and wrote after it; its points stay with the player.
CancelMakesWhole ==
    status = "cancelled" =>
      /\ current = 0
      /\ \A c \in Customers : wallet[c] = InitialPoints
      /\ Cost > 0 => \A i \in Plays : Refunded(i)
      /\ \A i \in Plays : Live(i) =>
           Review(i) \in checked /\ attempts[i].status = attempts[i].score

\* A play once voided stays voided, unless the round was cancelled under a
\* review of it that had read the status before, and a refund once made stays
\* made, whatever submissions and reviews are still under way.
VoidedForGood ==
    [][\A i \in Plays :
         /\ ~Live(i) =>
              attempts'[i].status = "voided" \/ (status = "cancelled" /\ Review(i) \in checked)
         /\ Refunded(i) => attempts'[i].charge = "refunded"]_vars

\* The lifecycle only moves forward: a round that stopped running never runs
\* or changes its rules again, and a cancelled round stays cancelled.
NeverReopens ==
    [][/\ status \in {"closed", "frozen", "finalised", "cancelled"} =>
            status' \notin {"draft", "scheduled", "live", "paused"}
       /\ status = "frozen" => status' # "closed"
       /\ status \in {"finalised", "cancelled"} => status' = status]_vars

-----------------------------------------------------------------------------
(* The round implements the abstract pot.                                  *)

Phase ==
    CASE status = "draft" -> "hidden"
      [] status \in {"scheduled", "live"} -> "open"
      [] status = "paused" -> "held"
      [] status \in {"closed", "frozen"} -> "settling"
      [] status = "finalised" -> "paid"
      [] status = "cancelled" -> "withdrawn"

Pot == INSTANCE PrizePot WITH
         Step <- Increment, Cap <- MaxPrize, phase <- Phase, pot <- current,
         share <- [i \in Plays |-> attempts[i].increment],
         counted <- {i \in Plays : Live(i) /\ status # "cancelled"}

\* Every step of a round is a step its pot may take, or leaves the pot be:
\* each play counts once, is taken back whole or not at all, and nothing
\* moves a withdrawn pot. No play counts in a cancelled round, not even one
\* that an overtaken review has written a verdict on.
ImplementsPot == Pot!PotSpec
=============================================================================
