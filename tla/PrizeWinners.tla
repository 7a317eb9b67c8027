---------------------------- MODULE PrizeWinners ----------------------------
(***************************************************************************)
(* From a closed round to paid winners: finalising a score round, drawing  *)
(* a prize draw, validating winners, replacing the disqualified and the    *)
(* unclaimed, settling the prize, and the claims.                          *)
(*                                                                         *)
(* Unlike the engine's transactions, these handlers of CompetitionService  *)
(* read rows in one step and write in a later one: a request in flight     *)
(* keeps what it read, and voids, adjustments, reviews, cancellation and   *)
(* the other admins' requests come in between. Every action of PrizeRound  *)
(* is an action here.                                                      *)
(***************************************************************************)
EXTENDS PrizeRound, Functions

CONSTANTS
    NumberOfWinners,  \* number_of_winners
    PrizePoints,      \* prize_points of a points prize, 0 when it is money
    Score,            \* the score each play would be given, by play
    MaxReplacing      \* bound: replacement requests in flight

ASSUME WinnersAssumption ==
    /\ NumberOfWinners \in Nat \ {0} /\ PrizePoints \in Nat
    /\ Score \in [1..MaxPlays -> Nat]
    /\ \A i, j \in 1..MaxPlays : Score[i] = Score[j] => i = j
    /\ 1..MaxPlays \subseteq Keys /\ InitialPoints >= MaxPlays * Cost
    /\ MaxPrize # Unset => \A s \in StartPrizes : s + MaxPlays * Increment <= MaxPrize
    /\ "instant" \in WinnerMethods => MaxPlays > 0

VARIABLES
    tampered,    \* plays whose moves no longer replay to the stored score
    ineligible,  \* customers who no longer meet the rules
    lapsed,      \* winners whose claim window has passed
    declaring,   \* the finalise or draw request in flight
    replacing    \* the replacement requests in flight

deskVars == <<tampered, ineligible, lapsed, declaring, replacing>>
allVars == <<vars, deskVars>>

Idle == [stage |-> "idle"]
Winning == DOMAIN winners
Holding(w) == winners[w].status \in {"pending_validation", "validated"}

-----------------------------------------------------------------------------
(* Who wins what.                                                          *)

\* SplitPrize: equal shares, the odd cents to first place.
SplitPrize(total, n) ==
    [p \in 1..n |-> total \div n + (IF p = 1 THEN total % n ELSE 0)]

\* The members of S, those with a lower key first.
Sorted(S, key) ==
    CHOOSE r \in [1..Cardinality(S) -> S] :
      \A j, k \in 1..Cardinality(S) : j < k => r[j] # r[k] /\ key[r[j]] <= key[r[k]]

\* RankedAccepted: each player's best accepted score, best first.
Best(i) ==
    /\ attempts[i].score = "accepted"
    /\ \A j \in By(attempts[i].customer) :
         attempts[j].score = "accepted" => Score[j] <= Score[i]
Ranked(S) == Sorted(S, [i \in S |-> -Score[i]])
RankedAccepted == Ranked({i \in Plays : Best(i)})

Row(i, position, st, value) ==
    [customer |-> attempts[i].customer, attempt |-> i, position |-> position,
     status |-> st, value |-> value, claim |-> "none",
     settlement |-> IF st = "disqualified" THEN "not_applicable" ELSE "pending"]


\* planWinners and pricePlans: positions go down the ranking; a player who is
\* not eligible is recorded as disqualified at the position the next one gets.
PlanWinners(ranked, n, from, values) ==
    LET Eligible(k) == attempts[ranked[k]].customer \notin ineligible
        Ahead(k) == Cardinality({j \in 1..(k - 1) : Eligible(j)})
        Taken == Cardinality({k \in DOMAIN ranked : Ahead(k) < n})
    IN  [k \in 1..Taken |->
           IF Eligible(k)
             THEN Row(ranked[k], from + Ahead(k), "pending_validation", values[1 + Ahead(k)])
             ELSE Row(ranked[k], from + Ahead(k), "disqualified", Unset)]

\* RunDraw: entries drawn without replacement, one win per customer, until
\* the prizes or the eligible customers run out.
Entries == {i \in Plays : Live(i)}
DrawnFrom(entries) ==
    LET pool == {i \in entries : attempts[i].customer \notin ineligible}
        n == Smaller(NumberOfWinners, Cardinality({attempts[i].customer : i \in pool}))
    IN  {picks \in [1..n -> pool] :
           \A j, k \in 1..n : attempts[picks[j]].customer = attempts[picks[k]].customer => j = k}

-----------------------------------------------------------------------------
(* Declaring the result.                                                   *)

Reading == UNCHANGED <<vars, tampered, ineligible, lapsed, replacing>>

\* FinaliseCompetition loads the round, refuses while a score is held, ranks
\* and replays the leading scores. It starts over after rejecting some.
FinaliseRead ==
    LET total == IF declaring = Idle THEN Coalesce(final, current) ELSE declaring.total
        ranked == RankedAccepted
        bad == {i \in tampered : \E k \in DOMAIN ranked : ranked[k] = i}
    IN  /\ \/ /\ declaring = Idle /\ status = "frozen" /\ method = "score"
              /\ \A i \in Plays : attempts[i].score # "manual_review"
           \/ declaring.stage = "again"
        /\ declaring' =
             IF bad # {} THEN [stage |-> "reject", total |-> total, bad |-> bad]
             ELSE [stage |-> "apply", rows |->
                     PlanWinners(ranked, NumberOfWinners, 1, SplitPrize(total, NumberOfWinners))]
        /\ Reading

\* RejectSubmissions: the scores read as bad, whatever became of their plays.
FinaliseReject ==
    /\ declaring.stage = "reject"
    /\ attempts' = [i \in Plays |->
         IF i \in declaring.bad
           THEN [attempts[i] EXCEPT !.score = "rejected", !.status = "rejected"]
           ELSE attempts[i]]
    /\ declaring' = [stage |-> "again", total |-> declaring.total]
    /\ UNCHANGED <<checked, tampered, ineligible, lapsed, replacing>> /\ ScoresOnly

\* ApplyFinalisation: the winners and the status, if the round is still frozen.
FinaliseApply ==
    /\ declaring.stage = "apply" /\ status = "frozen"
    /\ status' = "finalised" /\ final' = Coalesce(final, current)
    /\ winners' = winners \o declaring.rows
    /\ declaring' = Idle
    /\ UNCHANGED <<clockVars, start, edits, attempts, prizeVars, pointVars, checked,
                   tampered, ineligible, lapsed, replacing>>

\* FinaliseInstant: the winner, if any, was recorded at the win.
FinaliseInstant ==
    /\ method = "instant" /\ status \in {"closed", "frozen"}
    /\ status' = "finalised" /\ final' = Coalesce(final, current)
    /\ attempts' = ExpireSessions(attempts)
    /\ Unchanging /\ UNCHANGED deskVars

\* RunDraw reads the prize and the entries, and draws.
DrawRead ==
    /\ declaring = Idle /\ method = "draw" /\ status \in {"closed", "frozen"}
    /\ \E picks \in DrawnFrom(Entries) :
         LET values == SplitPrize(Coalesce(final, current), Len(picks)) IN
         declaring' = [stage |-> "draw", entries |-> Entries, rows |->
           [k \in DOMAIN picks |-> Row(picks[k], k, "pending_validation", values[k])]]
    /\ Reading

\* ApplyDraw re-reads the entries under the round lock and refuses when they
\* are not the ones drawn from.
MutSameEntries == TRUE
SameEntries == declaring.entries = Entries
DrawApply ==
    /\ declaring.stage = "draw" /\ status \in {"closed", "frozen"}
    /\ SameEntries
    /\ status' = "finalised" /\ final' = Coalesce(final, current)
    /\ winners' = winners \o declaring.rows
    /\ attempts' = ExpireSessions(attempts)
    /\ declaring' = Idle
    /\ UNCHANGED <<clockVars, start, edits, prizeVars, pointVars, checked,
                   tampered, ineligible, lapsed, replacing>>

\* The request is refused, fails or dies with its process: nothing more of it
\* is written, and what it committed before stays.
AbandonDeclaring ==
    /\ declaring # Idle /\ declaring' = Idle
    /\ Reading

-----------------------------------------------------------------------------
(* Winners.                                                                *)

WinnersOnly == UNCHANGED <<method, unit, status, clock, day, began, start, final, edits,
                           attempts, checked>>

\* ValidateWinner: a points prize is credited with it and has nothing left to
\* claim or settle.
ValidateWinner(w) ==
    /\ status = "finalised" /\ winners[w].status = "pending_validation"
    /\ winners[w].customer \notin ineligible
    /\ IF PrizePoints > 0
         THEN /\ wallet' = [wallet EXCEPT ![winners[w].customer] = @ + PrizePoints]
              /\ winners' = [winners EXCEPT ![w].status = "validated",
                   ![w].settlement = "not_applicable", ![w].claim = "fulfilled"]
         ELSE /\ winners' = [winners EXCEPT ![w].status = "validated", ![w].claim = "pending"]
              /\ UNCHANGED wallet
    /\ UNCHANGED <<prizeVars, points, deskVars>> /\ WinnersOnly

\* SettleWinners: every validated winner still pending, in order of position,
\* each with a ledger entry for what it pays. All of them or none.
MutDue == {w \in Winning : Holding(w) /\ winners[w].settlement = "pending"}
Due == {w \in Winning : winners[w].status = "validated" /\ winners[w].settlement = "pending"}
Value(w) == Coalesce(winners[w].value, 0)
ValueOf(S) == SumFunctionOnSet([w \in Winning |-> Value(w)], S)
PaidOut(paid) ==
    [n \in DOMAIN paid |->
      [type |-> "winner_settlement", delta |-> -Value(paid[n]), ref |-> paid[n],
       after |-> current - ValueOf({paid[m] : m \in 1..n})]]
MutAffordable == TRUE
Affordable == ValueOf(Due) <= current
SettleWinners ==
    LET paid == Sorted({w \in Due : Value(w) > 0}, [w \in Winning |-> winners[w].position])
    IN  /\ status = "finalised" /\ Due # {}
        /\ Affordable
        /\ current' = current - ValueOf(Due)
        /\ ledger' = ledger \o PaidOut(paid)
        /\ winners' = [w \in Winning |->
             IF w \in Due
               THEN [winners[w] EXCEPT !.settlement =
                       IF Value(w) > 0 THEN "settled" ELSE "not_applicable"]
               ELSE winners[w]]
        /\ UNCHANGED <<plays, players, pointVars, deskVars>> /\ WinnersOnly

\* DisqualifyWinner and MarkUnclaimed refuse a winner already paid, on the
\* row as they read it, and choose who the position passes to.
MayReplace(w, newStatus) ==
    /\ winners[w].settlement # "settled"
    /\ IF newStatus = "disqualified" THEN Holding(w)
       ELSE winners[w].status = "validated" /\ winners[w].claim = "pending" /\ w \in lapsed
ReplaceRead(w, newStatus) ==
    /\ status = "finalised" /\ MayReplace(w, newStatus)
    /\ Cardinality(replacing) < MaxReplacing
    /\ LET had == {winners[v].customer : v \in Winning}
           next == Ranked({i \in Plays : Best(i) /\ attempts[i].customer \notin had})
           rows == PlanWinners(next, 1, winners[w].position, <<winners[w].value>>)
       IN replacing' = replacing \cup
            {[winner |-> w, status |-> newStatus, rows |-> rows]}
    /\ UNCHANGED <<vars, tampered, ineligible, lapsed, declaring>>

\* ReplaceWinner: guards the status only, retires the row and its open claim,
\* and inserts the replacements. The unique index on a round's customers
\* refuses them, and with them the request, when one has a row by now.
MutRetired(row, newStatus) ==
    [row EXCEPT !.status = newStatus,
                !.settlement = IF @ = "pending" THEN "not_applicable" ELSE @]
Retired(row, newStatus) ==
    [row EXCEPT !.status = newStatus,
                !.settlement = IF @ = "pending" THEN "not_applicable" ELSE @,
                !.claim = IF @ \in {"pending", "claimed", "verified"}
                            THEN (IF newStatus = "disqualified" THEN "rejected" ELSE "expired")
                            ELSE @]
MutStillReplaceable(r) ==
    IF r.status = "disqualified" THEN Holding(r.winner)
    ELSE winners[r.winner].status = "validated"
StillReplaceable(r) ==
    /\ IF r.status = "disqualified" THEN Holding(r.winner)
       ELSE winners[r.winner].status = "validated"
    /\ \A k \in DOMAIN r.rows, v \in Winning : winners[v].customer # r.rows[k].customer
ReplaceApply(r) ==
    /\ StillReplaceable(r)
    /\ winners' = [winners EXCEPT ![r.winner] = Retired(@, r.status)] \o r.rows
    /\ replacing' = replacing \ {r}
    /\ UNCHANGED <<prizeVars, pointVars, tampered, ineligible, lapsed, declaring>> /\ WinnersOnly

AbandonReplace(r) ==
    /\ replacing' = replacing \ {r}
    /\ UNCHANGED <<vars, tampered, ineligible, lapsed, declaring>>

-----------------------------------------------------------------------------
(* Claims, and the world around.                                           *)

SetClaim(w, from, to) ==
    /\ winners[w].claim = from
    /\ winners' = [winners EXCEPT ![w].claim = to]
    /\ UNCHANGED <<prizeVars, pointVars, deskVars>> /\ WinnersOnly

\* ClaimPrize: by the winner, before the deadline.
ClaimPrize(w) == w \notin lapsed /\ SetClaim(w, "pending", "claimed")

\* AdvanceClaim: by an admin.
AdvanceClaim(w) == SetClaim(w, "claimed", "verified") \/ SetClaim(w, "verified", "fulfilled")

\* The claim window of a validated winner passes.
Lapse(w) ==
    /\ winners[w].claim # "none" /\ w \notin lapsed
    /\ lapsed' = lapsed \cup {w}
    /\ UNCHANGED <<vars, tampered, ineligible, declaring, replacing>>

\* A customer closes the account or no longer meets a rule.
BecomeIneligible(c) ==
    /\ c \notin ineligible
    /\ ineligible' = ineligible \cup {c}
    /\ UNCHANGED <<vars, tampered, lapsed, declaring, replacing>>

WinnersNext ==
    \/ Next /\ UNCHANGED deskVars
    \/ FinaliseRead \/ FinaliseReject \/ FinaliseApply \/ FinaliseInstant
    \/ DrawRead \/ DrawApply \/ AbandonDeclaring
    \/ \E w \in Winning : \/ ValidateWinner(w) \/ ClaimPrize(w) \/ AdvanceClaim(w) \/ Lapse(w)
                          \/ \E s \in {"disqualified", "unclaimed"} : ReplaceRead(w, s)
    \/ SettleWinners
    \/ \E r \in replacing : ReplaceApply(r) \/ AbandonReplace(r)
    \/ \E c \in Customers : BecomeIneligible(c)

-----------------------------------------------------------------------------
(* A round as PrizeRound leaves it: MaxPlays plays, never adjusted, closed   *)
(* (by its winning play, if instant) or, for a score round, frozen.         *)

SoldPlay(i, c, score) ==
    [customer |-> c, key |-> i, day |-> 0, increment |-> Increment,
     status |-> IF score = "manual_review" THEN "submitted" ELSE "accepted",
     charge |-> "kept", session |-> "submitted", score |-> score]

WinnersInit ==
    /\ method \in WinnerMethods /\ unit \in UnitsOf(method) /\ clock = "over" /\ day = 0 /\ began = {}
    /\ status = IF method = "score" THEN "frozen" ELSE "closed"
    /\ \E owner \in [1..MaxPlays -> Customers],
          score \in [1..MaxPlays -> IF method = "score" THEN {"accepted", "manual_review"}
                                                        ELSE {"none"}] :
         attempts = [i \in 1..MaxPlays |-> SoldPlay(i, owner[i], score[i])]
    /\ start \in StartPrizes /\ edits = 0
    /\ current = start + MaxPlays * Increment /\ final = current
    /\ plays = MaxPlays
    /\ players = Cardinality({attempts[i].customer : i \in Plays})
    /\ ledger = <<[type |-> "seed", delta |-> start, after |-> start, ref |-> 0]>> \o
         (IF Increment = 0 THEN <<>> ELSE
         [i \in 1..MaxPlays |-> [type |-> "play_increment", delta |-> Increment,
                                 after |-> start + i * Increment, ref |-> i]])
    /\ wallet = [c \in Customers |-> InitialPoints - Charge * Cardinality(By(c))]
    /\ points = IF Charge = 0 THEN {} ELSE {[type |-> "play_debit", attempt |-> i] : i \in Plays}
    /\ winners = IF method = "instant"
                   THEN <<Row(MaxPlays, 1, "pending_validation", current)>> ELSE <<>>
    /\ checked = IF method = "score" THEN {Submit(i) : i \in Plays} ELSE {}
    /\ tampered \in IF method = "score" THEN SUBSET Plays ELSE {{}}
    /\ ineligible = {} /\ lapsed = {} /\ declaring = Idle /\ replacing = {}

WinnersSpec == WinnersInit /\ [][WinnersNext]_allVars

-----------------------------------------------------------------------------
(* Properties.                                                             *)

\* Every variable holds a value of its column's type, and requests in flight
\* name plays and winners there are.
WinnersTypeOK ==
    /\ TypeOK
    /\ tampered \subseteq Plays /\ ineligible \subseteq Customers /\ lapsed \subseteq Winning
    /\ declaring.stage \in {"idle", "reject", "again", "apply", "draw"}
    /\ \A r \in replacing :
         /\ r.winner \in Winning /\ r.status \in {"disqualified", "unclaimed"}
         /\ \A k \in DOMAIN r.rows : r.rows[k] \in Winner

\* The prize leaves the ledger exactly for the winners marked as paid: each
\* of them, once, for what the row says, and only after validation.
SettlementsMatchLedger ==
    \A w \in Winning :
      LET paid == {n \in DOMAIN ledger : ledger[n].type = "winner_settlement" /\ ledger[n].ref = w}
      IN  IF winners[w].settlement = "settled"
            THEN /\ Cardinality(paid) = 1
                 /\ \A n \in paid : ledger[n].delta = -winners[w].value
                 /\ winners[w].claim # "none"
            ELSE paid = {}

\* However many admins replace winners at once, a position has one holder and
\* a customer one row. Two requests about one winner are told apart by its
\* status; two about two winners may both have chosen the same next player,
\* and there the index on a round's customers is all that refuses the second.
\* The index on positions is then never needed.
OneHolderPerPosition ==
    \A v, w \in Winning :
      /\ Holding(v) /\ Holding(w) /\ winners[v].position = winners[w].position => v = w
      /\ winners[v].customer = winners[w].customer => v = w


\* A replacement planned before another one, or before the round's own winners
\* changed, never hands out a prize more than there are.
PrizesNotExceeded == Cardinality({w \in Winning : Holding(w)}) <= NumberOfWinners

\* A points prize is credited once to each winner validated for it, whatever
\* becomes of the winner; all else a player lacks of the starting balance is
\* the charge of the plays not refunded, also of plays voided and then rejected.
PrizePointsCredited ==
    \A c \in Customers :
      wallet[c] = InitialPoints - Charge * Cardinality({i \in By(c) : ~Refunded(i)})
        + PrizePoints * Cardinality({w \in Winning : /\ winners[w].customer = c
                                                    /\ winners[w].claim = "fulfilled"})

\* Only a validated winner has an open claim: disqualifying one, or marking
\* it unclaimed, while the customer claims leaves nothing to be shipped.
OpenClaimsAreValid ==
    \A w \in Winning :
      winners[w].claim \in {"pending", "claimed", "verified"} => winners[w].status = "validated"

\* A draw is declared only from plays that still count when it is stored: a
\* void that lands between the draw and its record refuses the record.
DrawnFromLivePlays ==
    [][method = "draw" /\ status # "finalised" /\ status' = "finalised" =>
         \A w \in DOMAIN winners' : Live(winners'[w].attempt)]_allVars

\* What was paid stays paid, to whom and for what it was, also when the winner
\* is replaced after all.
PaymentsStand ==
    [][\A w \in Winning : winners[w].settlement = "settled" =>
         /\ winners'[w].settlement = "settled"
         /\ winners'[w].customer = winners[w].customer /\ winners'[w].value = winners[w].value]_allVars

\* prize_integration_test.go: a paid winner cannot be disqualified.
PaidWinnerStays ==
    [][\A w \in Winning : winners[w].settlement = "settled" =>
         winners'[w].status = winners[w].status]_allVars
=============================================================================
