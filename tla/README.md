# Verification of the SendAGift backend

TLA+ models of the parts of this backend where money, points and prizes are
decided by several requests at once, the TLC runs that check them on small
instances, and TLAPS proofs of the properties that matter most for instances of
any size.

The backend is a Go service (`net/http`, `pgx`, PostgreSQL at READ COMMITTED).
A handler parses a request, a service checks it, and a repository function
changes rows in one transaction. Correctness therefore hangs on four things:
which rows a transaction locks before it decides, what a service has read before
the transaction begins, what a transaction that waited for a lock sees (`now()`
is the time it *began*, and the first snapshot may be older than the lock), and
what is left when a call to Stripe, or the process, fails between two transactions.

## 1. Inventory

Paths are under `src/internal`.

### Progressive prize round — `repository/prize_repository.go`, `repository/prize_math.go`, `repository/competition_repository.go`, `services/prize_service.go`, `services/competition_service.go`
* State: `competitions` (status, window, rules, `current_prize_cents`, `final_prize_cents`, two
  counters), `competition_attempts` with their `game_sessions` and `competition_submissions`,
  `prize_ledger`, `points_accounts` and `points_ledger`, `prize_events`.
* Operations: create, edit, schedule, the status clock (`SyncStatuses`), start a play (with its
  debit, session, increment and, for a chance game, its result), submit a score, review, pause,
  resume, close, freeze, adjust, void, cancel.
* Interaction: players, admins and the clock, all through the row lock of the round; a score is
  checked outside any lock and saved later under its session's lock.
* Hard: the cached prize against the append-only ledger; limits counted by a transaction that
  waited; a score or a review racing a void, a freeze or a cancellation; refunds exactly once.
* Right when: the ledger is an unbroken chain and the prize its last balance; points are conserved;
  limits hold; a play and its score agree; a stopped round never runs again.

### Prize reconciliation — `repository/prize_repository.go` (`Reconcile`)
* State: none; recomputes ten pairs of numbers from the rows of a round in one statement. Run every 15 minutes.
* Right when: it reports nothing on a round in which nothing went wrong. That is so of rounds played
  with legacy points only: its points checks look for rows of the legacy points ledger, so a round
  played with competition points is reported from its first play on.

### Winners, settlement and claims — `services/competition_service.go`, `services/prize_service.go`, `repository/competition_repository.go`, `repository/prize_repository.go`
* State: `competition_winners`, `prize_claims`, `prize_ledger`.
* Operations: finalise (rank, replay, reject, record), draw, validate, disqualify, mark unclaimed,
  settle, claim, advance a claim.
* Hard: services read winners, the board and the prize *before* the transaction; several admins act at once.
* Right when: positions have one holder, every payment has one ledger row, no open claim belongs to
  a retired winner, and nothing drawn is voided.

### Competition points: ledger and entries — `repository/cp_ledger.go`, `repository/cp_entries.go`, `services/competition_points_service.go`
* State: lots of points with five buckets and an expiry, entries that hold, capture or release
  amounts of lots, operations with unique keys.
* Operations: grant, reserve, capture with the play, release, lapse of stale holds, restore after a
  void, expiry of lots, reversal of refunded gifts.
* Hard: a hold that lapses while its play starts; expiry while points are held; restoring what was
  spent; the worker of the minute against requests.
* Right when: a lot's buckets always add up to what it was granted, each entry is settled once, no
  more than the allowed attempts are held or used, and holds end.

### Memberships and their bonus — `repository/cp_membership.go`, `repository/cp_rewards.go`, `services/competition_points_service.go`, `services/stripe_subscriptions.go`
* State: `membership.subscriptions`, `paid_periods` and `bonus_slots`; `points.gift_qualifications`
  and review cases; at Stripe the checkout page, the subscription, its invoices and the stored
  answers to idempotency keys.
* Operations: join, open the page, webhooks of page, subscription, invoice, refund and dispute, the
  job's own check with Stripe, cancel, resume, end a renewal that is no longer approved, qualify,
  award and reverse gifts, claim the bonus slot of a period.
* Interaction: the customer's requests, Stripe's events in any order or never, the job of every
  minute and an admin's run of it.
* Hard: a replaced page that is paid after all; events that are lost or overtake each other; a claim
  that reads the period and locks only the slot; a refund between the two.
* Right when: no moment is covered by two bonuses, a bonus whose payment came back is answered for,
  a gift and its slot agree, a payment is recorded without its webhooks and a waiting bonus reaches
  its gift.

### Gift orders, their points and their money — `repository/order_repository.go`, `repository/shipment_repository.go`, `services/order_service.go`, `services/shipping_service.go`; `repository/points_repository.go`, `repository/points_rewards.go`; `repository/stripe_repository.go`, `services/stripe_service.go`
* State: the order's header and lines; per line a reward promised, paid, released or taken back;
  points attached to the gift; accounts of customers and sellers and the keys of the ledger;
  `finance.payments`, `refunds` and `payouts`; at Stripe the payments, their refunds and the
  transfers.
* Operations: place, pay (page or in the app), settle, expire, reconcile, refund, cancel, expire
  unpaid orders, accept, start and complete a local delivery, the seven selections of the earning
  job, payouts by the loop and by a seller's withdrawal.
* Interaction: an order joins three sets of tables; placing, cancelling and settling it change all
  of them, and everything else reads the order's status.
* Hard: two shops delivering at once; start requests on lines read earlier; a delivery that finishes
  after a cancellation or a refund; webhooks lost, repeated, out of order; keys at Stripe that
  depend on what could be read.
* Right when: points are conserved and promises backed, nothing ships unpaid, the money of a
  cancelled order goes back, what is called refunded was, no line is transferred twice (which the
  code does not ensure, see section 3), and nothing stays in between.

### First free gift — `repository/free_gift_repository.go`, `repository/free_gift_admin.go`, `services/free_gift_service.go`
* State: a seller's program (budget, held, spent, currency, status), the products in it with their
  counts, stock, the one-time rights of senders and recipients, the free gift orders.
* Operations: first and later writes of the program by admins and sellers, stop and allow again,
  add, edit and remove a product, the inventory form, send, pay the delivery, cancel, expire,
  deliver, refund.
* Hard: two first writes of one program; two senders to one phone; rows replaced while gifts are on their way.
* Right when: the budget is what the gifts on their way and delivered cost and within its cap and
  currency, a right is used by one of these at a time, counters are the gifts, and an unpaid gift
  gives back what it took.

### Left out
Live prize stream, game engines, sign-in, messaging, catalogue, HTTP and the
background locks are listed in `PROJECT.json` with the reason; section 6 says more.

## 2. Modules

| Module | Models | Composes |
|---|---|---|
| `PrizeRound` | a round from draft to frozen or cancelled: prize, ledger, plays, points, sessions, scores | refines `PrizePot` |
| `PrizePot` | what a round promises of its prize, abstractly | |
| `PrizeReconcile` | the ten checks of `Reconcile` | extends `PrizeRound` |
| `PrizeWinners` | from the closed round to paid winners and claims | extends `PrizeRound`: every action of the round stays possible between the steps of a request |
| `CpEntries` | competition points of one customer: lots, entries, the job of every minute, voids, refunds of gifts | the round is reduced to its status |
| `Memberships` | memberships of one customer, Stripe's side of them, paid periods, bonus slots, the gifts that unlock them | |
| `Orders` | the header and lines of a gift order, and the requests of its shops | |
| `OrderPoints` | rewards, attached points, accounts, the earning job | extends `Orders` |
| `OrderPayments` | payments, refunds, webhooks, reconciliation, transfers | extends `Orders` |
| `GiftOrders` | the gift order as a whole | joins the actions of the three where the code joins them |
| `FreeGifts` | a free gift program, its products, rights and orders | stands by itself; the order's life is reduced to what `Orders` and `OrderPayments` do to it |
| `MCPrizeRound`, `MCPrizeWinners`, `MCCpEntries`, `MCGiftOrders`, `MCFreeGifts`, `MCMemberships` | model values, symmetry and bounds | |
| `PrizeRoundProofs` | theorems of `PrizeRound` about its prize, its plays and its life | |
| `PrizePointsProofs` | theorems about its points, limits and counters, about `PrizeReconcile`, and that the round implements `PrizePot` | extends `PrizeRoundProofs` |
| `PrizeWinnersProofs` | theorems of `PrizeWinners` | extends `PrizeRoundProofs` |
| `CpEntriesProofs`, `FreeGiftsProofs`, `MembershipsProofs`, `GiftOrdersProofs` | theorems of the module each is named after | |
| `SumTheorems` | sums over finite sets, and induction over finite sets in a first-order form | used by the proofs about sums |

### How state and actions correspond to the code

Every variable names a column, a table or a fact at Stripe (see the comment beside
it). A repository function that locks what it decides on is one action: no
other such transaction can interleave, and what it reads is what it writes
against. Where the code reads before it locks, the model has two actions and the
rest of the system may act in between.

**Prize rounds.** Three things are deliberately *not* atomic or not "the present":

* **`now()`**. `Wait` records that some transaction began at this moment and has
  to wait. An action that compares with `now()`, or dates a play by it, chooses
  `now` from the present or any recorded beginning (`Nows`). A comparison the
  code makes with Go's clock, or that is evaluated after the wait, uses `clock`.
* **Scores**. `SubmitOfficial` reads and checks the session, the play and the
  round without a lock and only records that a request got that far
  (`checked`); `SaveOfficialScore` is the later transaction, guarded only by
  what *it* checks. A request can be retried, so `checked` never shrinks.
* **Reviews**. `ReviewSubmission`'s first statement locks the submission only and reads the round's
  status through a join; it then writes the play by its id. `ReadForReview` records in `checked`
  that a review got past that read, and `ReviewSubmission` is the write, guarded by the score it
  finds under its lock and not by the round.
* **Winners** (`PrizeWinners`). Finalising, drawing and replacing are split where
  the code reads rows in the service and writes in the repository:
  `declaring` and `replacing` hold what the request read. A request may also
  stop for good (`AbandonDeclaring`, `AbandonReplace`: refused, failed or
  its server died).

A play is one record, the join of its attempt, its session and its submission (each has at most one
of the others). Verdicts of the games engine are a choice. The draw is a choice of any sequence of
distinct customers' entries. Points rows are identified by their unique `(type, attempt)` key. A
round is played with legacy points or with competition points (`unit`, fixed when it is made). A
play of the second kind moves no legacy points (`Charge`) and leaves no points row here; what it
takes from the lots is the subject of `CpEntries`.

**Competition points.** A lot is identified by its unique source: `<<g>>` is the lot of gift `g`,
and appending an entry gives the lot that restores what that entry had taken, so a
restoration of a restoration is a longer sequence and `GiftOf` tells where any lot comes
from. An operation key (`cp_transactions.operation_key`) is a record in `ops`; a key that
is there already makes the operation do nothing, as `beginCPTx` does. `ReleaseEntry` stands both
for a customer's cancellation and for the release a refused start makes in a *second*
transaction: it can come at any time, also after another request has started the same entry.
`Nows` is the present or a moment up to `MaxLag` ago, for a transaction that waited.

**Gift orders.** A shop ships in two requests. `StartLocalDelivery` reads the shop's lines outside
any transaction (`checked`) and `DispatchSellerManagedItems` then dispatches them whatever became of
them. A shop in `Repeats` may click again: its second request read the same lines (they leave as one
parcel, so all must be accepted), which then dispatches them once more. Accepting a line is two
statements that commit one by one, `AcceptItemForSeller` and `RefreshOrderStatus`.
`CompleteLocalDelivery` reads a line and `MarkShopLocalDelivered` opens a transaction whose lines
are locked and whose effect other transactions do not see until `CommitDelivered`: `handover` is
that open transaction, so two shops can each miss the other's lines, as at READ COMMITTED. Whoever
needs a row it holds waits (`LineFree`, `OrderFree`).

A pass of the earning job goes through seven selections; each is read outside any
transaction (`Select`) and every row found gets a transaction of its own (`Process`), which
checks again what the code checks again and no more. An error ends the pass (`Abort`).
The total reward of a set of lines is the additive function `Worth`, so no sum is computed.

A payment has a row per way to pay (`cs` Stripe's page, `pi` in the app) and, apart from it, the
payment as Stripe has it. Events are sent once; `HandlePlatformWebhook` records an event before
handling it, so `EventLost` (the process dies in between) loses it for good. What a request or
handler still does after its commit is an entry of `work` and may be lost too (`WorkLost`). A fault
is a failed call or a dead process; `MaxFaults` bounds them. `ApplyRefund` is split from
`ReadRefunds`, because its first statement's snapshot may be older than its lock. The reconciliation
lists payments of the last three days only: one made in the app can still be paid later, and then is
`old`, out of its sight (`Ages`, `Pending`). A transfer is the idempotency key it was made under.

**Free gifts.** `Send`'s transaction locks the rights, the product, the program and the stock until
it commits: one action. The two places that read first are split: the first write of a program
(`FirstWrite`, `InsertProgram`) and an admin allowing a stopped one again (`AdminReadsStopped`,
`AdminReallow`). Acceptance and dispatch are split as in `Orders`, and a start request may be
repeated for a gift in `Repeats`. `SentAfterAll` are the gifts dispatched although they were
cancelled after the request had read their line, `SentAgain` those dispatched a second time after
they arrived. `removed` and `rewritten` are history variables: the products of which the code itself
forgets or replaces a counter.

**Memberships.** A period and its slot are named by the invoice that paid for it.
`RecordPaidPeriod` and `StartSubscription` take the customer's advisory lock, so each is
one action. `claimBonus` reads the period and then locks the slot: `ReadSlot`, `ClaimBonus`.
Each webhook is on its way or was never sent (`Sends`); `replies` are Stripe's stored answers to the two
idempotency keys of a cancellation, which Stripe forgets after a day (`ForgetReply`).
`late` is a history variable: the slots a claim locked after their period's payment came back.

A `Mut…` operator is a faulty variant of the definition that follows it and is
used only to confirm that a property can fail.

## 3. Runs

| Run | Module | Question |
|---|---|---|
| `PrizeSkill` | `MCPrizeRound` | A scored round with a capped growing prize. Do the ledger, the cached prize, the counters, the points and the scores stay in step in every order of plays, late and repeated submissions, reviews, voids, an adjustment, the freeze and cancellation, and what does `Reconcile` report, in a round of either kind of points? |
| `PrizeChance` | `MCPrizeRound` | Instant-win and draw rounds, an edited start prize, two days, one transaction that waited. Do the limits hold, and is each step one the abstract pot allows? |
| `PrizeWinners` | `MCPrizeWinners` | All three ways to decide a round with two prizes and three players, two replacements in flight. Do winners, payments and claims agree, and does a prize go without a holder only when nobody is left? |
| `CpEntries` | `MCCpEntries` | One customer reserves, starts, cancels and lets holds lapse while lots expire, plays are voided, the round is cancelled and gifts are refunded. Is every unit accounted for, does the limit hold, and do holds and expired units leave in the end? |
| `MemberPeriods` | `MCMemberships` | Two joins, one replacing the other, with renewals, failed charges, cancellations, refunds and late or lost webhooks. Does any moment get two bonuses? |
| `MemberBonus` | `MCMemberships` | One membership and two gifts completing around its payment, its refund and each other. Do gifts and slots agree, is a refund answered, is a payment recorded without its webhooks, and does a waiting bonus reach its gift? |
| `OrderPoints` | `MCGiftOrders` | A gift order with a reward and attached points, paid by card or not, shipped, cancelled and refunded under a recurring earning job that may fail. Are points conserved and promises backed, does nothing ship unpaid, and does nothing stay in between? |
| `OrderMoney` | `MCGiftOrders` | The same order paid on the page, in the app, or both, refunded by hand in part. Does the money of a cancelled order go back, and is what is called refunded refunded? |
| `FreeGifts` | `MCFreeGifts` | Three gifts of two senders, two of them to one phone, under admins, the seller and concurrent first writes. Are budget, rights and counters the gifts', and does an unpaid gift give back what it took? |
| `PaidWinner` | `MCPrizeWinners` | Finding: a paid winner can be disqualified. |
| `Reverify` | `MCPrizeWinners` | Finding: finalising revives a voided play in the counters' eyes. |
| `RefundAfterVoid` | `MCCpEntries` | Finding: points restored after a void survive the refund of their gift. |

**Bounds.** Every bound is a constant used as a guard, named in the module, and the
proofs hold for every value of it.

* `PrizeSkill`: two customers, two request keys, two plays, start 2,
  increment 3, cap 7, so the second play is cut to the room left (2), and an
  adjustment by +1 or −3 in between makes it 1, 2 or 3, or a void's reversal
  impossible. `MaxAttempts` is 1, so a second play of one player needs the first to
  be voided. Rounds are played with either kind of points.
* `PrizeChance`: start 2 or 4 with one edit, so the second publishing posts a
  correction up, down or not at all; `continue_at_cap` is off, so the cap stops
  selling; a daily limit of 1 over two days and one waiting transaction make a play
  dated yesterday possible. Both have two voids, with and without refund and reversal.
* `PrizeWinners`: three plays by up to three customers, two winners, two replacement requests at
  once, so that two winners are disqualified and the same player is next for both. A `CONSTRAINT`
  (`Bounds`) keeps the run small: at most one thing that goes wrong with a play or a player
  (ineligible, tampered with, void, under review, or an adjustment), one claim window that passes,
  one winner who gets as far as claiming; 902,665 states. The theorems have no such bound.
  `PaidWinner` needs three customers and two winners too, so that there is someone to hand the paid
  prize to; `Reverify` two plays and two voids. The rounds begin where `PrizeRound` can leave them
  (`WinnersInit`). Ties and more than two prizes are not reached.
* `CpEntries`: a lot of 3 that expires at time 1 and one of 2 that never does, at 2 points
  an attempt, so the second entry must take from both lots; a hold and a
  window of one tick and a clock that stops at 3, so that a hold can outlive its lot,
  the units come back inside the window and expire a second time; two entries and a
  limit of 1 or 2; two voids, so what was restored can be played and restored again.
  `ReserveEntry` starts no hold that would end after the clock stops: there, lapsing could not be
  observed.
* `OrderPoints`: one line of one shop, whose reward is paid with the order or with the delivery
  (both settings), sender and friend, so that attached points have a recipient who is or is not the
  sender or nobody; balances of 1, so that what is to be taken back may have been spent; one fault
  and one pass that comes round for ever: an order passes every selection in every state, and a
  fault can hit any of them. One pass is enough for staleness, because its selections are read
  before its rows are processed and everybody else acts in between. The scheduled passes exclude
  each other by an advisory lock, but an admin's run of the job takes none
  (`handlers/prize_handler.go:461`), so passes can overlap: that case, and batch limits, are not in
  the run. The theorems cover several lines, shops and overlapping passes, of safety only. Each shop
  sends one start request per set of lines (`Repeats = {}`); `Repeats = {s1}` multiplies the states
  beyond the time of a run, and the safety theorems cover it. The in-app payment may be made after
  three days.
* `OrderMoney`: both ways to pay, an amount of 2 and a refund by hand of 1, so that a
  refund can be partial, full in two steps, or overtaken; two payout workers; one fault.
* `FreeGifts`: two gifts of one sender to different people, and one of another to the
  phone of the first recipient; costs 1, 2, 1 under a cap of 3 or of 1 in another
  currency, so that budgets fill, shrink below what is held and are refused; a gift cap of 1
  or none; one gift with a delivery to pay; one gift whose start is requested again; two first writes at once.
* `MemberPeriods`: two joins with two invoices each of one length, on a clock of two ticks, so
  periods touch, overlap or follow; one change, one refund, at most two webhooks on their way, the
  others lost. The joins are symmetric and only safety is checked. The bonus is triggered by the
  payment and there are no gifts (with gifts, or a gift trigger, the states outgrow the time of a
  run), so a claim that overtakes a refund, the exception `late`, does not come up here: it does in
  `MemberBonus`, with one membership, and in the theorems, for both.
* `MemberBonus`: the bonus trigger that waits for a gift, two gifts, one invoice,
  one refund and one pending webhook; no symmetry, since liveness is checked.

Deadlock is not checked: a round, an order or a membership that is over stops.

### Findings

1. **A paid winner can be disqualified** (`PaidWinner`). `DisqualifyWinner` reads the
   winner, checks it is not settled, and later calls `ReplaceWinner`, which guards
   only `status`. A settlement between the two pays the winner; the
   disqualification then retires the paid row and hands the full value on.
2. **A voided play counts again** (`Reverify`). `RejectSubmissions` sets the play
   of every score it rejects to `rejected`, also one that was voided after the
   board was ranked: the counter no longer equals the plays not voided.
3. **Restored points survive a refund** (`RefundAfterVoid`). A void brings points back as a
   new lot; `reverseRefundedGifts` looks at the gift's base and bonus lot only, so after the
   gift is refunded the restored units stay spendable, while the case it opens says
   they were spent.

Seen while modelling, in the models' behaviours but without a run of their own:

* `Cancel` voids plays and keeps `eligible_play_count`; the documented check "play
  counter = plays that are not voided" fails for a cancelled round with a play.
* A review that read the status of its round before a cancellation writes after it, and turns a
  voided play back into an accepted or rejected one (`competition_repository.go:884-903`), although
  `Cancel`'s comment says every attempt is voided. Its points were refunded all the same and no
  counter or prize moves (`CancelMakesWhole` and `ImplementsPot` say what remains true).
* The scheduled reconciliation does not look at `points_unit` (`prize_repository.go:1319-1323`): it
  reports every round played with competition points, for its points, from the first play on
  (`ReconcileClean`).
* A payment in the app is offered until its order is gone, and `PendingPayments` lists those created
  in the last three days, the 50 oldest first. Made later, with its webhook lost, a payment is never
  noticed; the comment at `stripe_repository.go:545-547` holds for pages, which expire, not for the
  app's payments (`PaymentNoticed` excludes `old`).
* The key of a transfer depends on whether the payment's charge could be read, so a failed read
  between two tries of one line, or a transfer made and not recorded, lets the line be transferred
  under a second key.
* A free gift cancelled between a start request's read and its dispatch leaves and arrives, with its
  budget, stock and rights given back (`shipment_repository.go:433-436`): it costs the budget
  nothing and its sender can send another (`SentAfterAll`).
* A second start request that read a line before the first one's dispatch sends it again, also when
  it has been delivered since (`SentAgain`; in a gift order nothing more is paid, as the line's
  rewards are settled).
* `releaseEntry` extends each lot with `expires_at <= now() + window`: also a lot that has not
  expired (`cp_entries.go:388`; `docs/competition-points.md:122-123` speaks of points whose expiry passed).
* Two refund events of one payment applied at once can make the rows of `finance.refunds` add up to
  more than was refunded (`stripe_repository.go:207-219`); the payment and order are still judged
  by Stripe's cumulative amount (`RefundedInFull`).
* A membership cancelled, resumed and cancelled again within a day gets the stored answer to its
  first request, and goes on renewing (`competition_points_service.go:532`;
  `docs/competition-points.md:141`).
* A page replaced by another join and paid all the same is charged for; while the other
  membership lives, its webhooks fail on `subscriptions_one_live`.
* A refund that overtakes its invoice is forgotten, and the invoice then opens a bonus.
* Two shops that complete their deliveries at once each miss the other's: the order is never
  delivered.
* A claim that read its period before a refund unlocks the bonus after it (`late`). Another
  membership can then open a bonus for the same moment, since it compares with periods still paid
  for; so can one whose neighbour's refund left a case to decide (`OneBonusPerMoment` names both).

## 4. Proofs

Each theorem is of the module's `Spec` (`WinnersSpec` for `PrizeWinners`) from its named assumptions
alone, for any values of the constants: any number of customers, plays, lots, lines, periods and
requests, and any bound. `TypeOK` is rarely inductive by itself, and the interesting part of each
proof is what has to be added.

**`PrizeRound`** (from `RoundAssumption`, which is what `CompetitionService.apply` validates: a
growing prize has a positive increment and a cap no lower than its start, a fixed one neither).

* `PrizeRoundProofs` — `TypeCorrect`, `LedgerChain`, `PrizeCapped`. The prize is a natural number
  because no reversal or adjustment passes `InRange`, and a *correction* at a second publishing is
  in range because the start prize is. `LedgerInv` joins the types, the chain, the cap, and the fact
  that a round with an empty ledger is a draft with an empty prize (so that the seed is the first
  entry, and the only one). Further `ScoresAgree`, `FreezeHolds`, `VoidsAreFinal`,
  `LifecycleMovesForward`, `OneWinningPlay`. `BoardInv` says of *each play* how status, session and
  score go together (`RowHolds`), given the round's status: an active session belongs to a play with
  no score in a round not yet frozen; that is why a score checked before a void or a freeze cannot
  be saved after it. In a cancelled round, where an overtaken review may have written last, it no
  longer says that the score of a voided play was rejected, and `RowsKept` lets such a review, and
  nothing else, bring a voided play back; `CancelIsWhole` then says which.
* `PrizePointsProofs` — `PointsAreConserved`, `CancelIsWhole`, `LimitsAreKept`, `CountersFollow`,
  `RoundImplementsPot`, `ReconcileTellsTruth`. `PointsInv` adds to `BoardInv` that there is a debit
  and refund row exactly for the plays that had one, in a round on legacy points, and none
  otherwise, which makes the unique-key guard of a refund always pass; `LimitsInv` counts the plays
  that stand (`Standing`): the active ones, and in a cancelled round those a review could still
  bring back, so that limits hold through such a review; and it adds that no play is dated after
  today, so that the window `[day of now(), ∞)` a late transaction counts contains the day it
  writes. The refinement maps each action to the step of the abstract pot it takes, or to a stutter.
  `Reconcile` compares the ledger with the plays; `EntriesTell` says how: the sum of the ledger is
  the prize, an increment is what its play raised the prize by, there are as many as plays that
  raised it, and a reversal takes back the share of a void play. With the chain, the cap, the
  counters and the points, the ten checks follow; of a round on competition points the four about
  points rows report, and only they.

**`PrizeWinners`** (`RoundAssumption`, and `WinnersAssumption`: what a round needs so that
`MaxPlays` plays can have been sold and paid for below its cap; no two plays score the same).
`PrizeWinnersProofs` — `WinnersTyped`, `PaidAsRecorded`, `PositionsHeldOnce`, `PrizesAreEnough`,
`ClaimsStayValid`, `DrawsAreOfLivePlays`, `PaidIsPaid`, each from `DeskInv`. Its parts:

* `Desk`: no two holders of a position, no two rows of a customer; a row marked settled has a value, a claim and
  exactly one payment of that value in the ledger, any other has none, and every payment names a row.
* and no position is beyond the number of prizes, so that holders, at most one a position, are at most as many
  (`PrizesAreEnough`).
* `NewRows`, `DeclaringFits`, `RequestFits`: what a request in flight carries was computed from rows
  that may since have changed, so it must be true of the rows as *planned* that positions and
  customers differ and nothing is settled or claimed; a replacement's only holder is for the
  position of the winner it retires. `ReplaceApply` then needs nothing but its own guard: the status
  and the unique customer.
* `Stopped`: plays are no longer sold, and unless the round is instant-win there is no winner before the
  declaration, so that the rows of the declaration are the first.

`PlanFits` proves of `PlanWinners` that the rows are new rows whatever the ranking, with any number
of ineligible players in between; `SortedLists` that a finite set of any size has a list in the
order of its keys, that mentions each member once, so that `PaidOut` pays each winner due exactly
once. `BoardInv` is not part of it: `FinaliseReject` breaks it (finding 2).

Two more invariants rest on `DeskInv`. `PrizeInv` carries the chain of the ledger through the settlements
(`PaymentsKeepChain`): an entry of `PaidOut` says what the payments so far came to, and `PaidSoFar` proves that
this sum is the one before it and its own value. `CreditInv` accounts for the points (`PointsPrizesOnce`): a
balance is what the plays cost and were given back, and a points prize for each winner whose claim was fulfilled
by validation. It needs `ClaimFits`: a points prize never has a claim that is open, so no admin fulfils
one a second time. The runs have a money prize; the points branch of `ValidateWinner` is covered by this
theorem, whose `PrizePoints` is any number.

**`CpEntries`** (`EntriesAssumption`: a positive cost and hold, gifts that grant points).
`CpEntriesProofs` — `Types`, `SettledOnceAlways`, `AttemptCapAlways`. `Inv` joins the types, the
fact that a gift's own lot is never lost, that only known entries have a settle key, and
`SettledOnce`. The types need it: a restoration reads the allocation of the entry a play captured,
and that entry must exist; and a new entry must not have been settled already. `AttemptCap` is
inductive together with `Inv`: a start moves one from the held to the played, which needs that the
entry was held. Further `HoldsAreBacked`, `EntitlementConserved`, `ReversedIsGone`. `Ledger` proves
two sums together: per lot, what is reserved is what the entries still reserved took of it, and what
was consumed is what captured entries took; per gift, the units of its lots that were not consumed
and those that plays not refunded took add up to the grant. `Rooted` keeps the tree of restored lots
apart: a restored lot stems from a play given back, exactly once. `Gone` adds that a restored lot
comes, in the end, from units played of its gift's own lot (`RootPlayed`), so that a reversed gift,
of which nothing was played, has no other lots; that an empty lot stays empty (`Onward`); and that
the key of the next reversal is always new (`ReverseKeys`).

**`GiftOrders`** (`OrdersAssumption`, `PointsAssumption`, `PaymentsAssumption`: among them that
`Worth` is additive, which stands for a sum over lines).

* `GiftOrdersProofs` — `GiftOrderTypes`, `PromisesAreBacked`, `PromisesWithinCredit`,
  `DueMovementsAreNew`. Types, promises and keys need each other: the balance stays a natural number
  because `greatest(…, 0)` never cuts anything off, that holds because what is reserved is the worth
  of the lines still reserved, and a reward is paid only if its keys are free, which `LineKeys` and
  `GiftKeys` derive from the statuses: a line still reserved has no key, and so on. `NoGiftYet` says
  that before the order is placed there is no gift to settle. `PointsAreConserved`: what customers,
  sellers and the gift hold together is what this order did not move (`outside`), after each
  movement; one of several lines is a sum over the shops of the worth of each shop's lines
  (`Shares`), which is the worth of all.
* `GiftOrdersProofs`, on money — `CancelledMoneyGoesBack`, `RefundsAreInFull`, `UnpaidStaysHome`.
  `MoneyInv` says what may be believed: an event on its way, or a sum being applied, never exceeds
  what Stripe has given back (`EventsTrue`, `ReadingTrue`), and a settled row was paid (`RowsTrue`).
  `ShipInv`: as long as nothing is paid on a card order no line has moved and no request holds one.

**`FreeGifts`** (`FreeGiftsAssumption`: costs add up, so a budget is `Cost` of a set).
`FreeGiftsProofs` — `FreeGiftTypes`, `BudgetIsBacked`, `RightsAreOneTime`, `CountersAreBacked`,
`HeldGiftsAreUnsettled`. The code keeps the budget and the rights by the status of each gift's
budget (`StatusBacked`, `StatusRights`), and `BudgetFollowsLine` says where the line can be in each
status: that turns them into what the gifts on their way and delivered cost and use, the exceptions
included (`LinesByStatus`). The parts are inductive only together: the budget is backed because a
gift is released or spent once, that is so because only a held one's order can still be cancelled or
delivered (`HeldIsUnsettled`), and a program nobody wrote yet has committed nothing
(`NothingCommitted`, `Begun`), which is what a second first write relies on.

**`Memberships`** (`MembershipsAssumption`). `MembershipsProofs` — `NoMomentHasTwoBonuses`,
`RefundsAreAnswered`, `SlotsAndGiftsAgree`, `Types`. Two invoices of one membership are `Length`
apart (`Apart`), since Stripe issues the next when a period is over (`StripeInv`). Between
memberships, a slot opened later can overlap only one whose payment came back, because
`RecordPaidPeriods` compares with every period still paid for; and `RefundAnswered` says what became
of the bonus of that one. `NoMomentHasTwoBonuses` leaves out, as `OneBonusPerMoment` does, slots in
`late` and those with a case still open: after either, an overlapping join opens a second bonus. The
three are therefore proved as one invariant, with what a claim under way has read (`ClaimsOpen`) and
that only recorded periods have slots (`SlotsOpened`). The types need that Stripe issues no more
invoices than `MaxInvoices` and that a subscription that was paid for has one (`Issued`).

Proved and not run, as they are what an induction needs: `PrizeWithinCap`, `FrozenBoardHolds`,
`VoidedForGood`, `WonOnce`, `CountersMatch`, `NeverReopens`, `SettledOnce`, `PromiseWithinCredit`,
`NothingDueIsPosted`, `HeldIsUnsettled`. Proved and not run either, as no run
is needed for what a theorem covers: `PrizesNotExceeded`, `PaymentsStand`, `PrizePointsCredited`.

`SumTheorems` makes the sums provable. `SumFunctionOnSet` is a fold, and an induction theorem that
takes an operator cannot be used; but a property of the subsets of one finite set is a *set* of
sets, and the strict subsets of a finite set are a well-founded order, so `SubsetInduction` and
`SetInduction` need no operator. From them come what a sum is after a member is added, moved or
changed, and that sums split along a function.

Only model-checked: liveness, which needs fairness and `ENABLED` (`HeldSettles`,
`ExpiredUnitsLeave`, `PointsResolve`, `PaymentNoticed`, `UnpaidGivesBack`, `PaymentRecorded`,
`BonusReachesGift`). Every other property of a passing run is stated by a theorem. The three properties of
the findings are refuted, so there is nothing to prove of them.

## 5. Fairness and liveness

Nothing a customer, a shop, an admin or a webhook does is ever assumed to happen.

* `CpEntries`: time passes and the minute job comes round:
  `ReleaseStale` and `ExpireLot` are weakly fair, each as one action over all holds or lots,
  because a pass handles everything due, whichever instance holds the advisory lock. Then every
  held entry is settled (`HeldSettles`), also
  in a cancelled or paused round, and units past their expiry and window leave (`ExpiredUnitsLeave`).
  That a pass is never stopped by an error of an earlier step, or a lot never misses its place in a
  batch, is part of the assumption.
* `GiftOrders`: the earning job and the reconciliation of the payout loop are *strongly* fair: they
  recur, and a statement that waits for a row is given it in turn, though others may take the row in
  between. An open transaction ends (`WF`). `reconcileOne` is enabled, and so fair, only for a
  payment not `old`: the assumption is that Stripe answers once within the three days, and that the
  payment is among the 50 looked at. Nothing is promised of a payment made later. Then points do not
  stay in between (`PointsResolve`), although a fault may end any pass half way, and a payment is
  noticed though every webhook is lost (`PaymentNoticed`). `PointsResolve` is about orders that
  reached an end: two shops that each missed the other's delivery leave an order that never does.
* `FreeGifts`: only the expiry loop is fair, for the gifts with a delivery to pay, which the code starts when card
  payments are configured. Then `UnpaidGivesBack`.
* `Memberships`: the minute job's check with Stripe, within the windows in which it looks at a
  membership, and the reward job's claims. Then `PaymentRecorded` and `BonusReachesGift`.

No liveness is claimed of the prize engine: nothing in the code has to happen. No job
closes rounds (`SyncStatuses` runs when someone reads), and freezing, finalising and
settling wait for an admin, so no fairness of any of these actions is justified.

## 6. Not modelled

* Of `PrizeRound`: edits of rules other than the start prize and the window, archiving, playoffs of
  ties, the funded reserve, delivery addresses of claims. A play paid with competition points takes
  nothing there; what it takes from the lots is the `StartPlay` of `CpEntries`, and the two are not
  composed.
* Of `CpEntries`: sources and restrictions of lots, approved compensation, the state
  `uncertain`, which no code sets, and the postings that mirror each move.
* Of `Memberships`: test payments, scheduled offer versions, prices and discounts, versions,
  approvals and stops of the admin. These are one locked row at a time; whether a sale or a
  renewal is allowed is a choice.
* Of gift orders: validation of a checkout and its stock, which are one transaction; courier labels,
  tracking and their idempotency keys, which nothing calls
  (`services/shipping_service.go:3-5`: delivery is priced from zones and handed over by the seller);
  connected accounts and payouts to banks, which Stripe decides; referrals, sign-up points and points
  a seller buys. The order in which a transaction locks accounts is abstracted to
  one step, so that two of them wait for each other is not modelled (PostgreSQL ends
  such a cycle by failing one).
* Of `FreeGifts`: the recipients' accounts, courier delivery, and the checks of identities,
  countries and addresses.
* The live stream concerns a screen: what a client misses between its two reads is
  corrected by the next event. Game engines are pure functions whose result is a choice here.
  Sign-in, messaging and the catalogue are rows created, read and updated one at a time.
  HTTP, configuration and external services are I/O. Background jobs are actions of the modules that
  own their state; the advisory lock that lets one instance run a job is the reason two scheduled passes are not
  concurrent; an admin's run of the earning job can be concurrent with one (section 3, `OrderPoints`).
