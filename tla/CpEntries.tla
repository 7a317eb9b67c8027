------------------------------- MODULE CpEntries -------------------------------
(***************************************************************************)
(* Competition points of one customer and the entries they buy into one    *)
(* round: lots granted for gifts, entries that hold units of lots, the     *)
(* play that captures them, releases, lapsed holds, restoration after a    *)
(* void, expiry, and refunds of the gifts behind the lots.                 *)
(*                                                                         *)
(* Lots, entries and attempt limits belong to a customer; customers share  *)
(* the round only. The customer's requests, admins and the job of every    *)
(* minute, which runs each of its items in a transaction of its own, come  *)
(* in any order. Every transaction locks the rows it decides on before it  *)
(* reads them, so each is one action. now() is when a transaction began:   *)
(* the present, or up to MaxLag earlier when it waited for a lock.         *)
(***************************************************************************)
EXTENDS Integers, Sequences, FiniteSets, Functions

CONSTANTS
    Grants,        \* the gifts that were rewarded: points and expiry of each
    Cost,          \* points_per_attempt
    Limits,        \* values max_attempts_per_customer may have; 0 is no limit
    HoldTTL,       \* CP_ENTRY_HOLD_MINUTES
    Window,        \* CP_RESTORE_WINDOW_HOURS
    RoundEnd,      \* the round's ends_at
    MaxTime,       \* bound: when the clock stops
    MaxLag,        \* bound: how long a transaction may wait for a lock
    MaxEntries,    \* bound: entries ever reserved
    MaxVoids       \* bound: plays voided one by one

\* A NULL column.
Unset == -1

\* Config: a hold of at least a minute, a window that may be zero. A round
\* entered with competition points has a cost, and a gift grants points.
ASSUME EntriesAssumption ==
    /\ Grants \in Seq([points : Nat \ {0}, expires : Nat \cup {Unset}])
    /\ Cost \in Nat \ {0} /\ Limits \subseteq Nat
    /\ HoldTTL \in Nat \ {0} /\ Window \in Nat /\ RoundEnd \in Nat
    /\ MaxTime \in Nat /\ MaxLag \in Nat /\ MaxEntries \in Nat /\ MaxVoids \in Nat

VARIABLES
    time,      \* the database clock
    limit,     \* max_attempts_per_customer
    status,    \* competitions.status of a round that has started: scheduled
               \* and live are live here, closed and frozen closed
    lots,      \* points.cp_lots, by what identifies their source
    entries,   \* competition.cp_entries with their cp_entry_lots
    plays,     \* competition_attempts, in order
    gifts,     \* what became of each gift
    ops        \* operation keys of points.cp_transactions

vars == <<time, limit, status, lots, entries, plays, gifts, ops>>

Buckets == {"available", "reserved", "consumed", "reversed", "expired"}
Lot == [units : [Buckets -> Nat], original : Nat \ {0},
        expires : Nat \cup {Unset}, grace : Nat \cup {Unset}]

\* A lot is known by its unique source: <<g>> is the lot of gift g, and
\* Append(l, e) the one that restores what entry e had taken from lot l.
GiftLot(g) == <<g>>
RestoredLot(e, l) == Append(l, e)
GiftOf(l) == l[1]

Coalesce(a, b) == IF a # Unset THEN a ELSE b
Larger(a, b) == IF a > b THEN a ELSE b

\* now(), in a transaction that may have waited.
Nows == {n \in (time - MaxLag)..time : n >= 0}

\* grantCPLot.
Granted(points, expires) ==
    [units |-> [b \in Buckets |-> IF b = "available" THEN points ELSE 0],
     original |-> points, expires |-> expires, grace |-> Unset]

Init ==
    /\ time = 0 /\ limit \in Limits /\ status = "live"
    /\ lots = [l \in {GiftLot(g) : g \in DOMAIN Grants} |->
                 Granted(Grants[GiftOf(l)].points, Grants[GiftOf(l)].expires)]
    /\ entries = <<>> /\ plays = <<>>
    /\ gifts = [g \in DOMAIN Grants |-> "awarded"]
    /\ ops = {}

-----------------------------------------------------------------------------
(* The ledger.                                                             *)

Units(l, bucket) == lots[l].units[bucket]

\* moveCP: n units of a lot from one bucket to another; refused when the
\* bucket does not hold them.
Moved(lot, from, to, n) ==
    [lot EXCEPT !.units[from] = @ - n, !.units[to] = @ + n]

\* beginCPTx: an operation key is recorded once.
First(key) == key \notin ops
SettleKey(e) == [kind |-> "settle", entry |-> e, lot |-> <<>>, n |-> 0]
MutExpireKey(l) == [kind |-> "expire", entry |-> 0, lot |-> l, n |-> 0]
ExpireKey(l) == [kind |-> "expire", entry |-> 0, lot |-> l, n |-> Units(l, "expired")]
ReverseKey(l) == [kind |-> "reverse", entry |-> 0, lot |-> l, n |-> Units(l, "reversed")]

\* The units in alloc, out of one bucket of their lots into another.
CanMove(alloc, from) == \A l \in DOMAIN alloc : Units(l, from) >= alloc[l]
MovedAll(alloc, from, to) ==
    [l \in DOMAIN lots |->
       IF l \in DOMAIN alloc THEN Moved(lots[l], from, to, alloc[l]) ELSE lots[l]]

\* lockSpendableLots: not expired, or within a restoration window.
Unexpired(l, now) ==
    lots[l].expires = Unset \/ lots[l].expires > now \/ lots[l].grace > now
Spendable(now) == {l \in DOMAIN lots : Units(l, "available") > 0 /\ Unexpired(l, now)}

\* spendOrder: the soonest expiry first; lots that expire together, in any
\* order (the code takes the oldest).
Sooner(k, l) ==
    lots[k].expires # Unset /\ (lots[l].expires = Unset \/ lots[k].expires < lots[l].expires)

\* allocateCP: lots in that order, each whole but the last.
Whole(alloc, l) == l \in DOMAIN alloc /\ alloc[l] = Units(l, "available")
MutAllocations(now) ==
    {alloc \in UNION {[S -> 1..Cost] : S \in SUBSET Spendable(now)} :
       SumFunctionOnSet(alloc, DOMAIN alloc) = Cost}
Allocations(now) ==
    {alloc \in UNION {[S -> 1..Cost] : S \in SUBSET Spendable(now)} :
       /\ \A l \in DOMAIN alloc : alloc[l] <= Units(l, "available")
       /\ SumFunctionOnSet(alloc, DOMAIN alloc) = Cost
       /\ \A l \in DOMAIN alloc, k \in Spendable(now) : Sooner(k, l) => Whole(alloc, k)
       /\ Cardinality({l \in DOMAIN alloc : ~Whole(alloc, l)}) <= 1}

-----------------------------------------------------------------------------
(* Entries.                                                                *)

Entry == DOMAIN entries
Held(e) == entries[e].state = "reserved"
HeldEntries == {e \in Entry : Held(e)}
ActivePlays == {p \in DOMAIN plays : ~plays[p].voided}

\* RoundForEntry.Open, and StartPlay's window.
Open(now) == status = "live" /\ now < RoundEnd

\* ReserveEntry: the limit counts plays made and entries still held. A request
\* that repeats a key is answered with the entry it made before.
MutUnderLimit == limit > 0 => Cardinality(ActivePlays) < limit
UnderLimit ==
    limit > 0 => Cardinality(ActivePlays) + Cardinality(HeldEntries) < limit
ReserveEntry(now) ==
    /\ Len(entries) < MaxEntries /\ time + HoldTTL <= MaxTime
    /\ Open(now) /\ UnderLimit
    /\ \E alloc \in Allocations(now) :
         /\ lots' = MovedAll(alloc, "available", "reserved")
         /\ entries' = Append(entries,
              [state |-> "reserved", alloc |-> alloc,
               holdUntil |-> now + HoldTTL, play |-> 0])
    /\ UNCHANGED <<time, limit, status, plays, gifts, ops>>

\* Capturing and releasing are the two ways to settle a held entry: the state
\* is read under the entry's lock and both record the same operation key.
Settleable(e) == Held(e) /\ First(SettleKey(e))

\* StartPlay: the play and the capture of its entry, together.
StartPlay(e, now) ==
    LET id == Len(plays) + 1 IN
    /\ Open(now)
    /\ limit > 0 => Cardinality(ActivePlays) < limit
    /\ Settleable(e) /\ CanMove(entries[e].alloc, "reserved")
    /\ lots' = MovedAll(entries[e].alloc, "reserved", "consumed")
    /\ entries' = [entries EXCEPT ![e].state = "captured", ![e].play = id]
    /\ plays' = Append(plays, [entry |-> e, voided |-> FALSE, refunded |-> FALSE])
    /\ ops' = ops \cup {SettleKey(e)}
    /\ UNCHANGED <<time, limit, status, gifts>>

\* releaseEntry: the units go back. Lots that have expired, or will within
\* the restoration window, stay usable for the window.
MutGivenBack(alloc, now) ==
    [l \in DOMAIN lots |->
       IF l \in DOMAIN alloc /\ Unexpired(l, now)
         THEN Moved(lots[l], "reserved", "available", alloc[l]) ELSE lots[l]]
GivenBack(alloc, now) ==
    LET moved == MovedAll(alloc, "reserved", "available")
        Extended(l) == /\ Window > 0 /\ l \in DOMAIN alloc
                       /\ lots[l].expires # Unset /\ lots[l].expires <= now + Window
    IN  [l \in DOMAIN lots |->
           IF Extended(l)
             THEN [moved[l] EXCEPT !.grace = Larger(Coalesce(@, now), now + Window)]
             ELSE moved[l]]
Release(e, now) ==
    /\ Settleable(e) /\ CanMove(entries[e].alloc, "reserved")
    /\ lots' = GivenBack(entries[e].alloc, now)
    /\ entries' = [entries EXCEPT ![e].state = "released"]
    /\ ops' = ops \cup {SettleKey(e)}
    /\ UNCHANGED <<time, limit, status, plays, gifts>>

\* CancelEntry, by the customer; and ReleaseEntry, which StartEntry calls in a
\* second transaction when starts are stopped or StartPlay refused, for a rule
\* above or for the daily limit or the prize cap. A refusal can come at any
\* moment and its release at any later one, after another request of the
\* customer has started, cancelled or paid with the same entry.
ReleaseEntry(e, now) == Release(e, now)

\* releaseStaleEntries, by the job.
MutStale(e, now) == Open(now) /\ entries[e].holdUntil <= now
Stale(e, now) == entries[e].holdUntil <= now
ReleaseStale(e, now) == Stale(e, now) /\ Release(e, now)

-----------------------------------------------------------------------------
(* Voids and cancellation.                                                 *)

\* restoreCapturedEntry: each lot an entry used, as a new lot with the same
\* expiry, unless that restoration was made before.
RestorationsOf(P) ==
    UNION {{RestoredLot(plays[p].entry, l) : l \in DOMAIN entries[plays[p].entry].alloc} : p \in P}
Restore(P) ==
    lots' = [l \in DOMAIN lots \cup RestorationsOf(P) |->
               IF l \in DOMAIN lots THEN lots[l]
               ELSE LET from == SubSeq(l, 1, Len(l) - 1)
                    IN  Granted(entries[l[Len(l)]].alloc[from], lots[from].expires)]

\* VoidPlay with its refund, and Cancel: plays leave the board, those in owed
\* get their points back.
MutLeave(voided, owed) ==
    plays' = [p \in DOMAIN plays |-> [plays[p] EXCEPT !.voided = @ \/ p \in voided]]
Leave(voided, owed) ==
    plays' = [p \in DOMAIN plays |->
                [plays[p] EXCEPT !.voided = @ \/ p \in voided, !.refunded = @ \/ p \in owed]]
VoidPlay(p, refund) ==
    LET owed == IF refund /\ ~plays[p].refunded THEN {p} ELSE {} IN
    /\ status \in {"live", "paused", "closed"}
    /\ ~plays[p].voided
    /\ Cardinality(DOMAIN plays \ ActivePlays) < MaxVoids
    /\ Leave({p}, owed) /\ Restore(owed)
    /\ UNCHANGED <<time, limit, status, entries, gifts, ops>>

\* Cancel: held entries are left to lapse.
Cancel ==
    LET owed == {p \in DOMAIN plays : ~plays[p].refunded} IN
    /\ status # "cancelled" /\ status' = "cancelled"
    /\ Leave(DOMAIN plays, owed) /\ Restore(owed)
    /\ UNCHANGED <<time, limit, entries, gifts, ops>>

-----------------------------------------------------------------------------
(* The job's other steps, and the world around.                            *)

\* expireLots: never what an entry holds.
Overdue(l, now) ==
    /\ Units(l, "available") > 0 /\ lots[l].expires # Unset /\ lots[l].expires <= now
    /\ lots[l].grace <= now
ExpireLot(l, now) ==
    /\ Overdue(l, now) /\ First(ExpireKey(l))
    /\ lots' = [lots EXCEPT ![l] = Moved(@, "available", "expired", Units(l, "available"))]
    /\ ops' = ops \cup {ExpireKey(l)}
    /\ UNCHANGED <<time, limit, status, entries, plays, gifts>>

\* An order is cancelled or refunded after its gift was awarded.
RefundOrder(g) ==
    /\ gifts[g] = "awarded" /\ gifts' = [gifts EXCEPT ![g] = "refunded"]
    /\ UNCHANGED <<time, limit, status, lots, entries, plays, ops>>

\* reverseRefundedGifts: what is available of the gift's lot goes; the gift
\* waits while an entry holds some, and opens a case when some was spent.
MutWaits(l) == FALSE
Waits(l) == Units(l, "reserved") > 0
ReverseGift(g) ==
    LET l == GiftLot(g) IN
    /\ gifts[g] = "refunded"
    /\ Units(l, "available") > 0 \/ ~Waits(l)
    /\ IF Units(l, "available") > 0 /\ First(ReverseKey(l))
         THEN /\ lots' = [lots EXCEPT ![l] =
                            Moved(@, "available", "reversed", Units(l, "available"))]
              /\ ops' = ops \cup {ReverseKey(l)}
         ELSE UNCHANGED <<lots, ops>>
    /\ gifts' = IF Waits(l) THEN gifts
                ELSE [gifts EXCEPT ![g] = IF Units(l, "consumed") > 0 THEN "review"
                                                                      ELSE "reversed"]
    /\ UNCHANGED <<time, limit, status, entries, plays>>

\* The round's status as PrizeRound moves it, as far as entries can tell.
MoveRound ==
    /\ \/ status = "live" /\ status' \in {"paused", "closed"}
       \/ status = "paused" /\ status' \in {"live", "closed"}
    /\ UNCHANGED <<time, limit, lots, entries, plays, gifts, ops>>

Tick ==
    /\ time < MaxTime /\ time' = time + 1
    /\ UNCHANGED <<limit, status, lots, entries, plays, gifts, ops>>

-----------------------------------------------------------------------------

Next ==
    \/ \E now \in Nows :
         \/ ReserveEntry(now)
         \/ \E e \in Entry : StartPlay(e, now) \/ ReleaseEntry(e, now) \/ ReleaseStale(e, now)
         \/ \E l \in DOMAIN lots : ExpireLot(l, now)
    \/ \E p \in DOMAIN plays, refund \in BOOLEAN : VoidPlay(p, refund)
    \/ \E g \in DOMAIN gifts : RefundOrder(g) \/ ReverseGift(g)
    \/ Cancel \/ MoveRound \/ Tick

\* Time passes, and the job comes round every minute on some server: each
\* pass goes through every hold that lapsed and every lot that expired. No
\* customer, and no admin, has to do anything.
Fairness ==
    /\ WF_vars(Tick)
    /\ WF_vars(\E e \in Entry : ReleaseStale(e, time))
    /\ WF_vars(\E l \in DOMAIN lots : ExpireLot(l, time))

Spec == Init /\ [][Next]_vars
FairSpec == Spec /\ Fairness

-----------------------------------------------------------------------------
(* Properties.                                                             *)

\* What an entry holds, held or settled, is in lots there are, and no bucket
\* of a lot is ever negative.
Allocs == UNION {[S -> 1..Cost] : S \in SUBSET DOMAIN lots}
TypeOK ==
    /\ time \in Nat /\ limit \in Limits
    /\ status \in {"live", "paused", "closed", "cancelled"}
    /\ \A l \in DOMAIN lots : l \in Seq(Nat) /\ lots[l] \in Lot
    /\ entries \in Seq([state : {"reserved", "captured", "released"}, alloc : Allocs,
                        holdUntil : Nat, play : Nat])
    /\ plays \in Seq([entry : Nat \ {0}, voided : BOOLEAN, refunded : BOOLEAN])
    /\ gifts \in [DOMAIN Grants -> {"awarded", "refunded", "reversed", "review"}]

Share(l) == [e \in Entry |-> IF l \in DOMAIN entries[e].alloc THEN entries[e].alloc[l] ELSE 0]
TakenFrom(l, E) == SumFunctionOnSet(Share(l), E)
CapturedEntries == {e \in Entry : entries[e].state = "captured"}

\* A lot's buckets say what entries do: its reserved units are those held
\* entries hold, its consumed ones those captured entries took. So a release
\* always finds the units it gives back, also after the lot expired or its
\* gift was refunded meanwhile.
HoldsBacked ==
    \A l \in DOMAIN lots :
      /\ Units(l, "reserved") = TakenFrom(l, HeldEntries)
      /\ Units(l, "consumed") = TakenFrom(l, CapturedEntries)

LotsOf(g) == {l \in DOMAIN lots : GiftOf(l) = g}
Unplayed(l) == Units(l, "available") + Units(l, "reserved") + Units(l, "reversed") + Units(l, "expired")
PaidEntries == {plays[p].entry : p \in {q \in DOMAIN plays : ~plays[q].refunded}}
Accounted == [l \in DOMAIN lots |-> Unplayed(l) + TakenFrom(l, PaidEntries)]

\* "Restoration cannot create new entitlement": of the points a gift granted,
\* each is in one of its lots or spent on a play not refunded, however often
\* they are spent, restored, released, expired or taken back.
NoNewEntitlement ==
    \A g \in DOMAIN Grants : Grants[g].points = SumFunctionOnSet(Accounted, LotsOf(g))

\* Plays and entries still held never exceed the customer's limit together,
\* so an entry held is never one too many when it starts.
AttemptCap ==
    limit > 0 => Cardinality(ActivePlays) + Cardinality(HeldEntries) <= limit

\* A start, a cancellation, a refused start's release and the job race for an
\* entry: it is captured by one play or released, never both, under its key.
SettledOnce ==
    /\ \A p \in DOMAIN plays :
         /\ plays[p].entry \in Entry
         /\ entries[plays[p].entry].state = "captured"
         /\ entries[plays[p].entry].play = p
    /\ \A e \in Entry : /\ Held(e) <=> First(SettleKey(e))
                        /\ entries[e].state = "captured" => entries[e].play \in DOMAIN plays

\* A gift that is reversed without a case left nothing behind: not in its
\* lot, not in an entry, and nothing of it was ever played.
ReversedLeavesNothing ==
    \A g \in DOMAIN Grants : gifts[g] = "reversed" =>
      \A l \in LotsOf(g) : \A b \in {"available", "reserved", "consumed"} : Units(l, b) = 0

\* Every held entry is captured or released in the end, also when the
\* customer leaves, the round is cancelled or the release of a refused start
\* never comes.
HeldSettles ==
    \A e \in 1..MaxEntries : (e \in Entry /\ Held(e)) ~> (e \in Entry /\ ~Held(e))

\* Units past their expiry and any window do not stay: they expire, or a
\* release opens the window again. That includes units of a lot that expired
\* once already, released to it later.
ExpiredUnitsLeave ==
    \A g \in DOMAIN Grants : Overdue(GiftLot(g), time) ~> ~Overdue(GiftLot(g), time)

\* docs/competition-points.md: after the award, a refunded gift's unused
\* points are reversed.
RefundTakesUnused ==
    [][\A g \in DOMAIN Grants : gifts[g] = "refunded" /\ gifts'[g] # "refunded" =>
         \A l \in DOMAIN lots' : GiftOf(l) = g => lots'[l].units["available"] = 0]_vars

=============================================================================
