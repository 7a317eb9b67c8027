---------------------------- MODULE CpEntriesProofs ----------------------------
(***************************************************************************)
(* Theorems of CpEntries: types, so that no bucket of a lot is ever        *)
(* negative; an entry is settled once, by one play or a release; plays and *)
(* held entries stay under the customer's limit; a lot's buckets are what  *)
(* entries took, a gift's points all accounted for, and a gift reversed    *)
(* leaves none. They hold for any number of lots, entries and restorations *)
(* of restorations.                                                        *)
(***************************************************************************)
EXTENDS CpEntries, SumTheorems, SequenceTheorems

EntryRow(allocs) == [state : {"reserved", "captured", "released"}, alloc : allocs,
                     holdUntil : Nat, play : Nat]
PlayRow == [entry : Nat \ {0}, voided : BOOLEAN, refunded : BOOLEAN]
LotsOK == \A l \in DOMAIN lots : l \in Seq(Nat) /\ lots[l] \in Lot

-----------------------------------------------------------------------------
(* Types.                                                                  *)

\* A move of units a lot holds leaves a lot.
LEMMA MovedType ==
    ASSUME NEW lot \in Lot, NEW from \in Buckets, NEW to \in Buckets, from # to,
           NEW n \in Nat, lot.units[from] >= n
    PROVE  Moved(lot, from, to, n) \in Lot
  <1> DEFINE units == [[lot.units EXCEPT ![from] = @ - n] EXCEPT ![to] = @ + n]
  <1>1. lot.units \in [Buckets -> Nat]
    BY DEF Lot
  <1>2. units \in [Buckets -> Nat]
    BY <1>1
  <1>3. Moved(lot, from, to, n) = [lot EXCEPT !.units = units]
    BY DEF Moved, Lot
  <1> QED
    BY <1>2, <1>3 DEF Lot

\* Moving what an allocation names keeps every lot a lot.
LEMMA MovedAllType ==
    ASSUME LotsOK, NEW alloc \in Allocs, NEW from \in Buckets, NEW to \in Buckets, from # to,
           CanMove(alloc, from)
    PROVE  /\ DOMAIN MovedAll(alloc, from, to) = DOMAIN lots
           /\ \A l \in DOMAIN lots : MovedAll(alloc, from, to)[l] \in Lot
  <1>1. PICK S \in SUBSET DOMAIN lots : alloc \in [S -> 1..Cost]
    BY DEF Allocs
  <1>2. \A l \in DOMAIN alloc : l \in DOMAIN lots /\ alloc[l] \in Nat
    BY <1>1, EntriesAssumption
  <1> SUFFICES ASSUME NEW l \in DOMAIN lots PROVE MovedAll(alloc, from, to)[l] \in Lot
    BY DEF MovedAll
  <1>3. CASE l \in DOMAIN alloc
    <2>1. alloc[l] \in Nat /\ lots[l] \in Lot /\ lots[l].units[from] >= alloc[l]
      BY <1>2, <1>3 DEF LotsOK, CanMove, Units
    <2> QED
      BY <2>1, <1>3, MovedType DEF MovedAll
  <1>4. CASE l \notin DOMAIN alloc
    BY <1>4 DEF MovedAll, LotsOK
  <1> QED
    BY <1>3, <1>4

\* A release also leaves lots, with a window that ends in the future.
LEMMA GivenBackType ==
    ASSUME LotsOK, NEW alloc \in Allocs, NEW now \in Nat, CanMove(alloc, "reserved")
    PROVE  /\ DOMAIN GivenBack(alloc, now) = DOMAIN lots
           /\ \A l \in DOMAIN lots : GivenBack(alloc, now)[l] \in Lot
  <1> DEFINE moved == MovedAll(alloc, "reserved", "available")
  <1>1. \A l \in DOMAIN lots : moved[l] \in Lot
    BY MovedAllType DEF Buckets
  <1> SUFFICES ASSUME NEW l \in DOMAIN lots PROVE GivenBack(alloc, now)[l] \in Lot
    BY DEF GivenBack
  <1>2. Larger(Coalesce(moved[l].grace, now), now + Window) \in Nat
    BY <1>1, EntriesAssumption DEF Larger, Coalesce, Lot, Unset
  <1>3. [moved[l] EXCEPT !.grace = Larger(Coalesce(@, now), now + Window)] \in Lot
    BY <1>1, <1>2 DEF Lot
  <1> QED
    BY <1>1, <1>3 DEF GivenBack

\* A lot one grows out of a lot keeps the chain's shape.
LEMMA RestoredChain ==
    ASSUME NEW k \in Seq(Nat), NEW e \in Nat
    PROVE  /\ RestoredLot(e, k) \in Seq(Nat)
           /\ RestoredLot(e, k)[Len(RestoredLot(e, k))] = e
           /\ SubSeq(RestoredLot(e, k), 1, Len(RestoredLot(e, k)) - 1) = k
  <1> DEFINE l == Append(k, e)
  <1>1. l \in Seq(Nat) /\ Len(l) = Len(k) + 1 /\ l[Len(k) + 1] = e /\ Len(k) \in Nat
    BY AppendProperties
  <1>2. SubSeq(l, 1, Len(k)) = k
    <2>1. l = k \o <<e>>
      BY AppendIsConcat
    <2>2. SubSeq(k \o <<e>>, 1, Len(k)) = SubSeq(k, 1, Len(k))
      BY <1>1, SubSeqOfConcat1
    <2> QED
      BY <2>1, <2>2, SubSeqFull
  <1> QED
    BY <1>1, <1>2 DEF RestoredLot

\* A granted lot is a lot.
LEMMA GrantedType ==
    ASSUME NEW n \in Nat \ {0}, NEW expires \in Nat \cup {Unset}
    PROVE  Granted(n, expires) \in Lot
  BY DEF Granted, Lot

\* What the types say of one entry.
LEMMA EntryTypes ==
    ASSUME TypeOK
    PROVE  /\ Entry = 1..Len(entries) /\ Len(entries) \in Nat
           /\ \A e \in Entry : entries[e] \in EntryRow(Allocs)
           /\ \A e \in Entry : e \in Nat /\ entries[e].alloc \in Allocs
  <1>1. entries \in Seq(EntryRow(Allocs))
    BY DEF TypeOK, EntryRow
  <1>2. Entry = 1..Len(entries) /\ Len(entries) \in Nat
    BY <1>1 DEF Entry
  <1>3. \A e \in Entry : entries[e] \in EntryRow(Allocs)
    BY <1>1, <1>2, ElementOfSeq
  <1> QED
    BY <1>2, <1>3 DEF EntryRow

\* Restoring what plays took leaves the lots there were, and lots.
LEMMA RestoreType ==
    ASSUME TypeOK, NEW P \in SUBSET DOMAIN plays, Restore(P),
           \A p \in DOMAIN plays : plays[p].entry \in Entry
    PROVE  /\ LotsOK'
           /\ DOMAIN lots \subseteq DOMAIN lots'
  <1>1. DOMAIN lots' = DOMAIN lots \cup RestorationsOf(P)
    BY DEF Restore
  <1> SUFFICES ASSUME NEW l \in DOMAIN lots' PROVE l \in Seq(Nat) /\ lots'[l] \in Lot
    BY <1>1 DEF LotsOK
  <1>2. CASE l \in DOMAIN lots
    BY <1>1, <1>2 DEF Restore, TypeOK
  <1>3. CASE l \notin DOMAIN lots
    <2>0. PICK p \in P : \E k \in DOMAIN entries[plays[p].entry].alloc :
            l = RestoredLot(plays[p].entry, k)
      BY <1>1, <1>3 DEF RestorationsOf
    <2> DEFINE e == plays[p].entry
    <2>1. PICK k \in DOMAIN entries[e].alloc : l = RestoredLot(e, k)
      BY <2>0
    <2>2. e \in Entry /\ e \in Nat /\ entries[e].alloc \in Allocs
      BY EntryTypes
    <2>3. k \in DOMAIN lots /\ entries[e].alloc[k] \in Nat \ {0}
      BY <2>1, <2>2, EntriesAssumption DEF Allocs
    <2>4. k \in Seq(Nat) /\ lots[k].expires \in Nat \cup {Unset}
      BY <2>3 DEF TypeOK, Lot
    <2>5. l \in Seq(Nat) /\ l[Len(l)] = e /\ SubSeq(l, 1, Len(l) - 1) = k
      BY <2>1, <2>2, <2>4, RestoredChain
    <2>6. lots'[l] = Granted(entries[e].alloc[k], lots[k].expires)
      BY <1>1, <1>3, <2>5 DEF Restore
    <2> QED
      BY <2>3, <2>4, <2>5, <2>6, GrantedType
  <1> QED
    BY <1>2, <1>3

\* What the types say of one play.
LEMMA PlayTypes ==
    ASSUME TypeOK
    PROVE  /\ DOMAIN plays = 1..Len(plays) /\ Len(plays) \in Nat
           /\ \A p \in DOMAIN plays : p \in Nat /\ plays[p] \in PlayRow
  <1>1. plays \in Seq(PlayRow)
    BY DEF TypeOK, PlayRow
  <1>2. DOMAIN plays = 1..Len(plays) /\ Len(plays) \in Nat
    BY <1>1
  <1> QED
    BY <1>1, <1>2, ElementOfSeq

\* Lots are never removed, so what an entry holds stays in lots there are.
LEMMA EntriesKeepType ==
    ASSUME TypeOK, DOMAIN lots \subseteq DOMAIN lots',
           NEW e \in Entry, NEW state \in {"captured", "released"}, NEW id \in Nat,
           \/ entries' = entries
           \/ entries' = [entries EXCEPT ![e].state = state]
           \/ entries' = [entries EXCEPT ![e].state = state, ![e].play = id]
    PROVE  entries' \in Seq(EntryRow(Allocs'))
  <1>1. Allocs \subseteq Allocs'
    BY DEF Allocs
  <1>2. EntryRow(Allocs) \subseteq EntryRow(Allocs')
    BY <1>1 DEF EntryRow
  <1>3. \A d \in Entry : entries'[d] \in EntryRow(Allocs')
    <2> SUFFICES ASSUME NEW d \in Entry PROVE entries'[d] \in EntryRow(Allocs')
      OBVIOUS
    <2>1. entries[d] \in EntryRow(Allocs')
      BY <1>2, EntryTypes
    <2>2. /\ [entries[d] EXCEPT !.state = state] \in EntryRow(Allocs')
          /\ [entries[d] EXCEPT !.state = state, !.play = id] \in EntryRow(Allocs')
      BY <2>1 DEF EntryRow
    <2>3. \/ entries'[d] = entries[d]
          \/ entries'[d] = [entries[d] EXCEPT !.state = state]
          \/ entries'[d] = [entries[d] EXCEPT !.state = state, !.play = id]
      BY DEF Entry
    <2> QED
      BY <2>1, <2>2, <2>3
  <1>4. DOMAIN entries' = 1..Len(entries) /\ Len(entries) \in Nat
    BY EntryTypes DEF Entry
  <1>5. entries' = [d \in 1..Len(entries) |-> entries'[d]]
    BY <1>4, EntryTypes DEF TypeOK
  <1> QED
    BY <1>3, <1>4, <1>5, EntryTypes

-----------------------------------------------------------------------------
(* The invariant: types, and who may settle an entry.                      *)

\* A gift's own lot is never lost.
GiftLots == \A g \in DOMAIN Grants : GiftLot(g) \in DOMAIN lots

\* An entry that is still to come was not settled before.
KeysKnown == \A k \in ops : k.kind = "settle" => k.entry \in Entry

Inv == TypeOK /\ GiftLots /\ KeysKnown /\ SettledOnce

\* A round starts with a lot for every gift and nothing held or played.
LEMMA InvInit == Init => Inv
  <1> SUFFICES ASSUME Init PROVE Inv
    OBVIOUS
  <1>1. \A g \in DOMAIN Grants : g \in Nat /\ Grants[g].points \in Nat \ {0}
                                   /\ Grants[g].expires \in Nat \cup {Unset}
    <2>1. PICK Row : Row = [points : Nat \ {0}, expires : Nat \cup {Unset}]
      OBVIOUS
    <2>2. Grants \in Seq(Row)
      BY <2>1, EntriesAssumption
    <2>3. DOMAIN Grants = 1..Len(Grants) /\ Len(Grants) \in Nat
      BY <2>2
    <2>4. \A g \in DOMAIN Grants : g \in Nat /\ Grants[g] \in Row
      BY <2>2, <2>3, ElementOfSeq
    <2> QED
      BY <2>1, <2>4
  <1>2. GiftLots
    BY DEF Init, GiftLots
  <1>3. LotsOK
    <2> SUFFICES ASSUME NEW l \in DOMAIN lots PROVE l \in Seq(Nat) /\ lots[l] \in Lot
      BY DEF LotsOK
    <2>1. PICK g \in DOMAIN Grants : l = <<g>>
      BY DEF Init, GiftLot
    <2>2. GiftOf(l) = g /\ l \in Seq(Nat)
      BY <1>1, <2>1 DEF GiftOf
    <2>3. lots[l] = Granted(Grants[g].points, Grants[g].expires)
      BY <2>2 DEF Init
    <2> QED
      BY <1>1, <2>2, <2>3, GrantedType
  <1>4. TypeOK
    <2>1. time \in Nat /\ limit \in Limits /\ status \in {"live", "paused", "closed", "cancelled"}
      BY DEF Init
    <2>2. entries \in Seq(EntryRow(Allocs)) /\ plays \in Seq(PlayRow)
      BY DEF Init
    <2>3. gifts \in [DOMAIN Grants -> {"awarded", "refunded", "reversed", "review"}]
      BY DEF Init
    <2> QED
      BY <1>3, <2>1, <2>2, <2>3 DEF TypeOK, LotsOK, EntryRow, PlayRow
  <1> QED
    BY <1>2, <1>4 DEF Init, Inv, KeysKnown, SettledOnce, Entry

\* now() is a time.
LEMMA NowsType == ASSUME TypeOK PROVE Nows \subseteq Nat
  BY EntriesAssumption DEF TypeOK, Nows

\* Steps that leave the entries, the plays and the settle keys alone.
LEMMA SettledKept ==
    ASSUME SettledOnce, KeysKnown, UNCHANGED <<entries, plays>>,
           ops \subseteq ops', \A k \in ops' \ ops : k.kind # "settle"
    PROVE  SettledOnce' /\ KeysKnown'
  <1>1. \A e \in Entry : First(SettleKey(e)) <=> First(SettleKey(e))'
    BY DEF First, SettleKey
  <1> QED
    BY <1>1 DEF SettledOnce, KeysKnown, Entry, Held

\* Reserving makes a new held entry out of available units.
LEMMA ReserveKeeps ==
    ASSUME Inv, NEW now \in Nows, ReserveEntry(now)
    PROVE  Inv'
  <1>1. PICK alloc \in Allocations(now) :
          /\ lots' = MovedAll(alloc, "available", "reserved")
          /\ entries' = Append(entries,
               [state |-> "reserved", alloc |-> alloc, holdUntil |-> now + HoldTTL, play |-> 0])
    BY DEF ReserveEntry
  <1> DEFINE row == [state |-> "reserved", alloc |-> alloc, holdUntil |-> now + HoldTTL, play |-> 0]
  <1>0. PICK id : id = Len(entries) + 1
    OBVIOUS
  <1>2. alloc \in Allocs /\ CanMove(alloc, "available")
    <2>1. alloc \in UNION {[S -> 1..Cost] : S \in SUBSET Spendable(now)}
      BY DEF Allocations
    <2>2. Spendable(now) \subseteq DOMAIN lots
      BY DEF Spendable
    <2>3. alloc \in Allocs
      BY <2>1, <2>2 DEF Allocs
    <2>4. \A l \in DOMAIN alloc : alloc[l] <= Units(l, "available")
      BY DEF Allocations
    <2>5. \A l \in DOMAIN alloc : alloc[l] \in Nat /\ Units(l, "available") \in Nat
      <3>1. PICK S \in SUBSET DOMAIN lots : alloc \in [S -> 1..Cost]
        BY <2>3 DEF Allocs
      <3> QED
        BY <3>1, EntriesAssumption DEF Inv, TypeOK, Units, Lot, Buckets
    <2> QED
      BY <2>3, <2>4, <2>5 DEF CanMove
  <1>3. LotsOK' /\ DOMAIN lots' = DOMAIN lots
    <2>1. LotsOK
      BY DEF Inv, TypeOK, LotsOK
    <2> QED
      BY <1>1, <1>2, <2>1, MovedAllType DEF LotsOK, Buckets
  <1>4. entries' \in Seq(EntryRow(Allocs'))
    <2>1. Allocs' = Allocs
      BY <1>3 DEF Allocs
    <2>2. row \in EntryRow(Allocs)
      BY <1>2, NowsType, EntriesAssumption DEF Inv, EntryRow
    <2>3. entries \in Seq(EntryRow(Allocs))
      BY DEF Inv, TypeOK, EntryRow
    <2> QED
      BY <1>1, <2>1, <2>2, <2>3, AppendProperties
  <1>5. TypeOK' /\ GiftLots'
    BY <1>3, <1>4 DEF Inv, TypeOK, GiftLots, LotsOK, EntryRow, ReserveEntry
  <1>6. /\ Entry' = Entry \cup {id} /\ id \notin Entry /\ entries'[id] = row
        /\ \A e \in Entry : entries'[e] = entries[e]
    <2>1. entries \in Seq(EntryRow(Allocs)) /\ Len(entries) \in Nat /\ Entry = 1..Len(entries)
      BY EntryTypes DEF Inv, TypeOK, EntryRow
    <2>2. entries' = Append(entries, row)
      BY <1>1
    <2> QED
      BY <1>0, <2>1, <2>2 DEF Entry
  <1>7. KeysKnown'
    BY <1>6 DEF Inv, KeysKnown, ReserveEntry
  <1>8. First(SettleKey(id))
    BY <1>6 DEF Inv, KeysKnown, First, SettleKey
  <1>9. SettledOnce'
    <2>1. UNCHANGED <<plays, ops>>
      BY DEF ReserveEntry
    <2>2. \A e \in Entry' : (Held(e) <=> First(SettleKey(e)))'
                          /\ (entries'[e].state = "captured" => entries'[e].play \in DOMAIN plays')
      <3>1. \A e \in Entry' : First(SettleKey(e))' <=> First(SettleKey(e))
        BY <2>1 DEF First
      <3>2. \A e \in Entry : Held(e)' <=> Held(e)
        BY <1>6 DEF Held
      <3>3. Held(id)' /\ row.state # "captured"
        BY <1>6 DEF Held
      <3>4. \A e \in Entry : /\ Held(e)' <=> First(SettleKey(e))'
                             /\ entries'[e].state = "captured" => entries'[e].play \in DOMAIN plays'
        BY <1>6, <2>1, <3>1, <3>2 DEF Inv, SettledOnce
      <3> QED
        BY <1>6, <1>8, <3>1, <3>3, <3>4
    <2>3. \A p \in DOMAIN plays' :
            /\ plays'[p].entry \in Entry'
            /\ entries'[plays'[p].entry].state = "captured"
            /\ entries'[plays'[p].entry].play = p
      BY <1>6, <2>1 DEF Inv, SettledOnce
    <2> QED
      BY <2>2, <2>3 DEF SettledOnce
  <1> QED
    BY <1>5, <1>7, <1>9 DEF Inv

\* Capturing settles a held entry, for the play that is made with it.
LEMMA StartKeeps ==
    ASSUME Inv, NEW now \in Nows, NEW e \in Entry, StartPlay(e, now)
    PROVE  Inv'
  <1>0. PICK id : id = Len(plays) + 1
    OBVIOUS
  <1> DEFINE row == [entry |-> e, voided |-> FALSE, refunded |-> FALSE]
  <1>1. /\ Held(e) /\ CanMove(entries[e].alloc, "reserved")
        /\ lots' = MovedAll(entries[e].alloc, "reserved", "consumed")
        /\ entries' = [entries EXCEPT ![e].state = "captured", ![e].play = id]
        /\ plays' = Append(plays, row) /\ ops' = ops \cup {SettleKey(e)}
    BY <1>0 DEF StartPlay, Settleable
  <1>2. LotsOK' /\ DOMAIN lots' = DOMAIN lots
    <2>1. LotsOK /\ entries[e].alloc \in Allocs
      BY EntryTypes DEF Inv, TypeOK, LotsOK
    <2> QED
      BY <1>1, <2>1, MovedAllType DEF LotsOK, Buckets
  <1>3. /\ plays' \in Seq(PlayRow) /\ id \in Nat /\ e \in Nat \ {0}
        /\ DOMAIN plays' = DOMAIN plays \cup {id} /\ id \notin DOMAIN plays /\ plays'[id] = row
        /\ \A p \in DOMAIN plays : plays'[p] = plays[p]
    <2>1. e \in Nat \ {0}
      BY EntryTypes DEF Inv
    <2>2. row \in PlayRow
      BY <2>1 DEF PlayRow
    <2>3. plays \in Seq(PlayRow) /\ Len(plays) \in Nat /\ DOMAIN plays = 1..Len(plays)
      BY PlayTypes DEF Inv, TypeOK, PlayRow
    <2> QED
      BY <1>0, <1>1, <2>1, <2>2, <2>3
  <1>4. entries' \in Seq(EntryRow(Allocs'))
    BY <1>1, <1>2, <1>3, EntriesKeepType DEF Inv
  <1>5. TypeOK' /\ GiftLots'
    BY <1>2, <1>3, <1>4 DEF Inv, TypeOK, GiftLots, LotsOK, EntryRow, PlayRow, StartPlay
  <1>6. /\ Entry' = Entry
        /\ entries'[e].state = "captured" /\ entries'[e].play = id
        /\ \A d \in Entry \ {e} : entries'[d] = entries[d]
    <2>1. entries[e] \in EntryRow(Allocs)
      BY EntryTypes DEF Inv
    <2> QED
      BY <1>1, <2>1 DEF Entry, EntryRow
  <1>7. KeysKnown'
    BY <1>1, <1>6 DEF Inv, KeysKnown, SettleKey
  <1>8. \A p \in DOMAIN plays : plays[p].entry # e
    BY <1>1 DEF Inv, SettledOnce, Held
  <1>9. \A p \in DOMAIN plays' : /\ plays'[p].entry \in Entry'
                                 /\ entries'[plays'[p].entry].state = "captured"
                                 /\ entries'[plays'[p].entry].play = p
    <2> SUFFICES ASSUME NEW p \in DOMAIN plays'
                 PROVE  /\ plays'[p].entry \in Entry'
                        /\ entries'[plays'[p].entry].state = "captured"
                        /\ entries'[plays'[p].entry].play = p
      OBVIOUS
    <2>1. CASE p = id
      BY <1>3, <1>6, <2>1
    <2>2. CASE p \in DOMAIN plays
      <3>1. plays[p].entry \in Entry \ {e} /\ plays'[p] = plays[p]
        BY <1>3, <1>8, <2>2 DEF Inv, SettledOnce
      <3> QED
        BY <1>6, <2>2, <3>1 DEF Inv, SettledOnce
    <2> QED
      BY <1>3, <2>1, <2>2
  <1>10. \A d \in Entry' : /\ Held(d)' <=> First(SettleKey(d))'
                           /\ entries'[d].state = "captured" => entries'[d].play \in DOMAIN plays'
    <2> SUFFICES ASSUME NEW d \in Entry
                 PROVE  /\ Held(d)' <=> First(SettleKey(d))'
                        /\ entries'[d].state = "captured" => entries'[d].play \in DOMAIN plays'
      BY <1>6
    <2>1. CASE d = e
      BY <1>1, <1>3, <1>6, <2>1 DEF Held, First
    <2>2. CASE d # e
      <3>1. SettleKey(d) # SettleKey(e)
        BY <2>2 DEF SettleKey
      <3>2. First(SettleKey(d))' <=> First(SettleKey(d))
        BY <1>1, <3>1 DEF First
      <3>3. Held(d)' <=> Held(d)
        BY <1>6, <2>2 DEF Held
      <3> QED
        BY <1>3, <1>6, <2>2, <3>2, <3>3 DEF Inv, SettledOnce
    <2> QED
      BY <2>1, <2>2
  <1>11. SettledOnce'
    BY <1>9, <1>10 DEF SettledOnce
  <1> QED
    BY <1>5, <1>7, <1>11 DEF Inv

\* Releasing settles a held entry, for no play.
LEMMA ReleaseKeeps ==
    ASSUME Inv, NEW now \in Nows, NEW e \in Entry, Release(e, now)
    PROVE  Inv'
  <1>1. /\ Held(e) /\ CanMove(entries[e].alloc, "reserved")
        /\ lots' = GivenBack(entries[e].alloc, now)
        /\ entries' = [entries EXCEPT ![e].state = "released"]
        /\ ops' = ops \cup {SettleKey(e)} /\ plays' = plays
    BY DEF Release, Settleable
  <1>2. LotsOK' /\ DOMAIN lots' = DOMAIN lots
    <2>1. LotsOK /\ entries[e].alloc \in Allocs /\ now \in Nat
      BY EntryTypes, NowsType DEF Inv, TypeOK, LotsOK
    <2> QED
      BY <1>1, <2>1, GivenBackType DEF LotsOK, Inv, TypeOK
  <1>3. entries' \in Seq(EntryRow(Allocs'))
    BY <1>1, <1>2, EntriesKeepType, 0 \in Nat DEF Inv
  <1>4. TypeOK' /\ GiftLots'
    BY <1>2, <1>3 DEF Inv, TypeOK, GiftLots, LotsOK, EntryRow, Release
  <1>5. /\ Entry' = Entry /\ entries'[e].state = "released"
        /\ \A d \in Entry \ {e} : entries'[d] = entries[d]
    <2>1. entries[e] \in EntryRow(Allocs)
      BY EntryTypes DEF Inv
    <2> QED
      BY <1>1, <2>1 DEF Entry, EntryRow
  <1>6. KeysKnown'
    BY <1>1, <1>5 DEF Inv, KeysKnown, SettleKey
  <1>7. \A p \in DOMAIN plays : plays[p].entry # e
    BY <1>1 DEF Inv, SettledOnce, Held
  <1>8. \A d \in Entry' : /\ Held(d)' <=> First(SettleKey(d))'
                          /\ entries'[d].state = "captured" => entries'[d].play \in DOMAIN plays'
    <2> SUFFICES ASSUME NEW d \in Entry
                 PROVE  /\ Held(d)' <=> First(SettleKey(d))'
                        /\ entries'[d].state = "captured" => entries'[d].play \in DOMAIN plays'
      BY <1>5
    <2>1. CASE d = e
      BY <1>1, <1>5, <2>1 DEF Held, First
    <2>2. CASE d # e
      <3>1. SettleKey(d) # SettleKey(e)
        BY <2>2 DEF SettleKey
      <3>2. First(SettleKey(d))' <=> First(SettleKey(d))
        BY <1>1, <3>1 DEF First
      <3>3. Held(d)' <=> Held(d)
        BY <1>5, <2>2 DEF Held
      <3> QED
        BY <1>1, <1>5, <2>2, <3>2, <3>3 DEF Inv, SettledOnce
    <2> QED
      BY <2>1, <2>2
  <1>9. SettledOnce'
    BY <1>1, <1>5, <1>7, <1>8 DEF Inv, SettledOnce
  <1> QED
    BY <1>4, <1>6, <1>9 DEF Inv

\* Plays that leave the board keep the entry they captured.
LEMMA LeaveType ==
    ASSUME TypeOK, NEW voided, NEW owed, Leave(voided, owed)
    PROVE  /\ plays' \in Seq(PlayRow) /\ DOMAIN plays' = DOMAIN plays
           /\ \A p \in DOMAIN plays : plays'[p].entry = plays[p].entry
  <1>1. \A p \in DOMAIN plays : /\ plays'[p] \in PlayRow
                                /\ plays'[p].entry = plays[p].entry
    <2> SUFFICES ASSUME NEW p \in DOMAIN plays
                 PROVE  plays'[p] \in PlayRow /\ plays'[p].entry = plays[p].entry
      OBVIOUS
    <2>1. plays[p] \in PlayRow
      BY PlayTypes
    <2> DEFINE v == plays[p].voided \/ p \in voided
               r == plays[p].refunded \/ p \in owed
    <2>2. v \in BOOLEAN /\ r \in BOOLEAN
      OBVIOUS
    <2>3. plays'[p] = [plays[p] EXCEPT !.voided = v, !.refunded = r]
      BY DEF Leave
    <2> HIDE DEF v, r
    <2>4. /\ [plays[p] EXCEPT !.voided = v, !.refunded = r] \in PlayRow
          /\ [plays[p] EXCEPT !.voided = v, !.refunded = r].entry = plays[p].entry
      BY <2>1, <2>2 DEF PlayRow
    <2> QED
      BY <2>3, <2>4
  <1>2. plays' = [p \in 1..Len(plays) |-> plays'[p]] /\ Len(plays) \in Nat
    BY PlayTypes DEF Leave
  <1>3. DOMAIN plays' = DOMAIN plays
    BY DEF Leave
  <1>4. \A p \in 1..Len(plays) : plays'[p] \in PlayRow
    BY <1>1, PlayTypes
  <1>5. plays' \in Seq(PlayRow)
    BY <1>2, <1>4
  <1> QED
    BY <1>1, <1>3, <1>5

\* Steps that restore what plays took, and leave the entries alone.
LEMMA VoidKeeps ==
    ASSUME Inv, NEW voided, NEW owed \in SUBSET DOMAIN plays,
           Leave(voided, owed), Restore(owed),
           UNCHANGED <<time, limit, entries, gifts, ops>>,
           status' \in {"live", "paused", "closed", "cancelled"}
    PROVE  Inv'
  <1>1. LotsOK' /\ DOMAIN lots \subseteq DOMAIN lots'
    BY RestoreType DEF Inv, SettledOnce
  <1>2. entries' \in Seq(EntryRow(Allocs'))
    <2>1. Allocs \subseteq Allocs'
      BY <1>1 DEF Allocs
    <2>2. EntryRow(Allocs) \subseteq EntryRow(Allocs')
      BY <2>1 DEF EntryRow
    <2>3. entries \in Seq(EntryRow(Allocs))
      BY DEF Inv, TypeOK, EntryRow
    <2> QED
      BY <2>2, <2>3
  <1>3. TypeOK' /\ GiftLots'
    BY <1>1, <1>2, LeaveType DEF Inv, TypeOK, GiftLots, LotsOK, EntryRow, PlayRow
  <1>4. KeysKnown'
    BY DEF Inv, KeysKnown, Entry
  <1>5. SettledOnce'
    <2>1. DOMAIN plays' = DOMAIN plays
      BY LeaveType DEF Inv
    <2>2. \A p \in DOMAIN plays : plays'[p].entry = plays[p].entry
      BY LeaveType DEF Inv
    <2>3. \A e \in Entry : /\ Held(e)' <=> Held(e)
                           /\ First(SettleKey(e))' <=> First(SettleKey(e))
      BY DEF Held, First
    <2>4. Entry' = Entry /\ entries' = entries
      BY DEF Entry
    <2> QED
      BY <2>1, <2>2, <2>3, <2>4 DEF Inv, SettledOnce
  <1> QED
    BY <1>3, <1>4, <1>5 DEF Inv

\* Steps that move available units of one lot out of it.
LEMMA TakeKeeps ==
    ASSUME Inv, NEW l \in DOMAIN lots, NEW to \in {"expired", "reversed"}, NEW key,
           key.kind # "settle",
           lots' = [lots EXCEPT ![l] = Moved(@, "available", to, Units(l, "available"))],
           ops' = ops \cup {key},
           UNCHANGED <<time, limit, status, entries, plays>>,
           gifts' \in [DOMAIN Grants -> {"awarded", "refunded", "reversed", "review"}]
    PROVE  Inv'
  <1>1. Moved(lots[l], "available", to, Units(l, "available")) \in Lot
    <2>1. lots[l] \in Lot /\ Units(l, "available") \in Nat
      BY DEF Inv, TypeOK, Lot, Units, Buckets
    <2>2. lots[l].units["available"] >= Units(l, "available")
      BY <2>1 DEF Units
    <2> QED
      BY <2>1, <2>2, MovedType DEF Buckets
  <1>2. LotsOK' /\ DOMAIN lots' = DOMAIN lots
    BY <1>1 DEF Inv, TypeOK, LotsOK
  <1>3. Allocs' = Allocs
    BY <1>2 DEF Allocs
  <1>4. TypeOK' /\ GiftLots'
    BY <1>2, <1>3 DEF Inv, TypeOK, GiftLots, LotsOK
  <1>5. SettledOnce' /\ KeysKnown'
    BY SettledKept DEF Inv
  <1> QED
    BY <1>4, <1>5 DEF Inv

-----------------------------------------------------------------------------
(* Theorems.                                                               *)

\* Every step of the system keeps the invariant.
LEMMA InvStep == Inv /\ [Next]_vars => Inv'
  <1> SUFFICES ASSUME Inv, [Next]_vars PROVE Inv'
    OBVIOUS
  <1>1. ASSUME NEW now \in Nows, ReserveEntry(now) PROVE Inv'
    BY <1>1, ReserveKeeps
  <1>2. ASSUME NEW now \in Nows, NEW e \in Entry, StartPlay(e, now) PROVE Inv'
    BY <1>2, StartKeeps
  <1>3. ASSUME NEW now \in Nows, NEW e \in Entry,
               ReleaseEntry(e, now) \/ ReleaseStale(e, now)
        PROVE Inv'
    BY <1>3, ReleaseKeeps DEF ReleaseEntry, ReleaseStale
  <1>4. ASSUME NEW now \in Nows, NEW l \in DOMAIN lots, ExpireLot(l, now) PROVE Inv'
    <2>1. ExpireKey(l).kind # "settle"
      BY DEF ExpireKey
    <2>2. gifts' \in [DOMAIN Grants -> {"awarded", "refunded", "reversed", "review"}]
      BY <1>4 DEF ExpireLot, Inv, TypeOK
    <2> QED
      BY <1>4, <2>1, <2>2, TakeKeeps DEF ExpireLot
  <1>5. ASSUME NEW p \in DOMAIN plays, NEW refund \in BOOLEAN, VoidPlay(p, refund)
        PROVE Inv'
    <2>1. PICK owed \in SUBSET DOMAIN plays : Leave({p}, owed) /\ Restore(owed)
      BY <1>5 DEF VoidPlay
    <2> QED
      BY <1>5, <2>1, VoidKeeps DEF VoidPlay, Inv, TypeOK
  <1>6. CASE Cancel
    <2>1. PICK owed \in SUBSET DOMAIN plays : Leave(DOMAIN plays, owed) /\ Restore(owed)
      BY <1>6 DEF Cancel
    <2> QED
      BY <1>6, <2>1, VoidKeeps DEF Cancel, Inv, TypeOK
  <1>7. ASSUME NEW g \in DOMAIN gifts, ReverseGift(g) PROVE Inv'
    <2> DEFINE l == GiftLot(g)
    <2>1. g \in DOMAIN Grants /\ l \in DOMAIN lots
      BY DEF Inv, TypeOK, GiftLots
    <2>2. gifts' \in [DOMAIN Grants -> {"awarded", "refunded", "reversed", "review"}]
      BY <1>7, <2>1 DEF ReverseGift, Inv, TypeOK
    <2>3. UNCHANGED <<time, limit, status, entries, plays>>
      BY <1>7 DEF ReverseGift
    <2>4. CASE Units(l, "available") > 0 /\ First(ReverseKey(l))
      <3>1. ReverseKey(l).kind # "settle"
        BY DEF ReverseKey
      <3> QED
        BY <1>7, <2>1, <2>2, <2>3, <2>4, <3>1, TakeKeeps DEF ReverseGift
    <2>5. CASE ~(Units(l, "available") > 0 /\ First(ReverseKey(l)))
      <3>1. UNCHANGED <<lots, ops>>
        BY <1>7, <2>5 DEF ReverseGift
      <3>2. TypeOK' /\ GiftLots'
        BY <2>2, <2>3, <3>1 DEF Inv, TypeOK, GiftLots, Allocs
      <3> QED
        BY <2>3, <3>1, <3>2, SettledKept DEF Inv
    <2> QED
      BY <2>4, <2>5
  <1>8. CASE \/ \E g \in DOMAIN gifts : RefundOrder(g)
             \/ MoveRound \/ Tick \/ UNCHANGED vars
    <2>1. UNCHANGED <<limit, lots, entries, plays, ops>>
      BY <1>8 DEF RefundOrder, MoveRound, Tick, vars
    <2>2. gifts' \in [DOMAIN Grants -> {"awarded", "refunded", "reversed", "review"}]
      BY <1>8 DEF RefundOrder, MoveRound, Tick, vars, Inv, TypeOK
    <2>3. time' \in Nat /\ status' \in {"live", "paused", "closed", "cancelled"}
      BY <1>8 DEF RefundOrder, MoveRound, Tick, vars, Inv, TypeOK
    <2>4. TypeOK' /\ GiftLots'
      BY <2>1, <2>2, <2>3 DEF Inv, TypeOK, GiftLots, Allocs
    <2> QED
      BY <2>1, <2>4, SettledKept DEF Inv
  <1> QED
    BY <1>1, <1>2, <1>3, <1>4, <1>5, <1>6, <1>7, <1>8 DEF Next

\* Types, in every reachable state: no bucket of any lot is negative,
\* however the units of a gift are spent, released, restored or expired.
THEOREM Types == Spec => []TypeOK
  <1>1. Inv => TypeOK
    BY DEF Inv
  <1> QED
    BY InvInit, InvStep, <1>1, PTL DEF Spec

\* An entry is settled at most once: it is captured by one play or it is
\* released, whoever gets to it first, for any number of entries and plays.
THEOREM SettledOnceAlways == Spec => []SettledOnce
  <1>1. Inv => SettledOnce
    BY DEF Inv
  <1> QED
    BY InvInit, InvStep, <1>1, PTL DEF Spec

\* The plays that count and the entries that are held can be counted.
LEMMA Countable ==
    ASSUME TypeOK
    PROVE  /\ IsFiniteSet(ActivePlays) /\ IsFiniteSet(HeldEntries)
           /\ Cardinality(ActivePlays) \in Nat /\ Cardinality(HeldEntries) \in Nat
           /\ limit \in Nat
  <1>1. IsFiniteSet(DOMAIN plays) /\ IsFiniteSet(Entry)
    BY PlayTypes, EntryTypes, FS_Interval, 1 \in Int
  <1>2. IsFiniteSet(ActivePlays) /\ IsFiniteSet(HeldEntries)
    BY <1>1, FS_Subset DEF ActivePlays, HeldEntries
  <1> QED
    BY <1>2, FS_CardinalityType, EntriesAssumption DEF TypeOK

\* Fewer plays and held entries, under the same limit.
LEMMA CapShrinks ==
    ASSUME Inv, AttemptCap, limit' = limit,
           ActivePlays' \subseteq ActivePlays, HeldEntries' \subseteq HeldEntries
    PROVE  AttemptCap'
  <1>1. /\ Cardinality(ActivePlays') <= Cardinality(ActivePlays)
        /\ Cardinality(HeldEntries') <= Cardinality(HeldEntries)
        /\ Cardinality(ActivePlays') \in Nat /\ Cardinality(HeldEntries') \in Nat
    BY Countable, FS_Subset, FS_CardinalityType DEF Inv
  <1> QED
    BY <1>1, Countable DEF AttemptCap, Inv

\* A play that starts takes the place its entry held.
LEMMA CapStart ==
    ASSUME Inv, AttemptCap, NEW now \in Nows, NEW e \in Entry, StartPlay(e, now)
    PROVE  AttemptCap'
  <1>0. PICK id : id = Len(plays) + 1
    OBVIOUS
  <1>1. /\ Held(e) /\ limit' = limit
        /\ entries' = [entries EXCEPT ![e].state = "captured", ![e].play = id]
        /\ plays' = Append(plays, [entry |-> e, voided |-> FALSE, refunded |-> FALSE])
    BY <1>0 DEF StartPlay, Settleable
  <1>2. ActivePlays' = ActivePlays \cup {id} /\ id \notin ActivePlays
    <2>1. plays \in Seq(PlayRow) /\ Len(plays) \in Nat /\ DOMAIN plays = 1..Len(plays)
      BY PlayTypes DEF Inv, TypeOK, PlayRow
    <2>2. /\ DOMAIN plays' = DOMAIN plays \cup {id} /\ id \notin DOMAIN plays
          /\ ~plays'[id].voided
          /\ \A p \in DOMAIN plays : plays'[p] = plays[p]
      BY <1>0, <1>1, <2>1
    <2> QED
      BY <2>2 DEF ActivePlays
  <1>3. HeldEntries' = HeldEntries \ {e} /\ e \in HeldEntries
    <2>1. entries[e] \in EntryRow(Allocs)
      BY EntryTypes DEF Inv
    <2>2. /\ Entry' = Entry /\ entries'[e].state = "captured"
          /\ \A d \in Entry \ {e} : entries'[d] = entries[d]
      BY <1>1, <2>1 DEF Entry, EntryRow
    <2> QED
      BY <1>1, <2>2 DEF HeldEntries, Held
  <1>4. /\ Cardinality(ActivePlays') = Cardinality(ActivePlays) + 1
        /\ Cardinality(HeldEntries') = Cardinality(HeldEntries) - 1
    BY <1>2, <1>3, Countable, FS_AddElement, FS_RemoveElement DEF Inv
  <1> QED
    BY <1>1, <1>4, Countable DEF AttemptCap, Inv

\* An entry is reserved only while there is room for one more.
LEMMA CapReserve ==
    ASSUME Inv, AttemptCap, NEW now \in Nows, ReserveEntry(now)
    PROVE  AttemptCap'
  <1>0. PICK id : id = Len(entries) + 1
    OBVIOUS
  <1>1. PICK row : entries' = Append(entries, row) /\ row.state = "reserved"
    BY DEF ReserveEntry
  <1>2. HeldEntries' = HeldEntries \cup {id} /\ id \notin HeldEntries
    <2>1. Len(entries) \in Nat /\ Entry = 1..Len(entries) /\ entries \in Seq(EntryRow(Allocs))
      BY EntryTypes DEF Inv, TypeOK, EntryRow
    <2>2. /\ Entry' = Entry \cup {id} /\ id \notin Entry /\ entries'[id] = row
          /\ \A e \in Entry : entries'[e] = entries[e]
      BY <1>0, <1>1, <2>1 DEF Entry
    <2> QED
      BY <1>1, <2>2 DEF HeldEntries, Held
  <1>3. Cardinality(HeldEntries') = Cardinality(HeldEntries) + 1
    BY <1>2, Countable, FS_AddElement DEF Inv
  <1>4. ActivePlays' = ActivePlays /\ limit' = limit
    BY DEF ReserveEntry, ActivePlays
  <1>5. limit > 0 => Cardinality(ActivePlays) + Cardinality(HeldEntries) < limit
    BY DEF ReserveEntry, UnderLimit
  <1> QED
    BY <1>3, <1>4, <1>5, Countable DEF AttemptCap, Inv

\* Settling an entry otherwise, and voiding plays, only makes room.
LEMMA CapRest ==
    ASSUME Inv, AttemptCap, Next,
           ~\E now \in Nows : ReserveEntry(now) \/ \E e \in Entry : StartPlay(e, now)
    PROVE  AttemptCap'
  <1>1. ASSUME NEW now \in Nows, NEW e \in Entry, Release(e, now) PROVE AttemptCap'
    <2>1. /\ limit' = limit /\ plays' = plays
          /\ entries' = [entries EXCEPT ![e].state = "released"]
      BY <1>1 DEF Release
    <2>2. ActivePlays' = ActivePlays
      BY <2>1 DEF ActivePlays
    <2>3. HeldEntries' \subseteq HeldEntries
      <3>1. entries[e] \in EntryRow(Allocs)
        BY EntryTypes DEF Inv
      <3>2. /\ Entry' = Entry /\ entries'[e].state = "released"
            /\ \A d \in Entry \ {e} : entries'[d] = entries[d]
        BY <2>1, <3>1 DEF Entry, EntryRow
      <3> QED
        BY <3>2 DEF HeldEntries, Held
    <2> QED
      BY <2>1, <2>2, <2>3, CapShrinks
  <1>2. ASSUME NEW voided, NEW owed, Leave(voided, owed), UNCHANGED <<limit, entries>>
        PROVE  AttemptCap'
    <2>1. HeldEntries' = HeldEntries
      BY <1>2 DEF HeldEntries, Held, Entry
    <2>2. ActivePlays' \subseteq ActivePlays
      <3>1. \A p \in DOMAIN plays : plays[p].voided => plays'[p].voided
        BY <1>2, PlayTypes DEF Leave, Inv, PlayRow
      <3> QED
        BY <1>2, <3>1 DEF ActivePlays, Leave
    <2> QED
      BY <1>2, <2>1, <2>2, CapShrinks
  <1>3. ASSUME UNCHANGED <<limit, entries, plays>> PROVE AttemptCap'
    BY <1>3, CapShrinks DEF ActivePlays, HeldEntries, Held, Entry
  <1> QED
    <2>1. ASSUME NEW now \in Nows, NEW e \in Entry,
                 ReleaseEntry(e, now) \/ ReleaseStale(e, now)
          PROVE AttemptCap'
      BY <1>1, <2>1 DEF ReleaseEntry, ReleaseStale
    <2>2. ASSUME NEW p \in DOMAIN plays, NEW refund \in BOOLEAN, VoidPlay(p, refund)
          PROVE AttemptCap'
      BY <1>2, <2>2 DEF VoidPlay
    <2>3. CASE Cancel
      BY <1>2, <2>3 DEF Cancel
    <2>4. CASE \/ \E now \in Nows : \E l \in DOMAIN lots : ExpireLot(l, now)
               \/ \E g \in DOMAIN gifts : RefundOrder(g) \/ ReverseGift(g)
               \/ MoveRound \/ Tick
      BY <1>3, <2>4 DEF ExpireLot, RefundOrder, ReverseGift, MoveRound, Tick
    <2> QED
      BY <2>1, <2>2, <2>3, <2>4 DEF Next

\* Plays that count and entries still held never exceed the customer's limit
\* together, for any limit and any number of entries.
THEOREM AttemptCapAlways == Spec => []AttemptCap
  <1>1. Init => AttemptCap
    <2> SUFFICES ASSUME Init PROVE AttemptCap
      OBVIOUS
    <2>1. ActivePlays = {} /\ HeldEntries = {}
      BY DEF Init, ActivePlays, HeldEntries, Entry
    <2> QED
      BY <2>1, FS_EmptySet, EntriesAssumption DEF AttemptCap, Init
  <1>2. Inv /\ AttemptCap /\ [Next]_vars => AttemptCap'
    <2> SUFFICES ASSUME Inv, AttemptCap, [Next]_vars PROVE AttemptCap'
      OBVIOUS
    <2>1. CASE UNCHANGED vars
      BY <2>1, CapShrinks DEF vars, ActivePlays, HeldEntries, Held, Entry
    <2>2. CASE Next
      BY <2>2, CapReserve, CapStart, CapRest
    <2> QED
      BY <2>1, <2>2
  <1> QED
    BY InvInit, InvStep, <1>1, <1>2, PTL DEF Spec

-----------------------------------------------------------------------------
(* What entries hold of lots.                                              *)

Got(alloc, l) == IF l \in DOMAIN alloc THEN alloc[l] ELSE 0

\* What an allocation takes of a lot.
LEMMA GotType ==
    ASSUME NEW alloc \in Allocs, NEW l
    PROVE  /\ Got(alloc, l) \in Nat /\ (l \notin DOMAIN lots => Got(alloc, l) = 0)
           /\ \A k \in DOMAIN alloc : k \in DOMAIN lots /\ alloc[k] \in Nat \ {0}
  <1>1. PICK S \in SUBSET DOMAIN lots : alloc \in [S -> 1..Cost]
    BY DEF Allocs
  <1> QED
    BY <1>1, EntriesAssumption DEF Got

LEMMA ShareType ==
    ASSUME TypeOK
    PROVE  /\ IsFiniteSet(Entry)
           /\ \A l, e : e \in Entry => /\ Share(l)[e] = Got(entries[e].alloc, l)
                                       /\ Share(l)[e] \in Nat
                                       /\ l \notin DOMAIN lots => Share(l)[e] = 0
  <1>1. IsFiniteSet(Entry)
    BY EntryTypes, FS_Interval, 1 \in Int
  <1>2. ASSUME NEW l, NEW e, e \in Entry
        PROVE  Share(l)[e] = Got(entries[e].alloc, l)
    BY <1>2 DEF Share, Got
  <1> QED
    BY <1>1, <1>2, EntryTypes, GotType

\* What entries hold of a lot is a number, at least what each of them holds,
\* and grows and shrinks with the entries counted.
LEMMA TakenTypes ==
    ASSUME TypeOK, NEW l, NEW E \in SUBSET Entry
    PROVE  /\ IsFiniteSet(E) /\ TakenFrom(l, E) \in Nat
           /\ \A e \in E : Share(l)[e] <= TakenFrom(l, E)
           /\ l \notin DOMAIN lots => TakenFrom(l, E) = 0
  <1>1. IsFiniteSet(E)
    BY ShareType, FS_Subset
  <1>2. \A e \in E : Share(l)[e] \in Nat
    BY ShareType
  <1>3. l \notin DOMAIN lots => \A e \in E : Share(l)[e] = 0
    BY ShareType
  <1>4. TakenFrom(l, E) \in Nat /\ \A e \in E : Share(l)[e] <= TakenFrom(l, E)
    BY <1>1, <1>2, SumNat DEF TakenFrom
  <1>5. (\A e \in E : Share(l)[e] = 0) => TakenFrom(l, E) = 0
    BY <1>1, SumZero DEF TakenFrom
  <1> QED
    BY <1>1, <1>3, <1>4, <1>5

LEMMA TakenPlus ==
    ASSUME TypeOK, NEW l, NEW E \in SUBSET Entry, NEW e \in Entry, e \notin E
    PROVE  TakenFrom(l, E \cup {e}) = TakenFrom(l, E) + Share(l)[e]
  <1>1. IsFiniteSet(E) /\ \A d \in E \cup {e} : Share(l)[d] \in Int
    BY TakenTypes, ShareType
  <1> QED
    BY <1>1, SumAdd DEF TakenFrom

LEMMA TakenMinus ==
    ASSUME TypeOK, NEW l, NEW E \in SUBSET Entry, NEW e \in E
    PROVE  TakenFrom(l, E \ {e}) = TakenFrom(l, E) - Share(l)[e]
  <1> PICK F \in SUBSET Entry : F = E \ {e}
    OBVIOUS
  <1>1. e \in Entry /\ e \notin F /\ F \cup {e} = E
    OBVIOUS
  <1>2. TakenFrom(l, F \cup {e}) = TakenFrom(l, F) + Share(l)[e]
    BY <1>1, TakenPlus
  <1>3. TakenFrom(l, F) \in Nat /\ Share(l)[e] \in Nat
    BY <1>1, TakenTypes, ShareType
  <1>4. TakenFrom(l, E) = TakenFrom(l, F) + Share(l)[e]
    BY <1>1, <1>2, Zenon
  <1>5. TakenFrom(l, F) = TakenFrom(l, E) - Share(l)[e]
    BY <1>3, <1>4
  <1> QED
    BY <1>5, Zenon

\* Entries do not change what they took.
AllocsKept == \A e \in Entry : e \in Entry' /\ entries'[e].alloc = entries[e].alloc

LEMMA TakenKept ==
    ASSUME TypeOK, AllocsKept, NEW l, NEW E \in SUBSET Entry
    PROVE  SumFunctionOnSet(Share(l)', E) = TakenFrom(l, E)
  <1>1. \A e \in E : Share(l)'[e] = Share(l)[e]
    BY DEF Share, AllocsKept
  <1>2. IsFiniteSet(E)
    BY TakenTypes
  <1>3. SumFunctionOnSet(Share(l)', E) = SumFunctionOnSet(Share(l), E)
    BY <1>1, <1>2, SumEqual
  <1> QED
    BY <1>3 DEF TakenFrom

\* What a move does to the buckets of a lot.
LEMMA MovedUnits ==
    ASSUME NEW lot \in Lot, NEW from \in Buckets, NEW to \in Buckets, from # to, NEW n,
           NEW b \in Buckets
    PROVE  Moved(lot, from, to, n).units[b] =
             IF b = from THEN lot.units[b] - n
             ELSE IF b = to THEN lot.units[b] + n ELSE lot.units[b]
  BY DEF Moved, Lot

LEMMA MovedAllUnits ==
    ASSUME TypeOK, NEW alloc \in Allocs, NEW from \in Buckets, NEW to \in Buckets, from # to,
           NEW l \in DOMAIN lots, NEW b \in Buckets
    PROVE  MovedAll(alloc, from, to)[l].units[b] =
             IF b = from THEN Units(l, b) - Got(alloc, l)
             ELSE IF b = to THEN Units(l, b) + Got(alloc, l) ELSE Units(l, b)
  <1>1. lots[l] \in Lot /\ Units(l, b) \in Nat
    BY DEF TypeOK, Lot, Units
  <1>2. CASE l \in DOMAIN alloc
    <2>1. MovedAll(alloc, from, to)[l] = Moved(lots[l], from, to, alloc[l])
      BY <1>2 DEF MovedAll
    <2>2. Moved(lots[l], from, to, alloc[l]).units[b] =
            IF b = from THEN lots[l].units[b] - alloc[l]
            ELSE IF b = to THEN lots[l].units[b] + alloc[l] ELSE lots[l].units[b]
      BY <1>1, MovedUnits
    <2> QED
      BY <1>2, <2>1, <2>2 DEF Got, Units
  <1>3. CASE l \notin DOMAIN alloc
    BY <1>1, <1>3 DEF MovedAll, Got, Units
  <1> QED
    BY <1>2, <1>3

LEMMA GivenBackUnits ==
    ASSUME TypeOK, NEW alloc \in Allocs, NEW now, NEW l \in DOMAIN lots, NEW b \in Buckets
    PROVE  GivenBack(alloc, now)[l].units[b] =
             IF b = "reserved" THEN Units(l, b) - Got(alloc, l)
             ELSE IF b = "available" THEN Units(l, b) + Got(alloc, l) ELSE Units(l, b)
  <1>1. GivenBack(alloc, now)[l].units = MovedAll(alloc, "reserved", "available")[l].units
    BY DEF GivenBack
  <1> QED
    BY <1>1, MovedAllUnits DEF Buckets

-----------------------------------------------------------------------------
(* A lot's buckets and what entries hold of it change together, and so do  *)
(* what is left of a gift and what paid plays took of it.                  *)

\* Which entries are held, captured and paid, as sets of entries.
LEMMA Kinds ==
    ASSUME Inv
    PROVE  /\ HeldEntries \in SUBSET Entry /\ CapturedEntries \in SUBSET Entry
           /\ PaidEntries \in SUBSET CapturedEntries /\ PaidEntries \in SUBSET Entry
           /\ HeldEntries \cap CapturedEntries = {}
  BY DEF Inv, SettledOnce, HeldEntries, CapturedEntries, PaidEntries, Held

\* A lot of a state, and its numbers.
LEMMA LotNumbers ==
    ASSUME TypeOK, NEW l \in DOMAIN lots
    PROVE  /\ \A b \in Buckets : Units(l, b) \in Nat
           /\ Unplayed(l) \in Nat
  BY DEF TypeOK, Lot, Units, Unplayed, Buckets

\* What entries hold of a lot after a step that leaves the sets counted alone,
\* and after one that adds an entry to them.
LEMMA TakenGrows ==
    ASSUME TypeOK, AllocsKept, NEW l, NEW E \in SUBSET Entry, NEW id, id \notin E,
           Share(l)'[id] \in Nat
    PROVE  SumFunctionOnSet(Share(l)', E \cup {id}) = TakenFrom(l, E) + Share(l)'[id]
  <1> PICK f : f = Share(l)'
    OBVIOUS
  <1>1. IsFiniteSet(E)
    BY TakenTypes
  <1>2. \A d \in E : f[d] \in Nat
    <2> SUFFICES ASSUME NEW d \in E PROVE f[d] \in Nat
      OBVIOUS
    <2>1. Share(l)'[d] = Share(l)[d]
      BY DEF Share, AllocsKept
    <2> QED
      BY <2>1, ShareType
  <1>3. \A d \in E \cup {id} : f[d] \in Int
    BY <1>2
  <1>4. SumFunctionOnSet(f, E \cup {id}) = SumFunctionOnSet(f, E) + f[id]
    BY <1>1, <1>3, SumAdd
  <1>5. SumFunctionOnSet(f, E) = TakenFrom(l, E)
    BY TakenKept
  <1> QED
    BY <1>4, <1>5

\* Nothing an entry holds changes, nor the lots but for available units that
\* expire or are taken back.
LEMMA TakeBalances ==
    ASSUME Inv, HoldsBacked, DOMAIN lots' = DOMAIN lots, UNCHANGED <<entries, plays>>,
           \A l \in DOMAIN lots : /\ Units(l, "reserved")' = Units(l, "reserved")
                                  /\ Units(l, "consumed")' = Units(l, "consumed")
                                  /\ Unplayed(l)' = Unplayed(l)
    PROVE  HoldsBacked' /\ Accounted' = Accounted
  <1>1. /\ HeldEntries' = HeldEntries /\ CapturedEntries' = CapturedEntries
        /\ PaidEntries' = PaidEntries
        /\ \A l : Share(l)' = Share(l)
    BY DEF HeldEntries, CapturedEntries, PaidEntries, Share, Entry, Held
  <1>2. \A l : /\ TakenFrom(l, HeldEntries)' = TakenFrom(l, HeldEntries)
               /\ TakenFrom(l, CapturedEntries)' = TakenFrom(l, CapturedEntries)
               /\ TakenFrom(l, PaidEntries)' = TakenFrom(l, PaidEntries)
    BY <1>1, Zenon DEF TakenFrom
  <1> QED
    BY <1>2 DEF HoldsBacked, Accounted

LEMMA ReserveBalances ==
    ASSUME Inv, HoldsBacked, NEW now \in Nows, ReserveEntry(now)
    PROVE  HoldsBacked' /\ Accounted' = Accounted
  <1>0. PICK id : id = Len(entries) + 1
    OBVIOUS
  <1>1. PICK alloc \in Allocations(now) :
          /\ lots' = MovedAll(alloc, "available", "reserved")
          /\ entries' = Append(entries,
               [state |-> "reserved", alloc |-> alloc, holdUntil |-> now + HoldTTL, play |-> 0])
    BY DEF ReserveEntry
  <1>2. alloc \in Allocs /\ TypeOK /\ plays' = plays
    BY DEF Allocations, Allocs, Spendable, Inv, ReserveEntry
  <1>3. /\ Entry' = Entry \cup {id} /\ id \notin Entry
        /\ entries'[id].state = "reserved" /\ entries'[id].alloc = alloc
        /\ \A e \in Entry : entries'[e] = entries[e]
    <2>1. entries \in Seq(EntryRow(Allocs)) /\ Len(entries) \in Nat /\ Entry = 1..Len(entries)
      BY <1>2, EntryTypes DEF TypeOK, EntryRow
    <2> QED
      BY <1>0, <1>1, <2>1 DEF Entry
  <1>4. AllocsKept
    BY <1>3 DEF AllocsKept
  <1> PICK H : H = HeldEntries
    OBVIOUS
  <1> PICK C : C = CapturedEntries
    OBVIOUS
  <1> PICK P : P = PaidEntries
    OBVIOUS
  <1>5. /\ HeldEntries' = H \cup {id} /\ CapturedEntries' = C /\ PaidEntries' = P
        /\ H \in SUBSET Entry /\ C \in SUBSET Entry /\ P \in SUBSET Entry /\ id \notin H
    <2>1. HeldEntries' = H \cup {id} /\ CapturedEntries' = C
      BY <1>3 DEF HeldEntries, Held, CapturedEntries
    <2>2. PaidEntries' = P
      BY <1>2 DEF PaidEntries
    <2> QED
      BY <1>3, <2>1, <2>2, Kinds
  <1>6. ASSUME NEW l \in DOMAIN lots
        PROVE  /\ Units(l, "reserved")' = TakenFrom(l, HeldEntries)'
               /\ Units(l, "consumed")' = TakenFrom(l, CapturedEntries)'
               /\ Unplayed(l)' = Unplayed(l)
               /\ TakenFrom(l, PaidEntries)' = TakenFrom(l, PaidEntries)
    <2>1. Share(l)'[id] = Got(alloc, l) /\ Got(alloc, l) \in Nat
      BY <1>2, <1>3, GotType DEF Share, Got
    <2>2. SumFunctionOnSet(Share(l)', H \cup {id}) = TakenFrom(l, H) + Got(alloc, l)
      BY <1>2, <1>4, <1>5, <2>1, TakenGrows
    <2>3. /\ SumFunctionOnSet(Share(l)', C) = TakenFrom(l, C)
          /\ SumFunctionOnSet(Share(l)', P) = TakenFrom(l, P)
      BY <1>2, <1>4, <1>5, TakenKept
    <2>4. /\ TakenFrom(l, HeldEntries)' = TakenFrom(l, H) + Got(alloc, l)
          /\ TakenFrom(l, CapturedEntries)' = TakenFrom(l, C)
          /\ TakenFrom(l, PaidEntries)' = TakenFrom(l, P)
      BY <1>5, <2>2, <2>3, Zenon DEF TakenFrom
    <2>5. Units(l, "reserved") = TakenFrom(l, H) /\ Units(l, "consumed") = TakenFrom(l, C)
      BY DEF HoldsBacked
    <2>6. \A b \in Buckets : Units(l, b)' =
            IF b = "available" THEN Units(l, b) - Got(alloc, l)
            ELSE IF b = "reserved" THEN Units(l, b) + Got(alloc, l) ELSE Units(l, b)
      BY <1>1, <1>2, MovedAllUnits DEF Units, Buckets
    <2>7. \A b \in Buckets : Units(l, b) \in Nat
      BY <1>2, LotNumbers
    <2>8. Unplayed(l)' = Unplayed(l)
      BY <2>1, <2>6, <2>7 DEF Unplayed, Buckets
    <2> QED
      BY <2>4, <2>5, <2>6, <2>8 DEF Buckets
  <1>7. DOMAIN lots' = DOMAIN lots
    BY <1>1 DEF MovedAll
  <1> QED
    BY <1>6, <1>7 DEF HoldsBacked, Accounted

LEMMA StartBalances ==
    ASSUME Inv, HoldsBacked, NEW now \in Nows, NEW e \in Entry, StartPlay(e, now)
    PROVE  HoldsBacked' /\ Accounted' = Accounted
  <1>0. PICK id : id = Len(plays) + 1
    OBVIOUS
  <1> DEFINE row == [entry |-> e, voided |-> FALSE, refunded |-> FALSE]
  <1>1. /\ lots' = MovedAll(entries[e].alloc, "reserved", "consumed")
        /\ entries' = [entries EXCEPT ![e].state = "captured", ![e].play = id]
        /\ plays' = Append(plays, row) /\ e \in HeldEntries
    BY <1>0 DEF StartPlay, Settleable, HeldEntries
  <1> PICK alloc : alloc = entries[e].alloc
    OBVIOUS
  <1>2. TypeOK /\ alloc \in Allocs /\ entries[e] \in EntryRow(Allocs)
    BY EntryTypes DEF Inv
  <1>3. /\ Entry' = Entry /\ entries'[e].state = "captured" /\ entries'[e].alloc = alloc
        /\ \A d \in Entry \ {e} : entries'[d] = entries[d]
    BY <1>1, <1>2 DEF Entry, EntryRow
  <1>4. AllocsKept
    BY <1>3 DEF AllocsKept
  <1> PICK H : H = HeldEntries
    OBVIOUS
  <1> PICK C : C = CapturedEntries
    OBVIOUS
  <1> PICK P : P = PaidEntries
    OBVIOUS
  <1>5. /\ HeldEntries' = H \ {e} /\ CapturedEntries' = C \cup {e} /\ PaidEntries' = P \cup {e}
        /\ H \in SUBSET Entry /\ C \in SUBSET Entry /\ P \in SUBSET Entry
        /\ e \in H /\ e \notin C /\ e \notin P /\ H \ {e} \in SUBSET Entry
    <2>1. HeldEntries' = H \ {e} /\ CapturedEntries' = C \cup {e}
      BY <1>3 DEF HeldEntries, Held, CapturedEntries
    <2>2. PaidEntries' = P \cup {e}
      <3>1. plays \in Seq(PlayRow) /\ Len(plays) \in Nat /\ DOMAIN plays = 1..Len(plays)
        BY <1>2, PlayTypes DEF TypeOK, PlayRow
      <3>2. /\ DOMAIN plays' = DOMAIN plays \cup {id} /\ plays'[id] = row
            /\ \A p \in DOMAIN plays : plays'[p] = plays[p]
        BY <1>0, <1>1, <3>1
      <3> QED
        BY <3>2 DEF PaidEntries
    <2> QED
      BY <1>1, <2>1, <2>2, Kinds
  <1>6. ASSUME NEW l \in DOMAIN lots
        PROVE  /\ Units(l, "reserved")' = TakenFrom(l, HeldEntries)'
               /\ Units(l, "consumed")' = TakenFrom(l, CapturedEntries)'
               /\ Unplayed(l)' + TakenFrom(l, PaidEntries)' = Unplayed(l) + TakenFrom(l, PaidEntries)
    <2>1. /\ Share(l)[e] = Got(alloc, l) /\ Share(l)'[e] = Got(alloc, l) /\ Got(alloc, l) \in Nat
      BY <1>2, <1>3, GotType DEF Share, Got
    <2>2. /\ SumFunctionOnSet(Share(l)', C \cup {e}) = TakenFrom(l, C) + Got(alloc, l)
          /\ SumFunctionOnSet(Share(l)', P \cup {e}) = TakenFrom(l, P) + Got(alloc, l)
      BY <1>2, <1>4, <1>5, <2>1, TakenGrows
    <2>3. SumFunctionOnSet(Share(l)', H \ {e}) = TakenFrom(l, H) - Got(alloc, l)
      <3>1. SumFunctionOnSet(Share(l)', H \ {e}) = TakenFrom(l, H \ {e})
        BY <1>2, <1>4, <1>5, TakenKept
      <3>2. TakenFrom(l, H \ {e}) = TakenFrom(l, H) - Share(l)[e]
        BY <1>2, <1>5, TakenMinus
      <3> QED
        BY <2>1, <3>1, <3>2
    <2>4. /\ TakenFrom(l, HeldEntries)' = TakenFrom(l, H) - Got(alloc, l)
          /\ TakenFrom(l, CapturedEntries)' = TakenFrom(l, C) + Got(alloc, l)
          /\ TakenFrom(l, PaidEntries)' = TakenFrom(l, P) + Got(alloc, l)
      BY <1>5, <2>2, <2>3, Zenon DEF TakenFrom
    <2>5. Units(l, "reserved") = TakenFrom(l, H) /\ Units(l, "consumed") = TakenFrom(l, C)
      BY DEF HoldsBacked
    <2>6. \A b \in Buckets : Units(l, b)' =
            IF b = "reserved" THEN Units(l, b) - Got(alloc, l)
            ELSE IF b = "consumed" THEN Units(l, b) + Got(alloc, l) ELSE Units(l, b)
      BY <1>1, <1>2, MovedAllUnits DEF Units, Buckets
    <2>7. TakenFrom(l, P) \in Nat /\ \A b \in Buckets : Units(l, b) \in Nat
      BY <1>2, <1>5, LotNumbers, TakenTypes
    <2>8. Unplayed(l)' = Unplayed(l) - Got(alloc, l)
      BY <2>1, <2>6, <2>7 DEF Unplayed, Buckets
    <2>9. Unplayed(l) \in Nat
      BY <1>2, LotNumbers
    <2> QED
      BY <2>1, <2>4, <2>5, <2>6, <2>7, <2>8, <2>9 DEF Buckets
  <1>7. DOMAIN lots' = DOMAIN lots
    BY <1>1 DEF MovedAll
  <1> QED
    BY <1>6, <1>7 DEF HoldsBacked, Accounted

LEMMA ReleaseBalances ==
    ASSUME Inv, HoldsBacked, NEW now \in Nows, NEW e \in Entry, Release(e, now)
    PROVE  HoldsBacked' /\ Accounted' = Accounted
  <1>1. /\ lots' = GivenBack(entries[e].alloc, now)
        /\ entries' = [entries EXCEPT ![e].state = "released"]
        /\ plays' = plays /\ e \in HeldEntries
    BY DEF Release, Settleable, HeldEntries
  <1> PICK alloc : alloc = entries[e].alloc
    OBVIOUS
  <1>2. TypeOK /\ alloc \in Allocs /\ entries[e] \in EntryRow(Allocs)
    BY EntryTypes DEF Inv
  <1>3. /\ Entry' = Entry /\ entries'[e].state = "released" /\ entries'[e].alloc = alloc
        /\ \A d \in Entry \ {e} : entries'[d] = entries[d]
    BY <1>1, <1>2 DEF Entry, EntryRow
  <1>4. AllocsKept
    BY <1>3 DEF AllocsKept
  <1> PICK H : H = HeldEntries
    OBVIOUS
  <1> PICK C : C = CapturedEntries
    OBVIOUS
  <1> PICK P : P = PaidEntries
    OBVIOUS
  <1>5. /\ HeldEntries' = H \ {e} /\ CapturedEntries' = C /\ PaidEntries' = P
        /\ H \in SUBSET Entry /\ C \in SUBSET Entry /\ P \in SUBSET Entry
        /\ e \in H /\ H \ {e} \in SUBSET Entry
    <2>1. HeldEntries' = H \ {e} /\ CapturedEntries' = C
      BY <1>1, <1>3 DEF HeldEntries, Held, CapturedEntries
    <2>2. PaidEntries' = P
      BY <1>1 DEF PaidEntries
    <2> QED
      BY <1>1, <2>1, <2>2, Kinds
  <1>6. ASSUME NEW l \in DOMAIN lots
        PROVE  /\ Units(l, "reserved")' = TakenFrom(l, HeldEntries)'
               /\ Units(l, "consumed")' = TakenFrom(l, CapturedEntries)'
               /\ Unplayed(l)' = Unplayed(l)
               /\ TakenFrom(l, PaidEntries)' = TakenFrom(l, PaidEntries)
    <2>1. Share(l)[e] = Got(alloc, l) /\ Got(alloc, l) \in Nat
      BY <1>2, GotType DEF Share, Got
    <2>2. SumFunctionOnSet(Share(l)', H \ {e}) = TakenFrom(l, H) - Got(alloc, l)
      <3>1. SumFunctionOnSet(Share(l)', H \ {e}) = TakenFrom(l, H \ {e})
        BY <1>2, <1>4, <1>5, TakenKept
      <3>2. TakenFrom(l, H \ {e}) = TakenFrom(l, H) - Share(l)[e]
        BY <1>2, <1>5, TakenMinus
      <3> QED
        BY <2>1, <3>1, <3>2
    <2>3. /\ SumFunctionOnSet(Share(l)', C) = TakenFrom(l, C)
          /\ SumFunctionOnSet(Share(l)', P) = TakenFrom(l, P)
      BY <1>2, <1>4, <1>5, TakenKept
    <2>4. /\ TakenFrom(l, HeldEntries)' = TakenFrom(l, H) - Got(alloc, l)
          /\ TakenFrom(l, CapturedEntries)' = TakenFrom(l, C)
          /\ TakenFrom(l, PaidEntries)' = TakenFrom(l, P)
      BY <1>5, <2>2, <2>3, Zenon DEF TakenFrom
    <2>5. Units(l, "reserved") = TakenFrom(l, H) /\ Units(l, "consumed") = TakenFrom(l, C)
      BY DEF HoldsBacked
    <2>6. \A b \in Buckets : Units(l, b)' =
            IF b = "reserved" THEN Units(l, b) - Got(alloc, l)
            ELSE IF b = "available" THEN Units(l, b) + Got(alloc, l) ELSE Units(l, b)
      BY <1>1, <1>2, GivenBackUnits DEF Units
    <2>7. \A b \in Buckets : Units(l, b) \in Nat
      BY <1>2, LotNumbers
    <2>8. Unplayed(l)' = Unplayed(l)
      BY <2>1, <2>6, <2>7 DEF Unplayed, Buckets
    <2> QED
      BY <2>4, <2>5, <2>6, <2>8 DEF Buckets
  <1>7. DOMAIN lots' = DOMAIN lots
    BY <1>1 DEF GivenBack
  <1> QED
    BY <1>6, <1>7 DEF HoldsBacked, Accounted

-----------------------------------------------------------------------------
(* Restorations.                                                           *)

\* Every lot goes back to a gift; one that restores another was made with the
\* refund of the play whose entry it names, so an entry that is still paid
\* for was never restored.
Rooted ==
    /\ IsFiniteSet(DOMAIN lots)
    /\ \A l \in DOMAIN lots :
         /\ Len(l) > 0 /\ GiftOf(l) \in DOMAIN Grants
         /\ Len(l) > 1 => \E p \in DOMAIN plays : plays[p].refunded /\ plays[p].entry = l[Len(l)]

Unrefunded == {p \in DOMAIN plays : ~plays[p].refunded}
EntriesOf(P) == {plays[p].entry : p \in P}
RestoredFrom(e) == {RestoredLot(e, k) : k \in DOMAIN entries[e].alloc}

\* A restored lot: its chain, its gift, and that it is new.
LEMMA RestoredIsNew ==
    ASSUME Inv, Rooted, NEW e \in PaidEntries, NEW k \in DOMAIN entries[e].alloc
    PROVE  /\ k \in DOMAIN lots /\ k \in Seq(Nat) /\ e \in Nat /\ e \in Entry
           /\ entries[e].alloc[k] \in Nat \ {0} /\ Got(entries[e].alloc, k) = entries[e].alloc[k]
           /\ RestoredLot(e, k) \notin DOMAIN lots
           /\ Len(RestoredLot(e, k)) > 1
           /\ RestoredLot(e, k)[Len(RestoredLot(e, k))] = e
           /\ SubSeq(RestoredLot(e, k), 1, Len(RestoredLot(e, k)) - 1) = k
           /\ GiftOf(RestoredLot(e, k)) = GiftOf(k)
  <1>1. e \in Entry /\ e \in Nat /\ entries[e].alloc \in Allocs /\ e \in CapturedEntries
    BY Kinds, EntryTypes DEF Inv
  <1>2. /\ k \in DOMAIN lots /\ entries[e].alloc[k] \in Nat \ {0}
        /\ Got(entries[e].alloc, k) = entries[e].alloc[k]
    BY <1>1, GotType DEF Got
  <1>3. k \in Seq(Nat) /\ Len(k) > 0
    BY <1>2 DEF Inv, TypeOK, Rooted
  <1> PICK l : l = RestoredLot(e, k)
    OBVIOUS
  <1>4. /\ l \in Seq(Nat) /\ l[Len(l)] = e /\ SubSeq(l, 1, Len(l) - 1) = k
        /\ Len(l) = Len(k) + 1 /\ l[1] = k[1] /\ Len(k) \in Nat
    <2>1. l \in Seq(Nat) /\ l[Len(l)] = e /\ SubSeq(l, 1, Len(l) - 1) = k
      BY <1>1, <1>3, RestoredChain
    <2>2. Len(l) = Len(k) + 1 /\ l[1] = k[1] /\ Len(k) \in Nat
      BY <1>1, <1>3, AppendProperties DEF RestoredLot
    <2> QED
      BY <2>1, <2>2
  <1>5. Len(l) > 1 /\ GiftOf(l) = GiftOf(k)
    BY <1>3, <1>4 DEF GiftOf
  <1>6. l \notin DOMAIN lots
    <2> SUFFICES ASSUME l \in DOMAIN lots PROVE FALSE
      OBVIOUS
    <2>1. PICK q \in DOMAIN plays : plays[q].refunded /\ plays[q].entry = e
      BY <1>4, <1>5 DEF Rooted
    <2>2. PICK p \in DOMAIN plays : ~plays[p].refunded /\ plays[p].entry = e
      BY DEF PaidEntries
    <2>3. p = entries[e].play /\ q = entries[e].play
      BY <2>1, <2>2 DEF Inv, SettledOnce
    <2> QED
      BY <2>1, <2>2, <2>3
  <1> QED
    BY <1>1, <1>2, <1>3, <1>4, <1>5, <1>6

\* What an entry gets back is new, and each lot it used comes back once.
LEMMA RestoredFromEntry ==
    ASSUME Inv, Rooted, NEW e \in PaidEntries
    PROVE  /\ RestoredFrom(e) \cap DOMAIN lots = {}
           /\ \A d \in PaidEntries : d # e => RestoredFrom(d) \cap RestoredFrom(e) = {}
           /\ \A k, m \in DOMAIN entries[e].alloc : RestoredLot(e, k) = RestoredLot(e, m) => k = m
           /\ DOMAIN entries[e].alloc \subseteq DOMAIN lots
  <1>1. RestoredFrom(e) \cap DOMAIN lots = {}
    BY RestoredIsNew DEF RestoredFrom
  <1>2. ASSUME NEW d \in PaidEntries, NEW l \in RestoredFrom(d) PROVE l[Len(l)] = d
    BY RestoredIsNew DEF RestoredFrom
  <1>3. ASSUME NEW k \in DOMAIN entries[e].alloc, NEW m \in DOMAIN entries[e].alloc,
               RestoredLot(e, k) = RestoredLot(e, m)
        PROVE  k = m
    <2>1. /\ SubSeq(RestoredLot(e, k), 1, Len(RestoredLot(e, k)) - 1) = k
          /\ SubSeq(RestoredLot(e, m), 1, Len(RestoredLot(e, m)) - 1) = m
      BY RestoredIsNew
    <2> QED
      BY <1>3, <2>1
  <1>4. DOMAIN entries[e].alloc \subseteq DOMAIN lots
    BY RestoredIsNew
  <1> QED
    BY <1>1, <1>2, <1>3, <1>4

\* Plays are refunded for what they took: what each gift's lots account for
\* stays the same, whichever of its plays are refunded together.
Account(T) ==
    [l \in DOMAIN lots' |->
       IF l \in DOMAIN lots THEN Unplayed(l) + TakenFrom(l, PaidEntries \ T) ELSE Unplayed(l)']
WithRestored(g, T) ==
    {l \in DOMAIN lots \cup UNION {RestoredFrom(e) : e \in T} : GiftOf(l) = g}

LEMMA RestoreEffect ==
    ASSUME Inv, Rooted, NEW voided, NEW owed \in SUBSET Unrefunded,
           Leave(voided, owed), Restore(owed), entries' = entries
    PROVE  /\ EntriesOf(owed) \in SUBSET PaidEntries
           /\ PaidEntries' = PaidEntries \ EntriesOf(owed)
           /\ DOMAIN lots' = DOMAIN lots \cup UNION {RestoredFrom(e) : e \in EntriesOf(owed)}
           /\ \A l \in DOMAIN lots : lots'[l] = lots[l]
           /\ \A e \in EntriesOf(owed) : \A k \in DOMAIN entries[e].alloc :
                /\ RestoredLot(e, k) \in DOMAIN lots'
                /\ lots'[RestoredLot(e, k)] = Granted(entries[e].alloc[k], lots[k].expires)
  <1>1. EntriesOf(owed) \in SUBSET PaidEntries
    BY DEF EntriesOf, PaidEntries, Unrefunded
  <1>2. PaidEntries' = PaidEntries \ EntriesOf(owed)
    <2>1. /\ DOMAIN plays' = DOMAIN plays
          /\ \A p \in DOMAIN plays : plays'[p].entry = plays[p].entry
      BY LeaveType DEF Inv
    <2>2. \A p \in DOMAIN plays : plays'[p].refunded <=> plays[p].refunded \/ p \in owed
      <3> SUFFICES ASSUME NEW p \in DOMAIN plays
                   PROVE  plays'[p].refunded <=> plays[p].refunded \/ p \in owed
        OBVIOUS
      <3>1. plays[p] \in PlayRow
        BY PlayTypes DEF Inv
      <3> QED
        BY <3>1 DEF Leave, PlayRow
    <2>3. \A p, q \in DOMAIN plays : plays[p].entry = plays[q].entry => p = q
      BY DEF Inv, SettledOnce
    <2> QED
      BY <2>1, <2>2, <2>3 DEF PaidEntries, EntriesOf, Unrefunded
  <1>3. RestorationsOf(owed) = UNION {RestoredFrom(e) : e \in EntriesOf(owed)}
    BY DEF RestorationsOf, RestoredFrom, EntriesOf
  <1>4. DOMAIN lots' = DOMAIN lots \cup UNION {RestoredFrom(e) : e \in EntriesOf(owed)}
    BY <1>3 DEF Restore
  <1>5. \A l \in DOMAIN lots : lots'[l] = lots[l]
    BY DEF Restore
  <1>6. ASSUME NEW e \in EntriesOf(owed), NEW k \in DOMAIN entries[e].alloc
        PROVE  /\ RestoredLot(e, k) \in DOMAIN lots'
               /\ lots'[RestoredLot(e, k)] = Granted(entries[e].alloc[k], lots[k].expires)
    <2> PICK l : l = RestoredLot(e, k)
      OBVIOUS
    <2>1. l \in DOMAIN lots'
      BY <1>4 DEF RestoredFrom
    <2>2. l \notin DOMAIN lots /\ l[Len(l)] = e /\ SubSeq(l, 1, Len(l) - 1) = k
      BY <1>1, RestoredIsNew
    <2>3. l \in DOMAIN lots \cup RestorationsOf(owed)
      BY <1>3, <1>4, <2>1
    <2>4. lots'[l] = Granted(entries[e].alloc[k], lots[k].expires)
      BY <2>2, <2>3 DEF Restore
    <2> QED
      BY <2>1, <2>4
  <1> QED
    BY <1>1, <1>2, <1>4, <1>5, <1>6

\* The same, in the words of Account: lots that were there before keep what
\* is not played, and a new one holds what its entry took.
LEMMA RestoredUnits ==
    ASSUME Inv, Rooted, NEW voided, NEW owed \in SUBSET Unrefunded,
           Leave(voided, owed), Restore(owed), entries' = entries
    PROVE  /\ \A l \in DOMAIN lots : \A b \in Buckets : Units(l, b)' = Units(l, b)
           /\ \A e \in EntriesOf(owed) : \A k \in DOMAIN entries[e].alloc :
                /\ Unplayed(RestoredLot(e, k))' = entries[e].alloc[k]
                /\ Units(RestoredLot(e, k), "reserved")' = 0
                /\ Units(RestoredLot(e, k), "consumed")' = 0
  <1>1. \A l \in DOMAIN lots : \A b \in Buckets : Units(l, b)' = Units(l, b)
    BY RestoreEffect DEF Units
  <1>2. ASSUME NEW e \in EntriesOf(owed), NEW k \in DOMAIN entries[e].alloc
        PROVE  /\ Unplayed(RestoredLot(e, k))' = entries[e].alloc[k]
               /\ Units(RestoredLot(e, k), "reserved")' = 0
               /\ Units(RestoredLot(e, k), "consumed")' = 0
    <2> PICK n : n = entries[e].alloc[k]
      OBVIOUS
    <2> PICK l : l = RestoredLot(e, k)
      OBVIOUS
    <2>1. e \in PaidEntries
      BY RestoreEffect
    <2>2. n \in Nat
      BY <2>1, RestoredIsNew
    <2>3. lots'[l] = Granted(n, lots[k].expires)
      BY RestoreEffect
    <2>4. /\ Units(l, "available")' = n
          /\ \A b \in {"reserved", "reversed", "expired", "consumed"} : Units(l, b)' = 0
      BY <2>3 DEF Units, Granted, Buckets
    <2> QED
      BY <2>2, <2>4 DEF Unplayed
  <1> QED
    BY <1>1, <1>2

\* The values an account is made of.
LEMMA AccountTypes ==
    ASSUME Inv, Rooted, NEW voided, NEW owed \in SUBSET Unrefunded,
           Leave(voided, owed), Restore(owed), entries' = entries,
           NEW T \in SUBSET EntriesOf(owed)
    PROVE  /\ \A l \in DOMAIN lots : /\ Account(T)[l] = Unplayed(l) + TakenFrom(l, PaidEntries \ T)
                                     /\ Account(T)[l] \in Nat
           /\ \A e \in EntriesOf(owed) : \A k \in DOMAIN entries[e].alloc :
                Account(T)[RestoredLot(e, k)] = entries[e].alloc[k]
  <1>1. \A l \in DOMAIN lots : /\ Account(T)[l] = Unplayed(l) + TakenFrom(l, PaidEntries \ T)
                               /\ Account(T)[l] \in Nat
    <2> TAKE l \in DOMAIN lots
    <2>1. l \in DOMAIN lots'
      BY RestoreEffect
    <2>2. Account(T)[l] = Unplayed(l) + TakenFrom(l, PaidEntries \ T)
      BY <2>1 DEF Account
    <2>3. PaidEntries \ T \in SUBSET Entry /\ TypeOK
      BY Kinds DEF Inv
    <2>4. TakenFrom(l, PaidEntries \ T) \in Nat /\ Unplayed(l) \in Nat
      BY <2>3, TakenTypes, LotNumbers
    <2> QED
      BY <2>2, <2>4
  <1>2. ASSUME NEW e \in EntriesOf(owed), NEW k \in DOMAIN entries[e].alloc
        PROVE  Account(T)[RestoredLot(e, k)] = entries[e].alloc[k]
    <2> PICK l : l = RestoredLot(e, k)
      OBVIOUS
    <2>1. e \in PaidEntries /\ l \in DOMAIN lots' /\ Unplayed(l)' = entries[e].alloc[k]
      BY RestoreEffect, RestoredUnits
    <2>2. l \notin DOMAIN lots
      BY <2>1, RestoredIsNew
    <2> QED
      BY <2>1, <2>2 DEF Account
  <1> QED
    BY <1>1, <1>2

\* One more entry is paid back.
LEMMA AccountStep ==
    ASSUME Inv, Rooted, NEW voided, NEW owed \in SUBSET Unrefunded,
           Leave(voided, owed), Restore(owed), entries' = entries,
           NEW T \in SUBSET EntriesOf(owed), NEW e \in EntriesOf(owed), e \notin T,
           NEW g, IsFiniteSet(WithRestored(g, T))
    PROVE  SumFunctionOnSet(Account(T \cup {e}), WithRestored(g, T \cup {e})) =
             SumFunctionOnSet(Account(T), WithRestored(g, T))
  <1>a. PICK alloc : alloc = entries[e].alloc
    OBVIOUS
  <1>s. PICK S : S = WithRestored(g, T)
    OBVIOUS
  <1>k. PICK K : K = {k \in DOMAIN alloc : GiftOf(k) = g}
    OBVIOUS
  <1>h. PICK h : h = [k \in DOMAIN alloc |-> RestoredLot(e, k)]
    OBVIOUS
  <1>b. PICK before : before = Account(T)
    OBVIOUS
  <1>c. PICK after : after = Account(T \cup {e})
    OBVIOUS
  <1>1. /\ T \in SUBSET PaidEntries /\ e \in PaidEntries
        /\ T \cup {e} \in SUBSET EntriesOf(owed) /\ EntriesOf(owed) \in SUBSET PaidEntries
    BY RestoreEffect
  <1>2. /\ DOMAIN alloc \subseteq DOMAIN lots /\ K \in SUBSET S
        /\ \A k \in DOMAIN alloc : h[k] \notin DOMAIN lots /\ h[k] = RestoredLot(e, k)
        /\ \A x, y \in K : h[x] = h[y] => x = y
    BY <1>a, <1>s, <1>k, <1>h, <1>1, RestoredFromEntry, RestoredIsNew DEF WithRestored
  <1>3. \A x \in K : h[x] \notin S
    <2> SUFFICES ASSUME NEW x \in K, h[x] \in S PROVE FALSE
      OBVIOUS
    <2>1. PICK d \in T : h[x] \in RestoredFrom(d)
      BY <1>s, <1>k, <1>2 DEF WithRestored
    <2>2. h[x] \in RestoredFrom(e)
      BY <1>a, <1>k, <1>2 DEF RestoredFrom
    <2>3. d # e /\ d \in PaidEntries
      BY <1>1
    <2> QED
      BY <1>1, <2>1, <2>2, <2>3, RestoredFromEntry
  <1>4. ASSUME NEW l \in DOMAIN lots
        PROVE  before[l] \in Nat /\ after[l] \in Nat /\ before[l] = after[l] + Got(alloc, l)
    <2> PICK P \in SUBSET Entry : P = PaidEntries \ T
      BY Kinds
    <2>1. PaidEntries \ (T \cup {e}) = P \ {e} /\ e \in P /\ TypeOK
      BY <1>1 DEF Inv
    <2>2. TakenFrom(l, P \ {e}) = TakenFrom(l, P) - Share(l)[e]
      BY <2>1, TakenMinus
    <2>3. Share(l)[e] = Got(alloc, l) /\ Share(l)[e] \in Nat /\ TakenFrom(l, P) \in Nat
      BY <1>a, <2>1, ShareType, TakenTypes
    <2>4. Unplayed(l) \in Nat
      BY <2>1, LotNumbers
    <2>5. before[l] = Unplayed(l) + TakenFrom(l, P) /\ before[l] \in Nat
      BY <1>b, AccountTypes
    <2>6. after[l] = Unplayed(l) + TakenFrom(l, PaidEntries \ (T \cup {e})) /\ after[l] \in Nat
      BY <1>c, <1>1, AccountTypes
    <2>7. after[l] = Unplayed(l) + TakenFrom(l, P \ {e})
      BY <2>1, <2>6, Zenon
    <2> QED
      BY <2>2, <2>3, <2>4, <2>5, <2>6, <2>7
  <1>5. ASSUME NEW l \in S, l \notin DOMAIN lots
        PROVE  before[l] \in Nat /\ after[l] = before[l]
    <2>1. PICK d \in T : l \in RestoredFrom(d)
      BY <1>s, <1>5 DEF WithRestored
    <2>2. PICK k \in DOMAIN entries[d].alloc : l = RestoredLot(d, k)
      BY <2>1 DEF RestoredFrom
    <2>3. before[l] = entries[d].alloc[k] /\ after[l] = entries[d].alloc[k]
      BY <1>b, <1>c, <1>1, <2>2, AccountTypes
    <2>4. entries[d].alloc[k] \in Nat
      BY <1>1, RestoredIsNew
    <2> QED
      BY <2>3, <2>4
  <1>6. ASSUME NEW k \in DOMAIN alloc
        PROVE  after[h[k]] = alloc[k] /\ alloc[k] \in Nat /\ Got(alloc, k) = alloc[k]
    <2>1. after[RestoredLot(e, k)] = entries[e].alloc[k]
      BY <1>a, <1>c, <1>1, AccountTypes
    <2>2. entries[e].alloc[k] \in Nat /\ Got(entries[e].alloc, k) = entries[e].alloc[k]
      BY <1>a, <1>1, RestoredIsNew
    <2> QED
      BY <1>a, <1>2, <2>1, <2>2
  <1>7. /\ \A x \in S : before[x] \in Int /\ after[x] \in Int
        /\ \A x \in S \ K : after[x] = before[x]
        /\ \A x \in K : after[h[x]] \in Int /\ before[x] = after[x] + after[h[x]]
    <2>1. ASSUME NEW x \in S PROVE before[x] \in Int /\ after[x] \in Int
      <3>1. CASE x \in DOMAIN lots
        BY <1>4, <3>1
      <3>2. CASE x \notin DOMAIN lots
        BY <1>5, <3>2
      <3> QED
        BY <3>1, <3>2
    <2>2. \A x \in S \ K : after[x] = before[x]
      <3> SUFFICES ASSUME NEW x \in S \ K PROVE after[x] = before[x]
        OBVIOUS
      <3>1. CASE x \in DOMAIN lots
        <4>1. GiftOf(x) = g
          BY <1>s DEF WithRestored
        <4>2. Got(alloc, x) = 0
          BY <1>k, <4>1 DEF Got
        <4>3. before[x] \in Nat /\ after[x] \in Nat /\ before[x] = after[x] + Got(alloc, x)
          BY <1>4, <3>1
        <4> QED
          BY <4>2, <4>3
      <3>2. CASE x \notin DOMAIN lots
        BY <1>5, <3>2
      <3> QED
        BY <3>1, <3>2
    <2>3. ASSUME NEW x \in K PROVE after[h[x]] \in Int /\ before[x] = after[x] + after[h[x]]
      <3>1. x \in DOMAIN alloc /\ x \in DOMAIN lots
        BY <1>k, <1>2
      <3>2. before[x] \in Nat /\ after[x] \in Nat /\ before[x] = after[x] + Got(alloc, x)
        BY <1>4, <3>1
      <3> QED
        BY <1>6, <3>1, <3>2
    <2> QED
      BY <2>1, <2>2, <2>3
  <1>m. PICK M : M = {h[x] : x \in K}
    OBVIOUS
  <1>8. SumFunctionOnSet(after, S \cup M) = SumFunctionOnSet(before, S)
    <2>1. IsFiniteSet(S)
      BY <1>s
    <2>2. K \in SUBSET S /\ \A x, y \in K : h[x] = h[y] => x = y
      BY <1>2
    <2>3. \A x \in K : h[x] \in M
      BY <1>m
    <2>4. \A y \in M : \E x \in K : y = h[x]
      BY <1>m
    <2>5. Splits(before, after, S, K, h, M)
      BY <1>3, <1>7, <2>1, <2>2, <2>3, <2>4 DEF Splits
    <2> QED
      BY <2>5, SumSplit
  <1>9. WithRestored(g, T \cup {e}) = S \cup {h[x] : x \in K}
    <2>1. \A k \in DOMAIN alloc : GiftOf(h[k]) = GiftOf(k)
      BY <1>a, <1>1, <1>2, RestoredIsNew
    <2>2. RestoredFrom(e) = {h[k] : k \in DOMAIN alloc}
      BY <1>a, <1>2 DEF RestoredFrom
    <2>3. WithRestored(g, T \cup {e}) = S \cup {l \in RestoredFrom(e) : GiftOf(l) = g}
      BY <1>s DEF WithRestored
    <2>4. {l \in RestoredFrom(e) : GiftOf(l) = g} = {h[x] : x \in K}
      BY <1>k, <2>1, <2>2
    <2> QED
      BY <2>3, <2>4
  <1> QED
    BY <1>s, <1>b, <1>c, <1>m, <1>8, <1>9, Zenon

LEMMA RestoreConserves ==
    ASSUME Inv, Rooted, NoNewEntitlement, NEW voided, NEW owed \in SUBSET Unrefunded,
           Leave(voided, owed), Restore(owed), entries' = entries
    PROVE  IsFiniteSet(DOMAIN lots') /\ NoNewEntitlement'
  <1> PICK E : E = EntriesOf(owed)
    OBVIOUS
  <1> DEFINE New(T) == UNION {RestoredFrom(e) : e \in T}
             Q == {T \in SUBSET E : /\ IsFiniteSet(New(T))
                                    /\ \A g \in DOMAIN Grants :
                                         SumFunctionOnSet(Account(T), WithRestored(g, T)) = Grants[g].points}
  <1>1. E \in SUBSET PaidEntries /\ IsFiniteSet(E) /\ TypeOK
    <2>1. E \in SUBSET PaidEntries /\ E \in SUBSET Entry /\ TypeOK
      BY RestoreEffect, Kinds DEF Inv
    <2> QED
      BY <2>1, TakenTypes
  <1>2. ASSUME NEW T \in SUBSET E, IsFiniteSet(New(T)), NEW g
        PROVE  IsFiniteSet(WithRestored(g, T))
    <2>1. IsFiniteSet(DOMAIN lots \cup New(T))
      BY <1>2, FS_Union DEF Rooted
    <2>2. WithRestored(g, T) \subseteq DOMAIN lots \cup New(T)
      BY DEF WithRestored
    <2> QED
      BY <2>1, <2>2, FS_Subset
  <1>3. {} \in Q
    <2>1. New({}) = {}
      OBVIOUS
    <2>2. IsFiniteSet(New({}))
      BY <2>1, FS_EmptySet
    <2>3. ASSUME NEW g \in DOMAIN Grants
          PROVE  SumFunctionOnSet(Account({}), WithRestored(g, {})) = Grants[g].points
      <3>1. WithRestored(g, {}) = LotsOf(g)
        BY DEF WithRestored, LotsOf
      <3>2. IsFiniteSet(LotsOf(g))
        BY FS_Subset DEF LotsOf, Rooted
      <3>3. \A l \in LotsOf(g) : Account({})[l] = Accounted[l]
        <4> TAKE l \in LotsOf(g)
        <4>1. l \in DOMAIN lots /\ PaidEntries \ {} = PaidEntries
          BY DEF LotsOf
        <4>2. Account({})[l] = Unplayed(l) + TakenFrom(l, PaidEntries \ {})
          BY <4>1, AccountTypes
        <4>3. Account({})[l] = Unplayed(l) + TakenFrom(l, PaidEntries)
          BY <4>1, <4>2, Zenon
        <4> QED
          BY <4>1, <4>3 DEF Accounted
      <3>4. SumFunctionOnSet(Account({}), LotsOf(g)) = SumFunctionOnSet(Accounted, LotsOf(g))
        <4> PICK f : f = Account({})
          OBVIOUS
        <4> QED
          BY <3>2, <3>3, SumEqual
      <3>5. SumFunctionOnSet(Accounted, LotsOf(g)) = Grants[g].points
        BY DEF NoNewEntitlement
      <3> QED
        BY <3>1, <3>4, <3>5, Zenon
    <2> QED
      BY <2>2, <2>3
  <1>4. ASSUME NEW T \in Q, NEW e \in E \ T PROVE T \cup {e} \in Q
    <2>1. IsFiniteSet(New(T)) /\ T \in SUBSET E /\ T \cup {e} \in SUBSET E
      OBVIOUS
    <2>2. IsFiniteSet(New(T \cup {e}))
      <3>1. New(T \cup {e}) = New(T) \cup RestoredFrom(e)
        OBVIOUS
      <3>2. IsFiniteSet(RestoredFrom(e))
        <4>d. PICK D : D = DOMAIN entries[e].alloc
          OBVIOUS
        <4>h. PICK h : h = [k \in D |-> RestoredLot(e, k)]
          OBVIOUS
        <4>1. IsFiniteSet(D) /\ \A x, y \in D : h[x] = h[y] => x = y
          BY <1>1, <4>d, <4>h, RestoredFromEntry, FS_Subset DEF Rooted
        <4>2. RestoredFrom(e) = {h[k] : k \in D}
          BY <4>d, <4>h DEF RestoredFrom
        <4>3. IsFiniteSet({h[k] : k \in D})
          BY <4>1, ImageFinite
        <4> QED
          BY <4>2, <4>3, Zenon
      <3>3. \A X, Y : IsFiniteSet(X) /\ IsFiniteSet(Y) => IsFiniteSet(X \cup Y)
        BY FS_Union
      <3>4. IsFiniteSet(New(T) \cup RestoredFrom(e))
        BY <2>1, <3>2, <3>3, Zenon
      <3> QED
        BY <3>1, <3>4, Zenon
    <2>3. ASSUME NEW g \in DOMAIN Grants
          PROVE  SumFunctionOnSet(Account(T \cup {e}), WithRestored(g, T \cup {e})) = Grants[g].points
      <3>1. SumFunctionOnSet(Account(T \cup {e}), WithRestored(g, T \cup {e})) =
              SumFunctionOnSet(Account(T), WithRestored(g, T))
        BY <1>2, <2>1, AccountStep
      <3> QED
        BY <3>1
    <2> QED
      BY <2>1, <2>2, <2>3
  <1>5. E \in Q
    <2> HIDE DEF Q
    <2>1. Q \in SUBSET SUBSET E
      BY DEF Q
    <2>2. \A T \in SUBSET E : T \in Q
      BY <1>1, <1>3, <1>4, <2>1, SetInduction
    <2> QED
      BY <2>2
  <1>6. DOMAIN lots' = DOMAIN lots \cup New(E)
    BY RestoreEffect
  <1>7. IsFiniteSet(DOMAIN lots')
    <2>1. \A X, Y : IsFiniteSet(X) /\ IsFiniteSet(Y) => IsFiniteSet(X \cup Y)
      BY FS_Union
    <2>2. IsFiniteSet(New(E)) /\ IsFiniteSet(DOMAIN lots)
      BY <1>5 DEF Rooted
    <2>3. IsFiniteSet(DOMAIN lots \cup New(E))
      BY <2>1, <2>2, Zenon
    <2> QED
      BY <1>6, <2>3, Zenon
  <1>8. ASSUME NEW g \in DOMAIN Grants
        PROVE  SumFunctionOnSet(Accounted', LotsOf(g)') = Grants[g].points
    <2>1. LotsOf(g)' = WithRestored(g, E) /\ IsFiniteSet(WithRestored(g, E))
      BY <1>2, <1>5, <1>6 DEF LotsOf, WithRestored
    <2>2. ASSUME NEW l \in WithRestored(g, E) PROVE Accounted'[l] = Account(E)[l]
      <3>1. PaidEntries' = PaidEntries \ E /\ Share(l)' = Share(l)
        BY RestoreEffect DEF Share, Entry
      <3>2. TakenFrom(l, PaidEntries)' = TakenFrom(l, PaidEntries \ E)
        BY <3>1, Zenon DEF TakenFrom
      <3>3. l \in DOMAIN lots'
        BY <1>6 DEF WithRestored
      <3>4. Accounted'[l] = Unplayed(l)' + TakenFrom(l, PaidEntries \ E)
        BY <3>2, <3>3 DEF Accounted
      <3>5. CASE l \in DOMAIN lots
        <4>1. Unplayed(l)' = Unplayed(l)
          BY <3>5, RestoredUnits DEF Unplayed, Buckets
        <4> QED
          BY <3>4, <3>5, <4>1, AccountTypes
      <3>6. CASE l \notin DOMAIN lots
        <4>1. PICK e \in E : \E k \in DOMAIN entries[e].alloc : l = RestoredLot(e, k)
          BY <3>6 DEF WithRestored, RestoredFrom
        <4>2. PICK k \in DOMAIN entries[e].alloc : l = RestoredLot(e, k)
          BY <4>1
        <4>3. Unplayed(l)' = entries[e].alloc[k] /\ Account(E)[l] = entries[e].alloc[k]
          BY <4>2, RestoredUnits, AccountTypes
        <4>4. entries[e].alloc[k] \in Nat
          BY <1>1, RestoredIsNew
        <4>5. TakenFrom(l, PaidEntries \ E) = 0
          BY <1>1, <3>6, Kinds, TakenTypes
        <4> QED
          BY <3>4, <4>3, <4>4, <4>5
      <3> QED
        BY <3>5, <3>6
    <2>3. SumFunctionOnSet(Accounted', WithRestored(g, E)) = SumFunctionOnSet(Account(E), WithRestored(g, E))
      <3> PICK S : S = WithRestored(g, E)
        OBVIOUS
      <3> PICK f : f = Account(E)
        OBVIOUS
      <3> PICK z : z = Accounted'
        OBVIOUS
      <3>1. IsFiniteSet(S) /\ \A l \in S : z[l] = f[l]
        BY <2>1, <2>2
      <3>2. SumFunctionOnSet(z, S) = SumFunctionOnSet(f, S)
        BY <3>1, SumEqual
      <3> QED
        BY <3>2
    <2>4. SumFunctionOnSet(Account(E), WithRestored(g, E)) = Grants[g].points
      BY <1>5
    <2> QED
      BY <2>1, <2>3, <2>4, Zenon
  <1> QED
    BY <1>7, <1>8 DEF NoNewEntitlement

\* What a restoration does to the lots there were, and to those it makes.
LEMMA RestoreBalances ==
    ASSUME Inv, Rooted, HoldsBacked, NEW voided, NEW owed \in SUBSET Unrefunded,
           Leave(voided, owed), Restore(owed), entries' = entries,
           IsFiniteSet(DOMAIN lots')
    PROVE  HoldsBacked' /\ Rooted'
  <1>1. /\ HeldEntries' = HeldEntries /\ CapturedEntries' = CapturedEntries
        /\ \A l : Share(l)' = Share(l)
    BY DEF HeldEntries, CapturedEntries, Share, Entry, Held
  <1>2. \A l : /\ TakenFrom(l, HeldEntries)' = TakenFrom(l, HeldEntries)
               /\ TakenFrom(l, CapturedEntries)' = TakenFrom(l, CapturedEntries)
    BY <1>1, Zenon DEF TakenFrom
  <1>3. ASSUME NEW l \in DOMAIN lots', l \notin DOMAIN lots
        PROVE  \E e \in EntriesOf(owed) : \E k \in DOMAIN entries[e].alloc : l = RestoredLot(e, k)
    <2>1. DOMAIN lots' = DOMAIN lots \cup UNION {RestoredFrom(e) : e \in EntriesOf(owed)}
      BY RestoreEffect
    <2>2. PICK e \in EntriesOf(owed) : l \in RestoredFrom(e)
      BY <1>3, <2>1
    <2> QED
      BY <2>2 DEF RestoredFrom
  <1>4. HoldsBacked'
    <2> SUFFICES ASSUME NEW l \in DOMAIN lots'
                 PROVE  /\ Units(l, "reserved")' = TakenFrom(l, HeldEntries)
                        /\ Units(l, "consumed")' = TakenFrom(l, CapturedEntries)
      BY <1>2 DEF HoldsBacked
    <2>1. CASE l \in DOMAIN lots
      BY <2>1, RestoredUnits DEF HoldsBacked, Buckets
    <2>2. CASE l \notin DOMAIN lots
      <3>1. Units(l, "reserved")' = 0 /\ Units(l, "consumed")' = 0
        BY <1>3, <2>2, RestoredUnits
      <3>2. TakenFrom(l, HeldEntries) = 0 /\ TakenFrom(l, CapturedEntries) = 0
        BY <2>2, Kinds, TakenTypes DEF Inv
      <3> QED
        BY <3>1, <3>2
    <2> QED
      BY <2>1, <2>2
  <1>5. ASSUME NEW p \in DOMAIN plays
        PROVE  /\ p \in DOMAIN plays' /\ plays'[p].entry = plays[p].entry
               /\ plays[p].refunded \/ p \in owed => plays'[p].refunded
    <2>1. plays'[p] = [plays[p] EXCEPT !.voided = @ \/ p \in voided, !.refunded = @ \/ p \in owed]
      BY DEF Leave
    <2>2. plays[p] \in PlayRow
      BY PlayTypes DEF Inv
    <2> QED
      BY <2>1, <2>2, LeaveType DEF PlayRow, Inv
  <1>6. ASSUME NEW l \in DOMAIN lots'
        PROVE  /\ Len(l) > 0 /\ GiftOf(l) \in DOMAIN Grants
               /\ Len(l) > 1 => \E p \in DOMAIN plays' : plays'[p].refunded /\ plays'[p].entry = l[Len(l)]
    <2>1. CASE l \in DOMAIN lots
      BY <1>5, <2>1 DEF Rooted
    <2>2. CASE l \notin DOMAIN lots
      <3>1. PICK e \in EntriesOf(owed) : \E k \in DOMAIN entries[e].alloc : l = RestoredLot(e, k)
        BY <1>3, <2>2
      <3>2. PICK k \in DOMAIN entries[e].alloc : l = RestoredLot(e, k)
        BY <3>1
      <3>3. PICK p \in owed : plays[p].entry = e
        BY DEF EntriesOf
      <3>4. e \in PaidEntries
        BY RestoreEffect
      <3>5. p \in DOMAIN plays' /\ plays'[p].refunded /\ plays'[p].entry = e
        BY <1>5, <3>3 DEF Unrefunded
      <3>6. Len(l) > 1 /\ l[Len(l)] = e /\ GiftOf(l) = GiftOf(k) /\ k \in DOMAIN lots
        BY <3>2, <3>4, RestoredIsNew
      <3> QED
        BY <3>5, <3>6 DEF Rooted
    <2> QED
      BY <2>1, <2>2
  <1> QED
    BY <1>4, <1>6 DEF Rooted

\* Steps that make no lot.
LEMMA RootedKept ==
    ASSUME Rooted, DOMAIN lots' = DOMAIN lots,
           \A p \in DOMAIN plays : p \in DOMAIN plays' /\ plays'[p] = plays[p]
    PROVE  Rooted'
  BY DEF Rooted

LEMMA EntitlementKept ==
    ASSUME NoNewEntitlement, DOMAIN lots' = DOMAIN lots, Accounted' = Accounted
    PROVE  NoNewEntitlement'
  <1>1. ASSUME NEW g PROVE LotsOf(g)' = LotsOf(g)
    BY DEF LotsOf
  <1>2. ASSUME NEW g PROVE SumFunctionOnSet(Accounted, LotsOf(g))' = SumFunctionOnSet(Accounted, LotsOf(g))
    BY <1>1, Zenon
  <1> QED
    BY <1>2 DEF NoNewEntitlement

\* What is true of the ledger as a whole.
Ledger == Inv /\ Rooted /\ HoldsBacked /\ NoNewEntitlement

\* At first every gift has its lot, and nothing is held or played.
LEMMA LedgerInit == Init => Ledger
  <1> SUFFICES ASSUME Init PROVE Ledger
    OBVIOUS
  <1>1. Inv /\ TypeOK
    BY InvInit DEF Inv
  <1>2. DOMAIN lots = {GiftLot(g) : g \in DOMAIN Grants} /\ Entry = {} /\ plays = <<>>
    BY DEF Init, Entry
  <1>3. ASSUME NEW g \in DOMAIN Grants
        PROVE  /\ GiftOf(GiftLot(g)) = g /\ Len(GiftLot(g)) = 1
               /\ lots[GiftLot(g)] = Granted(Grants[g].points, Grants[g].expires)
    BY DEF Init, GiftOf, GiftLot
  <1>4. IsFiniteSet(DOMAIN lots)
    <2>1. PICK D : D = DOMAIN Grants
      OBVIOUS
    <2>2. PICK h : h = [g \in D |-> GiftLot(g)]
      OBVIOUS
    <2>3. IsFiniteSet(D)
      <3>1. PICK Row : Row = [points : Nat \ {0}, expires : Nat \cup {Unset}]
        OBVIOUS
      <3>2. Grants \in Seq(Row)
        BY <3>1, EntriesAssumption
      <3>3. DOMAIN Grants = 1..Len(Grants) /\ Len(Grants) \in Int
        BY <3>2
      <3> QED
        BY <2>1, <3>3, FS_Interval, 1 \in Int
    <2>4. \A x, y \in D : h[x] = h[y] => x = y
      BY <2>1, <2>2, <1>3
    <2>5. DOMAIN lots = {h[g] : g \in D}
      BY <1>2, <2>1, <2>2
    <2>6. IsFiniteSet({h[g] : g \in D})
      BY <2>3, <2>4, ImageFinite
    <2> QED
      BY <2>5, <2>6, Zenon
  <1>5. Rooted
    <2>1. ASSUME NEW l \in DOMAIN lots
          PROVE  /\ Len(l) > 0 /\ GiftOf(l) \in DOMAIN Grants
                 /\ Len(l) > 1 => \E p \in DOMAIN plays : plays[p].refunded /\ plays[p].entry = l[Len(l)]
      <3>1. PICK g \in DOMAIN Grants : l = GiftLot(g)
        BY <1>2
      <3>2. GiftOf(l) = g /\ Len(l) = 1
        BY <1>3, <3>1
      <3> QED
        BY <3>2
    <2> QED
      BY <1>4, <2>1, Zenon DEF Rooted
  <1>6. HeldEntries = {} /\ CapturedEntries = {} /\ PaidEntries = {}
    BY <1>2 DEF HeldEntries, CapturedEntries, PaidEntries
  <1>7. ASSUME NEW l
        PROVE  TakenFrom(l, HeldEntries) = 0 /\ TakenFrom(l, CapturedEntries) = 0 /\ TakenFrom(l, PaidEntries) = 0
    <2>1. TakenFrom(l, {}) = 0
      BY SumEmpty DEF TakenFrom
    <2> QED
      BY <1>6, <2>1, Zenon
  <1>8. ASSUME NEW g \in DOMAIN Grants
        PROVE  /\ Units(GiftLot(g), "reserved") = 0 /\ Units(GiftLot(g), "consumed") = 0
               /\ Unplayed(GiftLot(g)) = Grants[g].points /\ Grants[g].points \in Nat
    <2>1. Grants[g].points \in Nat
      <3>1. PICK Row : Row = [points : Nat \ {0}, expires : Nat \cup {Unset}]
        OBVIOUS
      <3>2. Grants \in Seq(Row)
        BY <3>1, EntriesAssumption
      <3>3. Grants[g] \in Row
        BY <3>2, ElementOfSeq
      <3> QED
        BY <3>1, <3>3
    <2>2. \A b \in Buckets : Units(GiftLot(g), b) = IF b = "available" THEN Grants[g].points ELSE 0
      <3>1. PICK n, x : lots[GiftLot(g)] = Granted(n, x) /\ n = Grants[g].points
        BY <1>3, Zenon
      <3> QED
        BY <3>1 DEF Units, Granted
    <2> QED
      BY <2>1, <2>2 DEF Unplayed, Buckets
  <1>9. HoldsBacked
    BY <1>2, <1>7, <1>8 DEF HoldsBacked
  <1>10. ASSUME NEW g \in DOMAIN Grants
         PROVE  SumFunctionOnSet(Accounted, LotsOf(g)) = Grants[g].points
    <2>1. LotsOf(g) = {GiftLot(g)}
      BY <1>2, <1>3 DEF LotsOf
    <2>2. Accounted[GiftLot(g)] = Grants[g].points /\ Grants[g].points \in Int
      BY <1>2, <1>7, <1>8 DEF Accounted
    <2>3. SumFunctionOnSet(Accounted, {GiftLot(g)}) = Grants[g].points
      <3>1. PICK f : f = Accounted
        OBVIOUS
      <3>2. PICK l : l = GiftLot(g)
        OBVIOUS
      <3>3. SumFunctionOnSet(f, {l}) = f[l]
        BY <2>2, <3>1, <3>2, SumSingle
      <3> QED
        BY <2>2, <3>1, <3>2, <3>3, Zenon
    <2> QED
      BY <2>1, <2>3, Zenon
  <1> QED
    BY <1>1, <1>5, <1>9, <1>10 DEF Ledger, NoNewEntitlement

\* Units that leave a lot for good change nothing an entry holds.
LEMMA TakenAway ==
    ASSUME TypeOK, NEW l \in DOMAIN lots, NEW to \in {"expired", "reversed"},
           lots' = [lots EXCEPT ![l] = Moved(@, "available", to, Units(l, "available"))]
    PROVE  /\ DOMAIN lots' = DOMAIN lots
           /\ \A k \in DOMAIN lots : /\ Units(k, "reserved")' = Units(k, "reserved")
                                     /\ Units(k, "consumed")' = Units(k, "consumed")
                                     /\ Unplayed(k)' = Unplayed(k)
           /\ \A k \in DOMAIN lots \ {l} : lots'[k] = lots[k]
           /\ Units(l, "available")' = 0
           /\ Units(l, to)' = Units(l, to) + Units(l, "available")
           /\ \A b \in {"expired", "reversed"} \ {to} : Units(l, b)' = Units(l, b)
  <1>1. DOMAIN lots' = DOMAIN lots /\ \A k \in DOMAIN lots \ {l} : lots'[k] = lots[k]
    OBVIOUS
  <1>2. \A b \in Buckets : Units(l, b) \in Nat
    BY LotNumbers
  <1>3. \A b \in Buckets : Units(l, b)' =
          IF b = "available" THEN Units(l, b) - Units(l, "available")
          ELSE IF b = to THEN Units(l, b) + Units(l, "available") ELSE Units(l, b)
    <2>1. PICK n : n = Units(l, "available")
      OBVIOUS
    <2>2. lots'[l] = Moved(lots[l], "available", to, n) /\ lots[l] \in Lot
      BY <2>1 DEF TypeOK
    <2> QED
      BY <2>1, <2>2, MovedUnits DEF Units, Buckets
  <1>4. /\ Units(l, "reserved")' = Units(l, "reserved")
        /\ Units(l, "consumed")' = Units(l, "consumed")
        /\ Units(l, "available")' = 0
        /\ Units(l, to)' = Units(l, to) + Units(l, "available")
        /\ \A b \in {"expired", "reversed"} \ {to} : Units(l, b)' = Units(l, b)
    BY <1>2, <1>3 DEF Buckets
  <1>5. Unplayed(l)' = Unplayed(l)
    BY <1>2, <1>3, <1>4 DEF Unplayed, Buckets
  <1>6. \A k \in DOMAIN lots \ {l} : /\ Units(k, "reserved")' = Units(k, "reserved")
                                     /\ Units(k, "consumed")' = Units(k, "consumed")
                                     /\ Unplayed(k)' = Unplayed(k)
    BY <1>1 DEF Units, Unplayed
  <1> QED
    BY <1>1, <1>4, <1>5, <1>6

\* A restoration, by a void or a cancellation.
LEMMA LedgerRestored ==
    ASSUME Ledger, NEW voided, NEW owed \in SUBSET Unrefunded,
           Leave(voided, owed), Restore(owed), entries' = entries
    PROVE  Rooted' /\ HoldsBacked' /\ NoNewEntitlement'
  BY RestoreConserves, RestoreBalances DEF Ledger

LEMMA OwedVoid ==
    ASSUME NEW p \in DOMAIN plays, NEW refund \in BOOLEAN, VoidPlay(p, refund)
    PROVE  \E voided : \E owed \in SUBSET Unrefunded :
             Leave(voided, owed) /\ Restore(owed) /\ entries' = entries
  <1>1. PICK owed : owed = IF refund /\ ~plays[p].refunded THEN {p} ELSE {}
    OBVIOUS
  <1>2. Leave({p}, owed) /\ Restore(owed) /\ entries' = entries
    BY <1>1 DEF VoidPlay
  <1>3. owed \in SUBSET Unrefunded
    BY <1>1 DEF Unrefunded
  <1> QED
    BY <1>2, <1>3, Zenon

LEMMA OwedCancel ==
    ASSUME Cancel
    PROVE  \E voided : \E owed \in SUBSET Unrefunded :
             Leave(voided, owed) /\ Restore(owed) /\ entries' = entries
  <1>1. Leave(DOMAIN plays, Unrefunded) /\ Restore(Unrefunded) /\ entries' = entries
    BY DEF Cancel, Unrefunded
  <1>2. Unrefunded \in SUBSET Unrefunded
    OBVIOUS
  <1> QED
    BY <1>1, <1>2, Zenon

\* Every step keeps the ledger.
LEMMA LedgerStep == Ledger /\ [Next]_vars => Ledger'
  <1> SUFFICES ASSUME Ledger, [Next]_vars PROVE Rooted' /\ HoldsBacked' /\ NoNewEntitlement'
    BY InvStep DEF Ledger
  <1>0. Inv /\ TypeOK /\ Rooted /\ HoldsBacked /\ NoNewEntitlement
    BY DEF Ledger, Inv
  <1>1. ASSUME NEW now \in Nows, ReserveEntry(now) PROVE Rooted' /\ HoldsBacked' /\ NoNewEntitlement'
    <2>1. DOMAIN lots' = DOMAIN lots /\ plays' = plays
      BY <1>1 DEF ReserveEntry, MovedAll
    <2> QED
      BY <1>0, <1>1, <2>1, ReserveBalances, RootedKept, EntitlementKept
  <1>2. ASSUME NEW now \in Nows, NEW e \in Entry, StartPlay(e, now)
        PROVE  Rooted' /\ HoldsBacked' /\ NoNewEntitlement'
    <2>1. PICK row : plays' = Append(plays, row)
      BY <1>2 DEF StartPlay
    <2>2. \A p \in DOMAIN plays : p \in DOMAIN plays' /\ plays'[p] = plays[p]
      BY <1>0, <2>1, PlayTypes DEF TypeOK
    <2>3. DOMAIN lots' = DOMAIN lots
      BY <1>2 DEF StartPlay, MovedAll
    <2> QED
      BY <1>0, <1>2, <2>2, <2>3, StartBalances, RootedKept, EntitlementKept
  <1>3. ASSUME NEW now \in Nows, NEW e \in Entry, Release(e, now)
        PROVE  Rooted' /\ HoldsBacked' /\ NoNewEntitlement'
    <2>1. DOMAIN lots' = DOMAIN lots /\ plays' = plays
      BY <1>3 DEF Release, GivenBack
    <2> QED
      BY <1>0, <1>3, <2>1, ReleaseBalances, RootedKept, EntitlementKept
  <1>4. ASSUME NEW l \in DOMAIN lots, NEW to \in {"expired", "reversed"},
               lots' = [lots EXCEPT ![l] = Moved(@, "available", to, Units(l, "available"))],
               UNCHANGED <<entries, plays>>
        PROVE  Rooted' /\ HoldsBacked' /\ NoNewEntitlement'
    <2>1. DOMAIN lots' = DOMAIN lots
      BY <1>4
    <2>2. HoldsBacked' /\ Accounted' = Accounted
      BY <1>0, <1>4, <2>1, TakenAway, TakeBalances
    <2> QED
      BY <1>0, <1>4, <2>1, <2>2, RootedKept, EntitlementKept
  <1>5. ASSUME UNCHANGED <<lots, entries, plays>> PROVE Rooted' /\ HoldsBacked' /\ NoNewEntitlement'
    <2>1. \A l \in DOMAIN lots : /\ Units(l, "reserved")' = Units(l, "reserved")
                                 /\ Units(l, "consumed")' = Units(l, "consumed")
                                 /\ Unplayed(l)' = Unplayed(l)
      BY <1>5 DEF Units, Unplayed
    <2>2. HoldsBacked' /\ Accounted' = Accounted
      BY <1>0, <1>5, <2>1, TakeBalances
    <2> QED
      BY <1>0, <1>5, <2>2, RootedKept, EntitlementKept
  <1>6. ASSUME NEW p \in DOMAIN plays, NEW refund \in BOOLEAN, VoidPlay(p, refund)
        PROVE  Rooted' /\ HoldsBacked' /\ NoNewEntitlement'
    BY <1>6, OwedVoid, LedgerRestored
  <1>7. CASE Cancel
    BY <1>7, OwedCancel, LedgerRestored
  <1>8. ASSUME NEW now \in Nows, NEW l \in DOMAIN lots, ExpireLot(l, now)
        PROVE  Rooted' /\ HoldsBacked' /\ NoNewEntitlement'
    BY <1>4, <1>8 DEF ExpireLot
  <1>9. ASSUME NEW g \in DOMAIN gifts, ReverseGift(g) PROVE Rooted' /\ HoldsBacked' /\ NoNewEntitlement'
    <2>1. GiftLot(g) \in DOMAIN lots
      BY <1>0 DEF Inv, TypeOK, GiftLots
    <2> QED
      BY <1>4, <1>5, <1>9, <2>1 DEF ReverseGift
  <1>10. CASE (\E g \in DOMAIN gifts : RefundOrder(g)) \/ MoveRound \/ Tick \/ UNCHANGED vars
    BY <1>5, <1>10 DEF RefundOrder, MoveRound, Tick, vars
  <1> QED
    BY <1>1, <1>2, <1>3, <1>6, <1>7, <1>8, <1>9, <1>10 DEF Next, ReleaseEntry, ReleaseStale

\* A lot's reserved and consumed units are what held and captured entries
\* have of it, so the units a release gives back are always there.
THEOREM HoldsAreBacked == Spec => []HoldsBacked
  <1>1. Ledger => HoldsBacked
    BY DEF Ledger
  <1> QED
    BY LedgerInit, LedgerStep, <1>1, PTL DEF Spec

\* "Restoration cannot create new entitlement": a gift's points are all in
\* one of its lots or spent on a play that was not refunded, whatever number
\* of times they were restored and spent again.
THEOREM EntitlementConserved == Spec => []NoNewEntitlement
  <1>1. Ledger => NoNewEntitlement
    BY DEF Ledger
  <1> QED
    BY LedgerInit, LedgerStep, <1>1, PTL DEF Spec

-----------------------------------------------------------------------------
(* What is left of a gift that was reversed.                               *)

\* Units that were played stay played, and a lot with nothing to spend, held
\* or played stays so.
Empty(l) == \A b \in {"available", "reserved", "consumed"} : Units(l, b) = 0
Onward ==
    \A l \in DOMAIN lots :
      /\ l \in DOMAIN lots'
      /\ Units(l, "consumed")' >= Units(l, "consumed")
      /\ Units(l, "reversed")' >= Units(l, "reversed")
      /\ Empty(l) => Empty(l)'

\* A lot that restores another comes, in the end, from units played of its
\* gift's own lot.
RootPlayed ==
    \A l \in DOMAIN lots : Len(l) > 1 => Units(GiftLot(GiftOf(l)), "consumed") > 0

\* A lot was reversed under a key with what was reversed before, so the next
\* key is always new.
ReverseKeys ==
    \A k \in ops : k.kind = "reverse" =>
      k.lot \in DOMAIN lots /\ k.n \in Nat /\ k.n < Units(k.lot, "reversed")

Gone == Ledger /\ RootPlayed /\ ReverseKeys /\ ReversedLeavesNothing

\* Units into an entry, out of it, and back.
LEMMA MovedOnward ==
    ASSUME TypeOK, NEW alloc \in Allocs, NEW from \in {"available", "reserved"},
           NEW to \in {"reserved", "consumed"}, from # to, CanMove(alloc, from),
           lots' = MovedAll(alloc, from, to)
    PROVE  Onward
  <1> SUFFICES ASSUME NEW l \in DOMAIN lots
               PROVE  /\ l \in DOMAIN lots'
                      /\ Units(l, "consumed")' >= Units(l, "consumed")
                      /\ Units(l, "reversed")' >= Units(l, "reversed")
                      /\ Empty(l) => Empty(l)'
    BY DEF Onward
  <1>1. l \in DOMAIN lots'
    BY DEF MovedAll
  <1>2. \A b \in Buckets : Units(l, b)' =
          IF b = from THEN Units(l, b) - Got(alloc, l)
          ELSE IF b = to THEN Units(l, b) + Got(alloc, l) ELSE Units(l, b)
    BY MovedAllUnits DEF Units, Buckets
  <1>3. \A b \in Buckets : Units(l, b) \in Nat
    BY LotNumbers
  <1>4. Got(alloc, l) \in Nat /\ Units(l, from) >= Got(alloc, l)
    <2>1. CASE l \in DOMAIN alloc
      BY <2>1, GotType DEF CanMove, Got
    <2>2. CASE l \notin DOMAIN alloc
      BY <1>3, <2>2 DEF Got, Buckets
    <2> QED
      BY <2>1, <2>2
  <1>5. /\ Units(l, "consumed")' >= Units(l, "consumed")
        /\ Units(l, "reversed")' >= Units(l, "reversed")
    BY <1>2, <1>3, <1>4 DEF Buckets
  <1>6. ASSUME Empty(l) PROVE Empty(l)'
    <2>1. Units(l, "available") = 0 /\ Units(l, "reserved") = 0 /\ Units(l, "consumed") = 0
      BY <1>6 DEF Empty
    <2>2. Got(alloc, l) = 0
      BY <1>4, <2>1
    <2>3. Units(l, "available")' = 0 /\ Units(l, "reserved")' = 0 /\ Units(l, "consumed")' = 0
      BY <1>2, <2>1, <2>2 DEF Buckets
    <2> QED
      BY <2>3 DEF Empty
  <1> QED
    BY <1>1, <1>5, <1>6

LEMMA GivenBackOnward ==
    ASSUME TypeOK, NEW alloc \in Allocs, NEW now, CanMove(alloc, "reserved"),
           lots' = GivenBack(alloc, now)
    PROVE  Onward
  <1> SUFFICES ASSUME NEW l \in DOMAIN lots
               PROVE  /\ l \in DOMAIN lots'
                      /\ Units(l, "consumed")' >= Units(l, "consumed")
                      /\ Units(l, "reversed")' >= Units(l, "reversed")
                      /\ Empty(l) => Empty(l)'
    BY DEF Onward
  <1>1. l \in DOMAIN lots'
    BY DEF GivenBack
  <1>2. \A b \in Buckets : Units(l, b)' =
          IF b = "reserved" THEN Units(l, b) - Got(alloc, l)
          ELSE IF b = "available" THEN Units(l, b) + Got(alloc, l) ELSE Units(l, b)
    BY GivenBackUnits DEF Units
  <1>3. \A b \in Buckets : Units(l, b) \in Nat
    BY LotNumbers
  <1>4. Got(alloc, l) \in Nat /\ Units(l, "reserved") >= Got(alloc, l)
    <2>1. CASE l \in DOMAIN alloc
      BY <2>1, GotType DEF CanMove, Got
    <2>2. CASE l \notin DOMAIN alloc
      BY <1>3, <2>2 DEF Got, Buckets
    <2> QED
      BY <2>1, <2>2
  <1>5. /\ Units(l, "consumed")' >= Units(l, "consumed")
        /\ Units(l, "reversed")' >= Units(l, "reversed")
    BY <1>2, <1>3 DEF Buckets
  <1>6. ASSUME Empty(l) PROVE Empty(l)'
    <2>1. Units(l, "available") = 0 /\ Units(l, "reserved") = 0 /\ Units(l, "consumed") = 0
      BY <1>6 DEF Empty
    <2>2. Got(alloc, l) = 0
      BY <1>4, <2>1
    <2>3. Units(l, "available")' = 0 /\ Units(l, "reserved")' = 0 /\ Units(l, "consumed")' = 0
      BY <1>2, <2>1, <2>2 DEF Buckets
    <2> QED
      BY <2>3 DEF Empty
  <1> QED
    BY <1>1, <1>5, <1>6

\* Units that expire or are taken back.
LEMMA TakenOnward ==
    ASSUME TypeOK, NEW l \in DOMAIN lots, NEW to \in {"expired", "reversed"},
           lots' = [lots EXCEPT ![l] = Moved(@, "available", to, Units(l, "available"))]
    PROVE  Onward
  <1> SUFFICES ASSUME NEW k \in DOMAIN lots
               PROVE  /\ k \in DOMAIN lots'
                      /\ Units(k, "consumed")' >= Units(k, "consumed")
                      /\ Units(k, "reversed")' >= Units(k, "reversed")
                      /\ Empty(k) => Empty(k)'
    BY DEF Onward
  <1>1. \A b \in Buckets : Units(k, b) \in Nat
    BY LotNumbers
  <1>2. CASE k # l
    <2>1. lots'[k] = lots[k] /\ k \in DOMAIN lots'
      BY <1>2, TakenAway
    <2> QED
      BY <1>1, <2>1 DEF Units, Empty, Buckets
  <1>3. CASE k = l
    <2>1. /\ k \in DOMAIN lots' /\ Units(k, "consumed")' = Units(k, "consumed")
          /\ Units(k, "reserved")' = Units(k, "reserved") /\ Units(k, "available")' = 0
          /\ \/ Units(k, "reversed")' = Units(k, "reversed")
             \/ Units(k, "reversed")' = Units(k, "reversed") + Units(k, "available")
      BY <1>3, TakenAway
    <2>2. Units(k, "consumed")' >= Units(k, "consumed") /\ Units(k, "reversed")' >= Units(k, "reversed")
      BY <1>1, <2>1 DEF Buckets
    <2> QED
      BY <2>1, <2>2 DEF Empty
  <1> QED
    BY <1>2, <1>3

\* A restoration: a lot is restored only where units were played.
LEMMA RestoredOnward ==
    ASSUME Ledger, NEW voided, NEW owed \in SUBSET Unrefunded,
           Leave(voided, owed), Restore(owed), entries' = entries
    PROVE  /\ Onward
           /\ \A l \in DOMAIN lots' : l \in DOMAIN lots
                \/ \E k \in DOMAIN lots : GiftOf(l) = GiftOf(k) /\ Units(k, "consumed") > 0
  <1>0. Inv /\ Rooted /\ HoldsBacked /\ TypeOK
    BY DEF Ledger, Inv
  <1>1. ASSUME NEW l \in DOMAIN lots
        PROVE  /\ l \in DOMAIN lots'
               /\ Units(l, "consumed")' >= Units(l, "consumed")
               /\ Units(l, "reversed")' >= Units(l, "reversed")
               /\ Empty(l) => Empty(l)'
    <2>1. l \in DOMAIN lots' /\ \A b \in Buckets : Units(l, b)' = Units(l, b)
      BY <1>0, RestoreEffect, RestoredUnits
    <2>2. \A b \in Buckets : Units(l, b) \in Nat
      BY <1>0, LotNumbers
    <2> QED
      BY <2>1, <2>2 DEF Empty, Buckets
  <1>2. ASSUME NEW l \in DOMAIN lots', l \notin DOMAIN lots
        PROVE  \E k \in DOMAIN lots : GiftOf(l) = GiftOf(k) /\ Units(k, "consumed") > 0
    <2>1. /\ DOMAIN lots' = DOMAIN lots \cup UNION {RestoredFrom(e) : e \in EntriesOf(owed)}
          /\ EntriesOf(owed) \in SUBSET PaidEntries
      BY <1>0, RestoreEffect
    <2>2. PICK e \in PaidEntries : l \in RestoredFrom(e)
      BY <1>2, <2>1
    <2>3. PICK k \in DOMAIN entries[e].alloc : l = RestoredLot(e, k)
      BY <2>2 DEF RestoredFrom
    <2>4. /\ k \in DOMAIN lots /\ GiftOf(l) = GiftOf(k) /\ e \in Entry
          /\ entries[e].alloc[k] \in Nat \ {0} /\ Got(entries[e].alloc, k) = entries[e].alloc[k]
      BY <1>0, <2>3, RestoredIsNew
    <2>5. Share(k)[e] = entries[e].alloc[k]
      BY <1>0, <2>4, ShareType
    <2>6. PICK C \in SUBSET Entry : C = CapturedEntries /\ e \in C
      BY <1>0, Kinds
    <2>7. Share(k)[e] <= TakenFrom(k, C) /\ TakenFrom(k, C) \in Nat
      BY <1>0, <2>6, TakenTypes
    <2>8. Units(k, "consumed") = TakenFrom(k, C)
      BY <1>0, <2>4, <2>6 DEF HoldsBacked
    <2> QED
      BY <2>4, <2>5, <2>7, <2>8
  <1> QED
    BY <1>1, <1>2 DEF Onward

LEMMA OneSeq == ASSUME NEW S, NEW k \in Seq(S), Len(k) = 1 PROVE k = <<k[1]>>
  <1>1. 1 \in 1..Len(k)
    OBVIOUS
  <1>2. k[1] \in S
    BY <1>1, ElementOfSeq, Zenon
  <1>3. PICK m : m = <<k[1]>>
    OBVIOUS
  <1>4. m \in Seq(S) /\ Len(m) = 1 /\ m[1] = k[1]
    BY <1>2, <1>3
  <1>5. \A i \in 1..Len(k) : k[i] = m[i]
    BY <1>4
  <1>6. k = m
    BY <1>4, <1>5, SeqEqual
  <1> QED
    BY <1>3, <1>6, Zenon

\* What such steps keep.
LEMMA OnwardKeeps ==
    ASSUME Gone, Onward, TypeOK',
           \A l \in DOMAIN lots' : l \in DOMAIN lots
             \/ \E k \in DOMAIN lots : GiftOf(l) = GiftOf(k) /\ Units(k, "consumed") > 0
    PROVE  /\ RootPlayed'
           /\ \A k \in ops : k.kind = "reverse" =>
                k.lot \in DOMAIN lots' /\ k.n \in Nat /\ k.n < Units(k.lot, "reversed")'
           /\ \A g \in DOMAIN Grants : gifts[g] = "reversed" =>
                \A l \in DOMAIN lots' : GiftOf(l) = g => Empty(l)'
  <1>0. Inv /\ TypeOK /\ Rooted /\ GiftLots /\ RootPlayed /\ ReverseKeys /\ ReversedLeavesNothing
    BY DEF Gone, Ledger, Inv
  <1>1. ASSUME NEW l \in DOMAIN lots
        PROVE  GiftLot(GiftOf(l)) \in DOMAIN lots
    BY <1>0 DEF Rooted, GiftLots
  <1>2. ASSUME NEW k \in DOMAIN lots, Units(k, "consumed") > 0
        PROVE  Units(GiftLot(GiftOf(k)), "consumed") > 0
    <2>1. CASE Len(k) > 1
      BY <1>0, <2>1 DEF RootPlayed
    <2>2. CASE ~(Len(k) > 1)
      <3>1. k \in Seq(Nat) /\ Len(k) \in Nat /\ Len(k) > 0
        BY <1>0 DEF TypeOK, Rooted
      <3>2. k = <<k[1]>>
        <4>1. PICK n \in Nat : n = Len(k)
          BY <3>1
        <4>2. n = 1
          BY <2>2, <3>1, <4>1
        <4> QED
          BY <3>1, <4>1, <4>2, OneSeq
      <3> QED
        BY <1>2, <3>2, Zenon DEF GiftLot, GiftOf
    <2> QED
      BY <2>1, <2>2
  <1>3. ASSUME NEW l \in DOMAIN lots
        PROVE  /\ Units(l, "consumed") \in Nat /\ Units(l, "consumed")' >= Units(l, "consumed")
               /\ Units(l, "reversed") \in Nat /\ Units(l, "reversed")' >= Units(l, "reversed")
               /\ Units(l, "consumed")' \in Nat /\ Units(l, "reversed")' \in Nat
    <2>1. l \in DOMAIN lots'
      BY DEF Onward
    <2>2. Units(l, "consumed")' \in Nat /\ Units(l, "reversed")' \in Nat
      BY <2>1 DEF TypeOK, Lot, Units, Buckets
    <2> QED
      BY <1>0, <2>2, LotNumbers DEF Onward, Buckets
  <1>4. ASSUME NEW l \in DOMAIN lots', Len(l) > 1
        PROVE  Units(GiftLot(GiftOf(l)), "consumed")' > 0
    <2>1. PICK k \in DOMAIN lots : GiftOf(k) = GiftOf(l) /\ Units(GiftLot(GiftOf(k)), "consumed") > 0
      BY <1>0, <1>2, <1>4 DEF RootPlayed
    <2>2. PICK r \in DOMAIN lots : r = GiftLot(GiftOf(l)) /\ Units(r, "consumed") > 0
      BY <1>1, <2>1
    <2>3. /\ Units(r, "consumed") \in Nat /\ Units(r, "consumed")' >= Units(r, "consumed")
          /\ Units(r, "consumed")' \in Nat
      BY <1>3
    <2> QED
      BY <2>2, <2>3
  <1>5. ASSUME NEW k \in ops, k.kind = "reverse"
        PROVE  k.lot \in DOMAIN lots' /\ k.n \in Nat /\ k.n < Units(k.lot, "reversed")'
    <2>1. PICK r \in DOMAIN lots : r = k.lot /\ k.n \in Nat /\ k.n < Units(r, "reversed")
      BY <1>0, <1>5 DEF ReverseKeys
    <2>2. k.n < Units(r, "reversed")' /\ r \in DOMAIN lots'
      BY <1>3, <2>1 DEF Onward
    <2> QED
      BY <2>1, <2>2
  <1>6. ASSUME NEW g \in DOMAIN Grants, gifts[g] = "reversed", NEW l \in DOMAIN lots', GiftOf(l) = g
        PROVE  Empty(l)'
    <2>1. \A k \in DOMAIN lots : GiftOf(k) = g => Empty(k)
      BY <1>0, <1>6 DEF ReversedLeavesNothing, LotsOf, Empty
    <2>2. l \in DOMAIN lots
      <3> SUFFICES ASSUME NEW k \in DOMAIN lots, GiftOf(k) = g, Units(k, "consumed") > 0 PROVE FALSE
        BY <1>6
      <3> QED
        BY <2>1 DEF Empty
    <2> QED
      BY <1>6, <2>1, <2>2 DEF Onward
  <1> QED
    BY <1>4, <1>5, <1>6 DEF RootPlayed

\* Steps that leave no more gifts reversed and record no reversal.
LEMMA GoneKept ==
    ASSUME Gone, Onward, TypeOK',
           \A l \in DOMAIN lots' : l \in DOMAIN lots
             \/ \E k \in DOMAIN lots : GiftOf(l) = GiftOf(k) /\ Units(k, "consumed") > 0,
           \A k \in ops' : k.kind = "reverse" => k \in ops,
           \A g \in DOMAIN Grants : gifts'[g] = "reversed" => gifts[g] = "reversed"
    PROVE  RootPlayed' /\ ReverseKeys' /\ ReversedLeavesNothing'
  <1>1. ReverseKeys'
    BY OnwardKeeps DEF ReverseKeys
  <1>2. ReversedLeavesNothing'
    BY OnwardKeeps DEF ReversedLeavesNothing, LotsOf, Empty
  <1> QED
    BY <1>1, <1>2, OnwardKeeps

\* A gift is reversed: what its own lot has left goes, and there was no other.
LEMMA ReverseKeeps ==
    ASSUME Gone, TypeOK', NEW g \in DOMAIN Grants, ReverseGift(g)
    PROVE  RootPlayed' /\ ReverseKeys' /\ ReversedLeavesNothing'
  <1>0. Inv /\ TypeOK /\ Rooted /\ GiftLots /\ RootPlayed /\ ReverseKeys
    BY DEF Gone, Ledger, Inv
  <1>l. PICK l : l = GiftLot(g)
    OBVIOUS
  <1>1. l \in DOMAIN lots /\ \A b \in Buckets : Units(l, b) \in Nat
    BY <1>0, <1>l, LotNumbers DEF GiftLots
  <1>2. First(ReverseKey(l))
    <2> SUFFICES ASSUME ReverseKey(l) \in ops PROVE FALSE
      BY DEF First
    <2>1. PICK key \in ops : key.kind = "reverse" /\ key.lot = l /\ key.n = Units(l, "reversed")
      BY DEF ReverseKey
    <2>2. key.n < Units(l, "reversed") /\ key.n \in Nat
      BY <1>0, <2>1 DEF ReverseKeys
    <2> QED
      BY <2>1, <2>2
  <1>3. /\ Onward /\ DOMAIN lots' = DOMAIN lots
        /\ Units(l, "available")' = 0 /\ Units(l, "reserved")' = Units(l, "reserved")
        /\ Units(l, "consumed")' = Units(l, "consumed")
        /\ \A k \in ops' : k \in ops \/ /\ k.lot = l /\ k.n \in Nat /\ k.n < Units(l, "reversed")'
    <2>1. CASE Units(l, "available") > 0
      <3>1. /\ lots' = [lots EXCEPT ![l] = Moved(@, "available", "reversed", Units(l, "available"))]
            /\ ops' = ops \cup {ReverseKey(l)}
        BY <1>l, <1>2, <2>1 DEF ReverseGift
      <3>2. Onward /\ DOMAIN lots' = DOMAIN lots
        BY <1>0, <1>1, <3>1, TakenOnward, TakenAway
      <3>3. /\ Units(l, "available")' = 0 /\ Units(l, "reversed")' = Units(l, "reversed") + Units(l, "available")
            /\ Units(l, "reserved")' = Units(l, "reserved") /\ Units(l, "consumed")' = Units(l, "consumed")
        BY <1>0, <1>1, <3>1, TakenAway
      <3>4. ReverseKey(l).n = Units(l, "reversed") /\ ReverseKey(l).lot = l
        BY DEF ReverseKey
      <3>5. ReverseKey(l).n \in Nat /\ ReverseKey(l).n < Units(l, "reversed")'
        BY <1>1, <2>1, <3>3, <3>4 DEF Buckets
      <3> QED
        BY <3>1, <3>2, <3>3, <3>4, <3>5
    <2>2. CASE ~(Units(l, "available") > 0)
      <3>1. UNCHANGED <<lots, ops>>
        BY <1>l, <2>2 DEF ReverseGift
      <3>2. \A k \in DOMAIN lots : \A b \in Buckets : Units(k, b) \in Nat /\ Units(k, b)' = Units(k, b)
        BY <1>0, <3>1, LotNumbers DEF Units
      <3>3. Onward
        BY <3>1, <3>2 DEF Onward, Empty, Buckets
      <3>4. Units(l, "available")' = 0
        BY <1>1, <2>2, <3>2 DEF Buckets
      <3> QED
        BY <1>1, <3>1, <3>2, <3>3, <3>4 DEF Buckets
    <2> QED
      BY <2>1, <2>2
  <1>4. \A k \in DOMAIN lots' : k \in DOMAIN lots
                 \/ \E m \in DOMAIN lots : GiftOf(k) = GiftOf(m) /\ Units(m, "consumed") > 0
    BY <1>3
  <1>5. RootPlayed'
    BY <1>3, <1>4, OnwardKeeps
  <1>6. ReverseKeys'
    <2>1. \A k \in ops : k.kind = "reverse" =>
            k.lot \in DOMAIN lots' /\ k.n \in Nat /\ k.n < Units(k.lot, "reversed")'
      BY <1>3, <1>4, OnwardKeeps
    <2> SUFFICES ASSUME NEW k \in ops', k.kind = "reverse"
                 PROVE  k.lot \in DOMAIN lots' /\ k.n \in Nat /\ k.n < Units(k.lot, "reversed")'
      BY DEF ReverseKeys
    <2>2. CASE k \in ops
      BY <2>1, <2>2
    <2>3. CASE k \notin ops
      <3>1. k.lot = l /\ k.n \in Nat /\ k.n < Units(l, "reversed")' /\ l \in DOMAIN lots'
        BY <1>1, <1>3, <2>3
      <3> QED
        BY <3>1
    <2> QED
      BY <2>2, <2>3
  <1>7. ASSUME NEW h \in DOMAIN Grants, gifts'[h] = "reversed", NEW k \in DOMAIN lots', GiftOf(k) = h
        PROVE  Empty(k)'
    <2>1. CASE gifts[h] = "reversed"
      BY <1>3, <1>4, <1>7, <2>1, OnwardKeeps
    <2>2. CASE gifts[h] # "reversed"
      <3>1. h = g /\ Units(l, "reserved") = 0 /\ Units(l, "consumed") = 0
        <4>1. h = g /\ ~Waits(l) /\ ~(Units(l, "consumed") > 0)
          BY <1>0, <1>l, <1>7, <2>2 DEF ReverseGift, TypeOK
        <4> QED
          BY <1>1, <4>1 DEF Waits, Buckets
      <3>2. k \in DOMAIN lots /\ GiftLot(GiftOf(k)) = l
        BY <1>l, <1>3, <1>7, <3>1
      <3>3. ~(Len(k) > 1)
        <4> SUFFICES ASSUME Len(k) > 1 PROVE FALSE
          OBVIOUS
        <4>1. Units(GiftLot(GiftOf(k)), "consumed") > 0
          BY <1>0, <3>2 DEF RootPlayed
        <4>2. Units(l, "consumed") > 0
          BY <3>2, <4>1, Zenon
        <4> QED
          BY <3>1, <4>2
      <3>4. k \in Seq(Nat) /\ Len(k) \in Nat /\ Len(k) > 0
        BY <1>0, <3>2 DEF TypeOK, Rooted
      <3>5. k = <<k[1]>>
        <4>1. PICK n \in Nat : n = Len(k)
          BY <3>4
        <4>2. n = 1
          BY <3>3, <3>4, <4>1
        <4> QED
          BY <3>4, <4>1, <4>2, OneSeq
      <3>6. k = l
        BY <3>2, <3>5, Zenon DEF GiftLot, GiftOf
      <3>7. Empty(l)'
        BY <1>3, <3>1 DEF Empty
      <3> QED
        BY <3>6, <3>7
    <2> QED
      BY <2>1, <2>2
  <1>8. ReversedLeavesNothing'
    BY <1>7 DEF ReversedLeavesNothing, LotsOf, Empty
  <1> QED
    BY <1>5, <1>6, <1>8

LEMMA GoneInit == Init => Gone
  <1> SUFFICES ASSUME Init PROVE Gone
    OBVIOUS
  <1>1. Ledger
    BY LedgerInit
  <1>2. \A l \in DOMAIN lots : Len(l) = 1
    <2> SUFFICES ASSUME NEW l \in DOMAIN lots PROVE Len(l) = 1
      OBVIOUS
    <2>1. PICK g \in DOMAIN Grants : l = GiftLot(g)
      BY DEF Init
    <2> QED
      BY <2>1 DEF GiftLot
  <1>3. RootPlayed
    <2>1. ~(1 > 1)
      OBVIOUS
    <2>2. ASSUME NEW l \in DOMAIN lots PROVE ~(Len(l) > 1)
      BY <1>2, <2>1, Zenon
    <2> QED
      BY <2>2, Zenon DEF RootPlayed
  <1>4. ReverseKeys
    BY DEF ReverseKeys, Init
  <1>5. ReversedLeavesNothing
    BY DEF ReversedLeavesNothing, Init
  <1> QED
    BY <1>1, <1>3, <1>4, <1>5 DEF Gone

LEMMA GoneStep == Gone /\ [Next]_vars => Gone'
  <1> SUFFICES ASSUME Gone, [Next]_vars PROVE RootPlayed' /\ ReverseKeys' /\ ReversedLeavesNothing'
    BY LedgerStep DEF Gone
  <1>0. Inv /\ TypeOK /\ TypeOK' /\ Ledger /\ DOMAIN gifts = DOMAIN Grants
    BY LedgerStep DEF Gone, Ledger, Inv, TypeOK
  <1>1. ASSUME Onward, DOMAIN lots' = DOMAIN lots, gifts' = gifts,
               \A k \in ops' : k.kind = "reverse" => k \in ops
        PROVE  RootPlayed' /\ ReverseKeys' /\ ReversedLeavesNothing'
    BY <1>0, <1>1, GoneKept
  <1>2. ASSUME NEW now \in Nows, ReserveEntry(now)
        PROVE  RootPlayed' /\ ReverseKeys' /\ ReversedLeavesNothing'
    <2>1. PICK alloc \in Allocations(now) : lots' = MovedAll(alloc, "available", "reserved")
      BY <1>2 DEF ReserveEntry
    <2>2. alloc \in Allocs /\ CanMove(alloc, "available")
      <3>1. \A l \in DOMAIN alloc : l \in DOMAIN lots /\ alloc[l] <= Units(l, "available") /\ alloc[l] \in Nat
        BY EntriesAssumption DEF Allocations, Spendable
      <3>2. \A l \in DOMAIN lots : Units(l, "available") \in Nat
        BY <1>0, LotNumbers DEF Buckets
      <3>3. alloc \in Allocs
        BY DEF Allocations, Allocs, Spendable
      <3> QED
        BY <3>1, <3>2, <3>3 DEF CanMove
    <2>3. Onward /\ DOMAIN lots' = DOMAIN lots
      <3>1. Onward
        BY <1>0, <2>1, <2>2, MovedOnward
      <3> QED
        BY <2>1, <3>1 DEF MovedAll
    <2> QED
      BY <1>1, <1>2, <2>3 DEF ReserveEntry
  <1>3. ASSUME NEW now \in Nows, NEW e \in Entry, StartPlay(e, now)
        PROVE  RootPlayed' /\ ReverseKeys' /\ ReversedLeavesNothing'
    <2>1. entries[e].alloc \in Allocs
      BY <1>0, EntryTypes DEF EntryRow
    <2>2. Onward /\ DOMAIN lots' = DOMAIN lots
      <3>1. Onward
        BY <1>0, <1>3, <2>1, MovedOnward DEF StartPlay
      <3> QED
        BY <1>3, <3>1 DEF StartPlay, MovedAll
    <2> QED
      BY <1>1, <1>3, <2>2 DEF StartPlay, SettleKey
  <1>4. ASSUME NEW now \in Nows, NEW e \in Entry, Release(e, now)
        PROVE  RootPlayed' /\ ReverseKeys' /\ ReversedLeavesNothing'
    <2>1. entries[e].alloc \in Allocs
      BY <1>0, EntryTypes DEF EntryRow
    <2>2. Onward /\ DOMAIN lots' = DOMAIN lots
      <3>1. Onward
        BY <1>0, <1>4, <2>1, GivenBackOnward DEF Release
      <3> QED
        BY <1>4, <3>1 DEF Release, GivenBack
    <2> QED
      BY <1>1, <1>4, <2>2 DEF Release, SettleKey
  <1>5. ASSUME NEW now \in Nows, NEW l \in DOMAIN lots, ExpireLot(l, now)
        PROVE  RootPlayed' /\ ReverseKeys' /\ ReversedLeavesNothing'
    <2>1. Onward /\ DOMAIN lots' = DOMAIN lots
      BY <1>0, <1>5, TakenOnward, TakenAway DEF ExpireLot
    <2> QED
      BY <1>1, <1>5, <2>1 DEF ExpireLot, ExpireKey
  <1>6. ASSUME NEW voided, NEW owed \in SUBSET Unrefunded, Leave(voided, owed), Restore(owed),
               UNCHANGED <<entries, gifts, ops>>
        PROVE  RootPlayed' /\ ReverseKeys' /\ ReversedLeavesNothing'
    <2>1. /\ Onward
          /\ \A l \in DOMAIN lots' : l \in DOMAIN lots
               \/ \E k \in DOMAIN lots : GiftOf(l) = GiftOf(k) /\ Units(k, "consumed") > 0
      BY <1>0, <1>6, RestoredOnward
    <2> QED
      BY <1>0, <1>6, <2>1, GoneKept
  <1>7. ASSUME NEW p \in DOMAIN plays, NEW refund \in BOOLEAN, VoidPlay(p, refund)
        PROVE  RootPlayed' /\ ReverseKeys' /\ ReversedLeavesNothing'
    <2>1. UNCHANGED <<entries, gifts, ops>>
      BY <1>7 DEF VoidPlay
    <2> QED
      BY <1>6, <1>7, <2>1, OwedVoid
  <1>8. CASE Cancel
    <2>1. UNCHANGED <<entries, gifts, ops>>
      BY <1>8 DEF Cancel
    <2> QED
      BY <1>6, <1>8, <2>1, OwedCancel
  <1>9. ASSUME NEW g \in DOMAIN gifts, ReverseGift(g)
        PROVE  RootPlayed' /\ ReverseKeys' /\ ReversedLeavesNothing'
    BY <1>0, <1>9, ReverseKeeps
  <1>10. CASE (\E g \in DOMAIN gifts : RefundOrder(g)) \/ MoveRound \/ Tick \/ UNCHANGED vars
    <2>1. UNCHANGED <<lots, ops>> /\ \A g \in DOMAIN Grants : gifts'[g] = "reversed" => gifts[g] = "reversed"
      BY <1>0, <1>10 DEF RefundOrder, MoveRound, Tick, vars
    <2>2. \A l \in DOMAIN lots : \A b \in Buckets : Units(l, b) \in Nat /\ Units(l, b)' = Units(l, b)
      BY <1>0, <2>1, LotNumbers DEF Units
    <2>3. Onward
      BY <2>1, <2>2 DEF Onward, Empty, Buckets
    <2> QED
      BY <1>0, <2>1, <2>3, GoneKept
  <1> QED
    BY <1>2, <1>3, <1>4, <1>5, <1>7, <1>8, <1>9, <1>10 DEF Next, ReleaseEntry, ReleaseStale

\* A gift reversed without a case: nothing of it is left to spend, held or
\* played, in its own lot or in any that was restored from it, and nothing
\* that happens later brings any of it back.
THEOREM ReversedIsGone == Spec => []ReversedLeavesNothing
  <1>1. Gone => ReversedLeavesNothing
    BY DEF Gone
  <1> QED
    BY GoneInit, GoneStep, <1>1, PTL DEF Spec

=============================================================================
