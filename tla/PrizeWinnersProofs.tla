-------------------------- MODULE PrizeWinnersProofs --------------------------
(***************************************************************************)
(* Theorems about the winners of a round: their types, who holds a         *)
(* position, what the ledger pays and keeps explaining, which claims are   *)
(* open, what stays paid, the points credited, and that a draw is declared *)
(* from plays that still count.                                            *)
(***************************************************************************)
EXTENDS PrizeRoundProofs, PrizeWinners, SumTheorems

-----------------------------------------------------------------------------
(* Finite sets in order.                                                   *)

\* A finite set has a member with the greatest key.
LEMMA GreatestKey ==
    ASSUME NEW S, IsFiniteSet(S), S # {}, NEW key, \A x \in S : key[x] \in Int
    PROVE  \E m \in S : \A x \in S : key[x] <= key[m]
  <1> DEFINE Q == {T \in SUBSET S : T = {} \/ \E m \in T : \A x \in T : key[x] <= key[m]}
  <1>1. {} \in Q
    OBVIOUS
  <1>2. ASSUME NEW T \in Q, NEW y \in S \ T PROVE T \cup {y} \in Q
    <2>1. CASE T = {}
      <3>1. \A x \in T \cup {y} : key[x] <= key[y]
        BY <2>1
      <3> QED
        BY <3>1
    <2>2. ASSUME NEW m \in T, \A x \in T : key[x] <= key[m] PROVE T \cup {y} \in Q
      <3>1. CASE key[y] <= key[m]
        <4>1. \A x \in T \cup {y} : key[x] <= key[m]
          BY <2>2, <3>1
        <4> QED
          BY <4>1
      <3>2. CASE ~(key[y] <= key[m])
        <4>1. \A x \in T \cup {y} : key[x] <= key[y]
          BY <2>2, <3>2
        <4> QED
          BY <4>1
      <3> QED
        BY <3>1, <3>2
    <2> QED
      BY <2>1, <2>2
  <1> HIDE DEF Q
  <1>3. \A T \in SUBSET S : T \in Q
    <2>1. Q \in SUBSET SUBSET S
      BY DEF Q
    <2> QED
      BY <1>1, <1>2, <2>1, SetInduction
  <1>4. S \in Q
    BY <1>3
  <1> QED
    BY <1>4 DEF Q

\* What Sorted chooses.
InOrder(r, S, key) ==
    /\ r \in [1..Cardinality(S) -> S]
    /\ \A j, k \in 1..Cardinality(S) : j < k => r[j] # r[k] /\ key[r[j]] <= key[r[k]]

\* A finite set can be put in order, its greatest member last.
LEMMA OrderExists ==
    ASSUME NEW S, IsFiniteSet(S), NEW key, \A x \in S : key[x] \in Int
    PROVE  \E r : InOrder(r, S, key)
  <1> DEFINE Q == {T \in SUBSET S : \E r : InOrder(r, T, key)}
  <1>1. ASSUME NEW T \in SUBSET S, \A U \in SUBSET T : U # T => U \in Q
        PROVE  T \in Q
    <2>1. IsFiniteSet(T)
      BY FS_Subset
    <2>2. CASE T = {}
      <3>1. Cardinality(T) = 0
        BY <2>2, FS_EmptySet
      <3>2. InOrder([k \in 1..Cardinality(T) |-> k], T, key)
        BY <3>1 DEF InOrder
      <3> QED
        BY <3>2
    <2>3. CASE T # {}
      <3>1. PICK m \in T : \A x \in T : key[x] <= key[m]
        BY <2>1, <2>3, GreatestKey
      <3>2. PICK U : U = T \ {m}
        OBVIOUS
      <3>3. PICK r : InOrder(r, U, key)
        BY <1>1, <3>2
      <3>4. PICK n : n = Cardinality(U)
        OBVIOUS
      <3>5. n \in Nat /\ Cardinality(T) = n + 1
        <4>1. IsFiniteSet(U) /\ U \cup {m} = T /\ m \notin U
          BY <2>1, <3>2, FS_Subset
        <4> QED
          BY <3>4, <4>1, FS_AddElement, FS_CardinalityType
      <3> DEFINE s == [k \in 1..(n + 1) |-> IF k = n + 1 THEN m ELSE r[k]]
      <3>6. \A k \in 1..n : r[k] \in U /\ s[k] = r[k]
        BY <3>3, <3>4, <3>5 DEF InOrder
      <3>7. s \in [1..(n + 1) -> T] /\ s[n + 1] = m
        BY <3>2, <3>5, <3>6
      <3>8. ASSUME NEW j \in 1..(n + 1), NEW k \in 1..(n + 1), j < k
            PROVE  s[j] # s[k] /\ key[s[j]] <= key[s[k]]
        <4>1. j \in 1..n
          BY <3>5, <3>8
        <4>2. CASE k \in 1..n
          BY <3>3, <3>4, <3>6, <3>8, <4>1, <4>2 DEF InOrder
        <4>3. CASE k = n + 1
          BY <3>1, <3>2, <3>6, <3>7, <4>1, <4>3
        <4> QED
          BY <3>5, <4>2, <4>3
      <3> HIDE DEF s
      <3>9. InOrder(s, T, key)
        BY <3>5, <3>7, <3>8 DEF InOrder
      <3> QED
        BY <3>9
    <2> QED
      BY <2>2, <2>3
  <1> HIDE DEF Q
  <1>2. \A T \in SUBSET S : T \in Q
    <2>1. Q \in SUBSET SUBSET S
      BY DEF Q
    <2> QED
      BY <1>1, <2>1, SubsetInduction
  <1> QED
    BY <1>2 DEF Q

\* Sorted lists the members of the set, each once.
LEMMA SortedLists ==
    ASSUME NEW S, IsFiniteSet(S), NEW key, \A x \in S : key[x] \in Int
    PROVE  /\ Cardinality(S) \in Nat
           /\ Sorted(S, key) \in [1..Cardinality(S) -> S]
           /\ \A j, k \in 1..Cardinality(S) : Sorted(S, key)[j] = Sorted(S, key)[k] => j = k
           /\ \A x \in S : \E k \in 1..Cardinality(S) : Sorted(S, key)[k] = x
  <1>1. PICK r : InOrder(r, S, key)
    BY OrderExists
  <1>2. InOrder(Sorted(S, key), S, key)
    BY <1>1, Zenon DEF Sorted, InOrder
  <1>3. PICK n \in Nat : n = Cardinality(S)
    BY FS_CardinalityType
  <1>4. ASSUME NEW j \in 1..n, NEW k \in 1..n, j # k
        PROVE  Sorted(S, key)[j] # Sorted(S, key)[k]
    <2>1. j < k \/ k < j
      BY <1>4
    <2> QED
      BY <1>2, <1>3, <2>1 DEF InOrder
  <1>5. ASSUME NEW x \in S PROVE \E k \in 1..n : Sorted(S, key)[k] = x
    <2>1. PICK s : s = Sorted(S, key) /\ s \in [1..n -> S]
      BY <1>2, <1>3 DEF InOrder
    <2>2. s \in Injection(1..n, S)
      BY <1>4, <2>1 DEF Injection, IsInjective
    <2>3. Cardinality(1..n) = n
      BY FS_Interval
    <2>4. s \in Surjection(1..n, S)
      BY <1>3, <2>2, <2>3, FS_Injection
    <2> QED
      BY <2>1, <2>4 DEF Surjection
  <1> QED
    BY <1>2, <1>3, <1>4, <1>5 DEF InOrder

\* A set of numbers up to L that has every smaller number of each of its
\* members is an initial segment.
LEMMA InitialSegment ==
    ASSUME NEW L \in Nat, NEW S \in SUBSET (1..L), \A k \in S : \A j \in 1..k : j \in S
    PROVE  Cardinality(S) \in Nat /\ S = 1..Cardinality(S)
  <1>1. IsFiniteSet(S)
    <2>1. IsFiniteSet(1..L)
      BY FS_Interval
    <2> QED
      BY <2>1, FS_Subset
  <1>2. CASE S = {}
    BY <1>2, FS_EmptySet
  <1>3. CASE S # {}
    <2> DEFINE id == [k \in S |-> k]
    <2>1. PICK m \in S : \A k \in S : id[k] <= id[m]
      <3>1. \A k \in S : id[k] \in Int
        OBVIOUS
      <3> HIDE DEF id
      <3> QED
        BY <1>1, <1>3, <3>1, GreatestKey
    <2>2. \A k \in S : k <= m
      BY <2>1
    <2>3. S = 1..m /\ m \in Nat
      <3>1. m \in 1..L /\ m \in Nat
        OBVIOUS
      <3>2. \A j \in 1..m : j \in S
        OBVIOUS
      <3>3. ASSUME NEW k \in S PROVE k \in 1..m
        <4>1. k \in 1..L /\ k <= m
          BY <2>2
        <4> QED
          BY <3>1, <4>1
      <3> QED
        BY <3>1, <3>2, <3>3
    <2>4. Cardinality(1..m) = m
      BY <2>3, FS_Interval
    <2> QED
      BY <2>3, <2>4
  <1> QED
    BY <1>2, <1>3


-----------------------------------------------------------------------------
(* The inductive invariant. Requests in flight carry rows planned from an  *)
(* earlier state, so it says of them what it says of the winners there are. *)

\* Rows planned for new winners: not yet validated, no claim, nothing paid, for
\* one of the prizes; one to a customer, and one of those still in play to a
\* position.
NewRows(rows) ==
    /\ rows \in Seq(Winner)
    /\ \A k \in DOMAIN rows :
         /\ rows[k].status \in {"pending_validation", "disqualified"}
         /\ rows[k].claim = "none" /\ rows[k].position <= NumberOfWinners
         /\ rows[k].settlement =
              IF rows[k].status = "disqualified" THEN "not_applicable" ELSE "pending"
    /\ \A j, k \in DOMAIN rows :
         /\ rows[j].customer = rows[k].customer => j = k
         /\ /\ rows[j].status = "pending_validation" /\ rows[k].status = "pending_validation"
            /\ rows[j].position = rows[k].position
            => j = k

\* The round no longer runs, all its plays are sold, and no winner of a score
\* or a draw is recorded before the result.
Stopped ==
    /\ status \in {"closed", "frozen", "finalised", "cancelled"}
    /\ Plays \subseteq 1..MaxPlays
    /\ method # "instant" /\ status # "finalised" => winners = <<>>

\* One row: for one of the prizes, not paid before it is validated, a claim open from then on only.
Held(row) == row.status \in {"pending_validation", "validated"}
WinnerFits(row) ==
    /\ row.position <= NumberOfWinners
    /\ row.status = "pending_validation" => row.settlement = "pending"
    /\ row.status = "validated" => row.claim # "none"
    /\ row.claim \in {"pending", "claimed", "verified"} => row.status = "validated"

\* The entries that pay winner w, and those a row should have.
PaymentsTo(entries, w) ==
    {n \in DOMAIN entries : entries[n].type = "winner_settlement" /\ entries[n].ref = w}
PaidRight(row, paid, entries) ==
    IF row.settlement = "settled"
      THEN /\ Cardinality(paid) = 1
           /\ \A n \in paid : entries[n].delta = -row.value
           /\ row.claim # "none"
      ELSE paid = {}

\* The winners and the ledger together.
Desk(rows, entries) ==
    /\ rows \in Seq(Winner)
    /\ \A w \in DOMAIN rows : /\ WinnerFits(rows[w])
                             /\ PaidRight(rows[w], PaymentsTo(entries, w), entries)
    /\ \A n \in DOMAIN entries :
         entries[n].type = "winner_settlement" => entries[n].ref \in DOMAIN rows
    /\ \A v, w \in DOMAIN rows :
         /\ Held(rows[v]) /\ Held(rows[w]) /\ rows[v].position = rows[w].position => v = w
         /\ rows[v].customer = rows[w].customer => v = w

\* A finalisation is of a score round and a draw of a draw; a draw names
\* plays it drew from.
DeclaringFits ==
    /\ declaring.stage \in {"idle", "reject", "again", "apply", "draw"}
    /\ declaring.stage \in {"reject", "again", "apply"} => method = "score"
    /\ declaring.stage \in {"reject", "again"} => declaring.total \in Nat
    /\ declaring.stage \in {"apply", "draw"} => NewRows(declaring.rows)
    /\ declaring.stage = "draw" =>
         /\ method = "draw"
         /\ \A k \in DOMAIN declaring.rows : declaring.rows[k].attempt \in declaring.entries

\* A replacement takes the position of the winner it replaces.
RequestFits(r, rows) ==
    /\ r.winner \in DOMAIN rows /\ r.status \in {"disqualified", "unclaimed"}
    /\ NewRows(r.rows)
    /\ \A k \in DOMAIN r.rows :
         Held(r.rows[k]) => r.rows[k].position = rows[r.winner].position

DeskTypes ==
    TypeOK /\ tampered \subseteq Plays /\ ineligible \subseteq Customers /\ lapsed \subseteq Winning

\* All of it.
DeskInv ==
    /\ DeskTypes /\ Stopped /\ Desk(winners, ledger) /\ DeclaringFits
    /\ \A r \in replacing : RequestFits(r, winners)

-----------------------------------------------------------------------------
(* The rows a request plans.                                               *)

LEMMA RankedLists ==
    ASSUME TypeOK, Stopped, NEW S \in SUBSET Plays
    PROVE  /\ Cardinality(S) \in Nat
           /\ Ranked(S) \in [1..Cardinality(S) -> S]
           /\ \A j, k \in 1..Cardinality(S) : Ranked(S)[j] = Ranked(S)[k] => j = k
  <1>1. IsFiniteSet(S)
    BY PlaysFinite DEF TypeOK
  <1>2. PICK key : key = [i \in S |-> -Score[i]]
    OBVIOUS
  <1>3. \A i \in S : key[i] \in Int
    BY <1>2, WinnersAssumption DEF Stopped
  <1>4. Ranked(S) = Sorted(S, key)
    BY <1>2, Zenon DEF Ranked
  <1> QED
    BY <1>1, <1>3, <1>4, SortedLists

\* A player has one best play.
LEMMA OneBestPlay ==
    ASSUME TypeOK, Stopped, NEW i \in Plays, NEW j \in Plays, Best(i), Best(j),
           attempts[i].customer = attempts[j].customer
    PROVE  i = j
  <1>1. i \in 1..MaxPlays /\ j \in 1..MaxPlays /\ Score[i] \in Nat /\ Score[j] \in Nat
    BY WinnersAssumption DEF Stopped
  <1>2. Score[i] <= Score[j] /\ Score[j] <= Score[i]
    BY DEF Best, By
  <1> QED
    BY <1>1, <1>2, WinnersAssumption

\* How many eligible players are ahead in a ranking.
IsEligible(ranked, k) == attempts[ranked[k]].customer \notin ineligible
CountAhead(ranked, k) == Cardinality({j \in 1..(k - 1) : IsEligible(ranked, j)})

LEMMA AheadGrows ==
    ASSUME NEW ranked, NEW j \in Nat \ {0}, NEW k \in Nat, j < k
    PROVE  /\ CountAhead(ranked, j) \in Nat /\ CountAhead(ranked, k) \in Nat
           /\ CountAhead(ranked, j) <= CountAhead(ranked, k)
           /\ IsEligible(ranked, j) => CountAhead(ranked, j) < CountAhead(ranked, k)
  <1>1. PICK A : A = {i \in 1..(j - 1) : IsEligible(ranked, i)}
    OBVIOUS
  <1>2. PICK B : B = {i \in 1..(k - 1) : IsEligible(ranked, i)}
    OBVIOUS
  <1>3. IsFiniteSet(1..(k - 1))
    BY FS_Interval
  <1>4. IsFiniteSet(B) /\ A \subseteq B
    BY <1>1, <1>2, <1>3, FS_Subset
  <1>5. j \notin A /\ (IsEligible(ranked, j) => j \in B)
    BY <1>1, <1>2
  <1>6. IsFiniteSet(A) /\ Cardinality(A) <= Cardinality(B) /\ (Cardinality(B) = Cardinality(A) => B = A)
    BY <1>4, FS_Subset
  <1>7. Cardinality(A) \in Nat /\ Cardinality(B) \in Nat
    BY <1>4, <1>6, FS_CardinalityType
  <1>8. CountAhead(ranked, j) = Cardinality(A) /\ CountAhead(ranked, k) = Cardinality(B)
    BY <1>1, <1>2, Zenon DEF CountAhead
  <1> QED
    BY <1>5, <1>6, <1>7, <1>8

LEMMA AheadType ==
    ASSUME NEW ranked, NEW k \in Nat
    PROVE  CountAhead(ranked, k) \in Nat
  <1>1. PICK A : A = {i \in 1..(k - 1) : IsEligible(ranked, i)}
    OBVIOUS
  <1>2. IsFiniteSet(1..(k - 1)) /\ A \subseteq 1..(k - 1)
    BY <1>1, FS_Interval
  <1>3. Cardinality(A) \in Nat
    BY <1>2, FS_Subset, FS_CardinalityType
  <1> QED
    BY <1>1, <1>3, Zenon DEF CountAhead

LEMMA WinnerRowType ==
    ASSUME TypeOK, NEW i \in Plays, NEW position \in Nat \ {0},
           NEW st \in {"pending_validation", "disqualified"}, NEW value \in Nat \cup {Unset}
    PROVE  /\ Row(i, position, st, value) \in Winner
           /\ Row(i, position, st, value).customer = attempts[i].customer
           /\ Row(i, position, st, value).attempt = i
           /\ Row(i, position, st, value).position = position
           /\ Row(i, position, st, value).status = st
           /\ Row(i, position, st, value).claim = "none"
           /\ Row(i, position, st, value).settlement =
                IF st = "disqualified" THEN "not_applicable" ELSE "pending"
  <1>1. attempts[i].customer \in Customers /\ i \in Nat
    <2>1. attempts[i] \in Attempt
      BY DEF TypeOK, Plays
    <2> QED
      BY <2>1, PlaysFinite DEF Attempt, TypeOK
  <1> QED
    BY <1>1 DEF Row, Winner

\* The prizes of n positions, counted from one; the rows planned for them.
PrizesFor(n, from, values) ==
    /\ n \in Nat \ {0} /\ from \in Nat \ {0} /\ from + n <= NumberOfWinners + 1
    /\ \A k \in 1..n : values[k] \in Nat \cup {Unset}
RowsFor(rows, n, from) ==
    NewRows(rows) /\ (n = 1 => \A k \in DOMAIN rows : rows[k].position = from)

LEMMA PlanFits ==
    ASSUME TypeOK, Stopped, NEW S \in SUBSET Plays, \A i \in S : Best(i),
           NEW n, NEW from, NEW values, PrizesFor(n, from, values)
    PROVE  RowsFor(PlanWinners(Ranked(S), n, from, values), n, from)
  <1>a. PICK L, ranked :
          /\ L \in Nat /\ ranked = Ranked(S) /\ ranked \in [1..L -> S]
          /\ \A j, k \in 1..L : ranked[j] = ranked[k] => j = k
    BY RankedLists
  <1>b. \A i, j \in S : attempts[i].customer = attempts[j].customer => i = j
    BY OneBestPlay
  <1>c. /\ n \in Nat \ {0} /\ from \in Nat \ {0} /\ from + n <= NumberOfWinners + 1
        /\ \A k \in 1..n : values[k] \in Nat \cup {Unset}
    BY DEF PrizesFor
  <1> DEFINE Ahead(k) == CountAhead(ranked, k)
             Eligible(k) == IsEligible(ranked, k)
             T == {k \in 1..L : Ahead(k) < n}
             row(k) == IF Eligible(k)
                         THEN Row(ranked[k], from + Ahead(k), "pending_validation", values[1 + Ahead(k)])
                         ELSE Row(ranked[k], from + Ahead(k), "disqualified", Unset)
  <1>1. PICK m \in Nat : m = Cardinality(T) /\ T = 1..m
    <2>1. T \in SUBSET (1..L)
      OBVIOUS
    <2>2. ASSUME NEW k \in T, NEW j \in 1..k PROVE j \in T
      <3>1. k \in 1..L /\ Ahead(k) < n /\ j \in 1..L
        BY <1>a
      <3>2. CASE j = k
        BY <3>2
      <3>3. CASE j < k
        BY <1>c, <3>1, <3>3, AheadGrows
      <3> QED
        BY <3>1, <3>2, <3>3
    <2> HIDE DEF T
    <2> QED
      BY <1>a, <2>1, <2>2, InitialSegment
  <1>2. PlanWinners(ranked, n, from, values) = [k \in 1..m |-> row(k)]
    <2>1. DOMAIN ranked = 1..L
      BY <1>a
    <2> QED
      BY <1>1, <2>1, Zenon DEF PlanWinners, IsEligible, CountAhead
  <1>3. ASSUME NEW k \in 1..m
        PROVE  /\ k \in 1..L /\ Ahead(k) \in Nat /\ Ahead(k) < n
               /\ ranked[k] \in S /\ ranked[k] \in Plays
    <2>1. k \in T
      BY <1>1
    <2> QED
      BY <1>a, <2>1, AheadType
  <1>4. ASSUME NEW k \in 1..m
        PROVE  /\ row(k) \in Winner
               /\ row(k).customer = attempts[ranked[k]].customer
               /\ row(k).position = from + Ahead(k)
               /\ row(k).status = IF Eligible(k) THEN "pending_validation" ELSE "disqualified"
               /\ row(k).claim = "none"
               /\ row(k).settlement =
                    IF row(k).status = "disqualified" THEN "not_applicable" ELSE "pending"
    <2>1. PICK a \in Nat : a = Ahead(k) /\ 1 + a \in 1..n /\ from + a \in Nat \ {0}
      BY <1>3, <1>c
    <2>2. PICK q \in Nat \ {0}, v \in Nat \cup {Unset}, u \in Nat \cup {Unset} :
            q = from + a /\ v = values[1 + a] /\ u = Unset
      BY <1>c, <2>1
    <2>3. PICK i \in Plays : i = ranked[k]
      BY <1>3
    <2> DEFINE p == Row(i, q, "pending_validation", v)
               d == Row(i, q, "disqualified", u)
    <2>4. row(k) = IF Eligible(k) THEN p ELSE d
      BY <2>1, <2>2, <2>3, Zenon
    <2>5. /\ p \in Winner /\ p.customer = attempts[i].customer /\ p.position = q
          /\ p.status = "pending_validation" /\ p.claim = "none" /\ p.settlement = "pending"
      BY WinnerRowType
    <2>6. /\ d \in Winner /\ d.customer = attempts[i].customer /\ d.position = q
          /\ d.status = "disqualified" /\ d.claim = "none" /\ d.settlement = "not_applicable"
      BY WinnerRowType
    <2> HIDE DEF p, d, row, Ahead, Eligible
    <2> QED
      BY <2>1, <2>2, <2>3, <2>4, <2>5, <2>6
  <1>5. ASSUME NEW j \in 1..m, NEW k \in 1..m, row(j).customer = row(k).customer
        PROVE  j = k
    BY <1>3, <1>4, <1>5, <1>a, <1>b
  <1>6. ASSUME NEW j \in 1..m, NEW k \in 1..m, row(j).position = row(k).position,
               row(j).status = "pending_validation", row(k).status = "pending_validation"
        PROVE  j = k
    <2>1. Ahead(j) = Ahead(k)
      BY <1>3, <1>4, <1>6, <1>c
    <2>2. Eligible(j) /\ Eligible(k)
      BY <1>4, <1>6
    <2>3. ~(j < k) /\ ~(k < j)
      BY <1>3, <2>1, <2>2, AheadGrows
    <2> QED
      BY <2>3
  <1>7. PICK rows : rows = PlanWinners(ranked, n, from, values) /\ rows = [k \in 1..m |-> row(k)]
    BY <1>2
  <1> HIDE DEF row
  <1>8. rows \in Seq(Winner) /\ DOMAIN rows = 1..m /\ \A k \in 1..m : rows[k] = row(k)
    BY <1>4, <1>7
  <1>9. NewRows(rows)
    <2>1. \A k \in 1..m : rows[k].position <= NumberOfWinners
      BY <1>3, <1>4, <1>8, <1>c, WinnersAssumption
    <2> QED
      BY <1>4, <1>5, <1>6, <1>8, <2>1 DEF NewRows
  <1>10. ASSUME n = 1, NEW k \in 1..m PROVE rows[k].position = from
    BY <1>3, <1>4, <1>8, <1>10, <1>c
  <1>11. RowsFor(rows, n, from)
    BY <1>8, <1>9, <1>10 DEF RowsFor
  <1> QED
    BY <1>7, <1>11, <1>a

-----------------------------------------------------------------------------
(* What may become of the winners and the ledger.                          *)

LEMMA DeskShows ==
    ASSUME Desk(winners, ledger)
    PROVE  SettlementsMatchLedger /\ OneHolderPerPosition /\ OpenClaimsAreValid
  <1>1. SettlementsMatchLedger
    <2>1. \A w \in Winning : PaidRight(winners[w], PaymentsTo(ledger, w), ledger)
      BY DEF Desk, Winning
    <2> QED
      BY <2>1, Zenon DEF SettlementsMatchLedger, PaidRight, PaymentsTo
  <1>2. OneHolderPerPosition
    BY DEF Desk, OneHolderPerPosition, Holding, Held, Winning
  <1>3. OpenClaimsAreValid
    BY DEF Desk, OpenClaimsAreValid, WinnerFits, Winning
  <1> QED
    BY <1>1, <1>2, <1>3

\* An entry that pays no winner.
LEMMA DeskEntry ==
    ASSUME NEW rows, NEW entries, entries \in Seq(PrizeEntry), Desk(rows, entries),
           NEW e, e.type # "winner_settlement"
    PROVE  Desk(rows, Append(entries, e))
  <1>1. PICK more : more = Append(entries, e)
    OBVIOUS
  <1>2. /\ DOMAIN more = DOMAIN entries \cup {Len(entries) + 1}
        /\ more[Len(entries) + 1] = e /\ \A n \in DOMAIN entries : more[n] = entries[n]
    BY <1>1
  <1>3. \A w : PaymentsTo(more, w) = PaymentsTo(entries, w)
    BY <1>2 DEF PaymentsTo
  <1>4. \A w \in DOMAIN rows : PaidRight(rows[w], PaymentsTo(more, w), more)
    <2>1. \A w : PaymentsTo(entries, w) \subseteq DOMAIN entries
      BY DEF PaymentsTo
    <2> QED
      BY <1>2, <1>3, <2>1 DEF Desk, PaidRight
  <1>5. Desk(rows, more)
    BY <1>2, <1>4 DEF Desk
  <1> QED
    BY <1>1, <1>5

\* A change of one row that pays it nothing and keeps whose it is.
SameWinner(row, old) ==
    /\ row \in Winner /\ WinnerFits(row)
    /\ row.customer = old.customer /\ row.position = old.position /\ row.value = old.value
    /\ Held(row) => Held(old)
    /\ row.settlement = "settled" <=> old.settlement = "settled"
    /\ old.claim # "none" => row.claim # "none"

LEMMA DeskRow ==
    ASSUME NEW rows, NEW entries, Desk(rows, entries), NEW w \in DOMAIN rows, NEW row,
           SameWinner(row, rows[w])
    PROVE  /\ Desk([rows EXCEPT ![w] = row], entries)
           /\ DOMAIN [rows EXCEPT ![w] = row] = DOMAIN rows
           /\ \A v \in DOMAIN rows : /\ [rows EXCEPT ![w] = row][v].position = rows[v].position
                                     /\ [rows EXCEPT ![w] = row][v].customer = rows[v].customer
  <1>1. PICK s : s = [rows EXCEPT ![w] = row]
    OBVIOUS
  <1>2. s \in Seq(Winner) /\ DOMAIN s = DOMAIN rows
    BY <1>1 DEF Desk, SameWinner
  <1>3. \A v \in DOMAIN rows : s[v] = IF v = w THEN row ELSE rows[v]
    BY <1>1
  <1>4. \A v \in DOMAIN rows : /\ s[v].customer = rows[v].customer
                               /\ s[v].position = rows[v].position
                               /\ Held(s[v]) => Held(rows[v])
                               /\ WinnerFits(s[v])
    BY <1>3 DEF Desk, SameWinner
  <1>5. \A v \in DOMAIN rows : PaidRight(s[v], PaymentsTo(entries, v), entries)
    <2>1. PaidRight(row, PaymentsTo(entries, w), entries)
      BY DEF Desk, SameWinner, PaidRight
    <2> QED
      BY <1>3, <2>1 DEF Desk
  <1>6. Desk(s, entries)
    BY <1>2, <1>4, <1>5 DEF Desk
  <1> QED
    BY <1>1, <1>2, <1>4, <1>6

\* New rows, of other customers and for positions no one holds.
Fresh(more, rows) ==
    \A k \in DOMAIN more, v \in DOMAIN rows :
      /\ more[k].customer # rows[v].customer
      /\ Held(more[k]) /\ Held(rows[v]) => more[k].position # rows[v].position

LEMMA DeskRows ==
    ASSUME NEW rows, NEW entries, Desk(rows, entries), NEW more, NewRows(more), Fresh(more, rows)
    PROVE  /\ Desk(rows \o more, entries)
           /\ DOMAIN rows \subseteq DOMAIN (rows \o more)
           /\ \A v \in DOMAIN rows : (rows \o more)[v] = rows[v]
  <1>1. /\ rows \in Seq(Winner) /\ more \in Seq(Winner)
        /\ Len(rows) \in Nat /\ Len(more) \in Nat
        /\ DOMAIN rows = 1..Len(rows) /\ DOMAIN more = 1..Len(more)
    BY DEF Desk, NewRows
  <1>2. PICK s : s = rows \o more
    OBVIOUS
  <1>3. /\ s \in Seq(Winner) /\ Len(s) = Len(rows) + Len(more) /\ DOMAIN s = 1..Len(s)
        /\ \A v \in DOMAIN rows : s[v] = rows[v] /\ v \in DOMAIN s
    BY <1>1, <1>2
  <1>4. ASSUME NEW v \in DOMAIN s, v \notin DOMAIN rows
        PROVE  v - Len(rows) \in DOMAIN more /\ s[v] = more[v - Len(rows)]
    <2>1. v \in 1..(Len(rows) + Len(more)) /\ v > Len(rows)
      BY <1>1, <1>3, <1>4
    <2> QED
      BY <1>1, <1>2, <2>1
  <1>5. ASSUME NEW w \in DOMAIN s
        PROVE  WinnerFits(s[w]) /\ PaidRight(s[w], PaymentsTo(entries, w), entries)
    <2>1. CASE w \in DOMAIN rows
      BY <1>3, <2>1 DEF Desk
    <2>2. CASE w \notin DOMAIN rows
      <3>1. PICK row : row = s[w]
        OBVIOUS
      <3>2. /\ row.claim = "none" /\ row.status \in {"pending_validation", "disqualified"}
            /\ row.settlement = IF row.status = "disqualified" THEN "not_applicable" ELSE "pending"
            /\ row.position <= NumberOfWinners
        BY <1>4, <2>2, <3>1 DEF NewRows
      <3>3. PaymentsTo(entries, w) = {}
        BY <2>2 DEF PaymentsTo, Desk
      <3> QED
        BY <3>1, <3>2, <3>3 DEF WinnerFits, PaidRight
    <2> QED
      BY <2>1, <2>2
  <1>6. ASSUME NEW v \in DOMAIN s, NEW w \in DOMAIN s
        PROVE  /\ Held(s[v]) /\ Held(s[w]) /\ s[v].position = s[w].position => v = w
               /\ s[v].customer = s[w].customer => v = w
    <2>1. CASE v \in DOMAIN rows /\ w \in DOMAIN rows
      BY <1>3, <2>1 DEF Desk
    <2>2. CASE v \in DOMAIN rows /\ w \notin DOMAIN rows
      BY <1>3, <1>4, <2>2 DEF Fresh
    <2>3. CASE v \notin DOMAIN rows /\ w \in DOMAIN rows
      BY <1>3, <1>4, <2>3 DEF Fresh
    <2>4. CASE v \notin DOMAIN rows /\ w \notin DOMAIN rows
      <3>1. PICK j \in DOMAIN more, k \in DOMAIN more :
              /\ j = v - Len(rows) /\ k = w - Len(rows) /\ s[v] = more[j] /\ s[w] = more[k]
        BY <1>4, <2>4
      <3>2. j = k => v = w
        BY <1>1, <1>3, <3>1
      <3>3. /\ more[j].customer = more[k].customer => j = k
            /\ Held(more[j]) /\ Held(more[k]) /\ more[j].position = more[k].position => j = k
        BY DEF NewRows, Held
      <3> QED
        BY <3>1, <3>2, <3>3
    <2> QED
      BY <2>1, <2>2, <2>3, <2>4
  <1>7. \A n \in DOMAIN entries :
          entries[n].type = "winner_settlement" => entries[n].ref \in DOMAIN s
    BY <1>3 DEF Desk
  <1>8. Desk(s, entries)
    BY <1>3, <1>5, <1>6, <1>7 DEF Desk
  <1> QED
    BY <1>2, <1>3, <1>8

LEMMA DeskIsTyped ==
    ASSUME DeskInv
    PROVE  WinnersTypeOK
  <1>1. \A r \in replacing : \A k \in DOMAIN r.rows : r.rows[k] \in Winner
    BY DEF DeskInv, RequestFits, NewRows
  <1> QED
    BY <1>1 DEF DeskInv, DeskTypes, WinnersTypeOK, DeclaringFits, RequestFits, Winning

-----------------------------------------------------------------------------
(* The steps of the round itself. None sells a play or names a winner, and *)
(* what they post pays no one.                                             *)

LEMMA RoundStep ==
    ASSUME DeskInv, Next
    PROVE  /\ TypeOK' /\ Stopped' /\ Desk(winners', ledger')
           /\ UNCHANGED <<winners, method>> /\ Plays' = Plays
           /\ status # "finalised" => status' # "finalised"
  <1>1. TypeOK /\ TypeOK'
    BY TypeStep DEF DeskInv, DeskTypes
  <1>2. status \in {"closed", "frozen", "finalised", "cancelled"} /\ ledger \in Seq(PrizeEntry)
    BY <1>1 DEF DeskInv, Stopped, TypeOK
  <1>3. /\ status' \in {"closed", "frozen", "finalised", "cancelled"}
        /\ status' = "finalised" <=> status = "finalised"
    BY <1>2, NextMovesStatus DEF StatusMove
  <1>4. ASSUME NEW type, type # "winner_settlement", NEW delta, NEW ref, NEW more, NEW newcomers,
               PostPrize(type, delta, ref, more, newcomers)
        PROVE  Desk(winners, ledger')
    <2>1. PICK e : /\ e = [type |-> type, delta |-> delta, after |-> current + delta, ref |-> ref]
                   /\ ledger' = Append(ledger, e) \/ ledger' = ledger
      BY <1>4 DEF PostPrize
    <2>2. e.type # "winner_settlement"
      BY <1>4, <2>1
    <2>3. Desk(winners, ledger)
      BY DEF DeskInv
    <2>4. CASE ledger' = Append(ledger, e)
      BY <1>2, <2>2, <2>3, <2>4, DeskEntry
    <2>5. CASE ledger' = ledger
      BY <2>3, <2>5
    <2> QED
      BY <2>1, <2>4, <2>5
  <1>5. Desk(winners, ledger') /\ UNCHANGED <<winners, method>> /\ Plays' = Plays
    <2>1. Desk(winners, ledger)
      BY DEF DeskInv
    <2>2. CASE Schedule \/ SyncClose \/ SyncOpen \/ Pause \/ Resume \/ Close
      BY <1>2, <2>1, <2>2 DEF Schedule, SyncClose, SyncOpen, Pause, Resume, Close, Unchanging,
                              clockVars, prizeVars
    <2>3. ASSUME NEW s, NEW w, Update(s, w) PROVE FALSE
      BY <1>2, <2>3 DEF Update
    <2>4. ASSUME NEW c, NEW k, NEW now, PlaySkill(c, k, now) \/ PlayChance(c, k, now) \/ PlayWin(c, k, now)
          PROVE  FALSE
      BY <1>2, <2>4 DEF PlaySkill, PlayChance, PlayWin, StartPlay
    <2>5. CASE Wait \/ Tick \/ NextDay
      BY <2>1, <2>5 DEF Wait, Tick, NextDay, prizeVars, Plays
    <2>6. ASSUME NEW i \in Plays,
                 \/ SubmitOfficial(i) \/ ExpireSession(i) \/ ReadForReview(i)
                 \/ \E v \in {"accepted", "manual_review", "rejected"} : SaveOfficialScore(i, v)
                 \/ \E v \in {"accepted", "rejected"} : ReviewSubmission(i, v)
          PROVE  UNCHANGED <<winners, method, ledger>> /\ Plays' = Plays
      BY <2>6 DEF SubmitOfficial, ExpireSession, ReadForReview, SaveOfficialScore,
                  ReviewSubmission, ScoresOnly, clockVars, prizeVars, Plays
    <2>7. CASE Freeze
      BY <2>1, <2>7 DEF Freeze, ExpireSessions, Unchanging, clockVars, prizeVars, Plays
    <2>8. CASE Cancel
      <3>1. UNCHANGED <<winners, method>> /\ Plays' = Plays
        BY <2>8 DEF Cancel, ExpireSessions, AllVoided, clockVars, Plays
      <3>2. CASE UNCHANGED prizeVars
        BY <2>1, <3>1, <3>2 DEF prizeVars
      <3>3. CASE PostPrize("correction", -current, 0, 0, 0)
        BY <1>4, <3>1, <3>3
      <3> QED
        BY <2>8, <3>2, <3>3 DEF Cancel
    <2>9. ASSUME NEW d, AdjustPrize(d)
          PROVE  Desk(winners, ledger') /\ UNCHANGED <<winners, method>> /\ Plays' = Plays
      <3>1. UNCHANGED <<winners, method>> /\ Plays' = Plays
        BY <2>9 DEF AdjustPrize, clockVars, Plays
      <3>2. PostPrize("admin_adjustment", d, 0, 0, 0)
        BY <2>9 DEF AdjustPrize
      <3> QED
        BY <1>4, <3>1, <3>2
    <2>10. ASSUME NEW i \in Plays, NEW refund \in BOOLEAN, NEW reverse \in BOOLEAN,
                  VoidPlay(i, refund, reverse)
           PROVE  Desk(winners, ledger') /\ UNCHANGED <<winners, method>> /\ Plays' = Plays
      <3>1. UNCHANGED <<winners, method>> /\ Plays' = Plays
        BY <2>10 DEF VoidPlay, clockVars, Plays
      <3>2. CASE PostPrize("play_reversal", -attempts[i].increment, i, -1, 0)
        BY <1>4, <3>1, <3>2
      <3>3. CASE PostPrize("", 0, i, -1, 0)
        BY <1>4, <3>1, <3>3
      <3> QED
        BY <2>10, <3>2, <3>3 DEF VoidPlay
    <2> QED
      BY <2>1, <2>2, <2>3, <2>4, <2>5, <2>6, <2>7, <2>8, <2>9, <2>10 DEF Next
  <1> QED
    BY <1>1, <1>3, <1>5 DEF DeskInv, Stopped

\* A step that leaves the requests in flight be, or drops some.
LEMMA DeskFrame ==
    ASSUME DeskInv, DeskTypes', Stopped', Desk(winners', ledger'), method' = method,
           Winning \subseteq Winning', declaring' = declaring \/ declaring' = Idle,
           replacing' \subseteq replacing,
           \A w \in Winning : winners'[w].position = winners[w].position
    PROVE  DeskInv'
  <1>1. DeclaringFits'
    BY DEF DeskInv, DeclaringFits, Idle
  <1>2. ASSUME NEW r \in replacing' PROVE RequestFits(r, winners')
    BY DEF DeskInv, RequestFits, Winning
  <1> QED
    BY <1>1, <1>2 DEF DeskInv

\* One that changes one winner's row and nothing of the round's.
LEMMA DeskOneRow ==
    ASSUME DeskInv, NEW w \in Winning, NEW row, SameWinner(row, winners[w]),
           winners' = [winners EXCEPT ![w] = row],
           UNCHANGED <<ledger, method, status, attempts, deskVars>>, TypeOK', winners # <<>>
    PROVE  DeskInv'
  <1>1. /\ Desk(winners', ledger') /\ Winning' = Winning
        /\ \A v \in Winning : winners'[v].position = winners[v].position
    BY DeskRow DEF DeskInv, Winning
  <1>2. DeskTypes' /\ Stopped'
    BY <1>1 DEF DeskInv, DeskTypes, Stopped, deskVars, Plays
  <1> QED
    BY <1>1, <1>2, DeskFrame DEF deskVars

-----------------------------------------------------------------------------
(* Declaring the result.                                                   *)

LEMMA SplitType ==
    ASSUME NEW total \in Nat, NEW n \in Nat \ {0}
    PROVE  /\ DOMAIN SplitPrize(total, n) = 1..n
           /\ \A p \in 1..n : SplitPrize(total, n)[p] \in Nat
  <1>1. total \div n \in Nat /\ total % n \in Nat
    OBVIOUS
  <1> QED
    BY <1>1 DEF SplitPrize

LEMMA PrizeToPay == ASSUME TypeOK PROVE Coalesce(final, current) \in Nat
  BY DEF TypeOK, Coalesce, Unset

LEMMA FinaliseReadStep ==
    ASSUME DeskInv, FinaliseRead
    PROVE  DeskInv'
  <1> DEFINE total == IF declaring = Idle THEN Coalesce(final, current) ELSE declaring.total
             S == {i \in Plays : Best(i)}
  <1>1. DeskTypes /\ TypeOK /\ Stopped
    BY DEF DeskInv, DeskTypes
  <1>2. method = "score" /\ total \in Nat
    BY <1>1, PrizeToPay DEF FinaliseRead, DeskInv, DeclaringFits
  <1>3. UNCHANGED <<vars, tampered, ineligible, lapsed, replacing>>
    BY Zenon DEF FinaliseRead, Reading
  <1> HIDE DEF total
  <1>4. PICK bad : declaring' = IF bad # {} THEN [stage |-> "reject", total |-> total, bad |-> bad]
             ELSE [stage |-> "apply", rows |->
                     PlanWinners(RankedAccepted, NumberOfWinners, 1, SplitPrize(total, NumberOfWinners))]
    BY Zenon DEF FinaliseRead, total
  <1>5. NewRows(PlanWinners(RankedAccepted, NumberOfWinners, 1, SplitPrize(total, NumberOfWinners)))
    <2>1. NumberOfWinners \in Nat \ {0}
      BY WinnersAssumption
    <2>2. PICK values, from : values = SplitPrize(total, NumberOfWinners) /\ from = 1
      OBVIOUS
    <2>3. PrizesFor(NumberOfWinners, from, values)
      BY <1>2, <2>1, <2>2, SplitType DEF PrizesFor
    <2>4. S \in SUBSET Plays /\ \A i \in S : Best(i)
      OBVIOUS
    <2>5. RankedAccepted = Ranked(S)
      BY Zenon DEF RankedAccepted
    <2> HIDE DEF S
    <2>6. RowsFor(PlanWinners(Ranked(S), NumberOfWinners, from, values), NumberOfWinners, from)
      BY <1>1, <2>3, <2>4, PlanFits
    <2> QED
      BY <2>2, <2>5, <2>6 DEF RowsFor
  <1>6. DeclaringFits'
    <2>1. method' = "score"
      BY <1>2, <1>3 DEF vars
    <2>2. CASE bad # {}
      BY <1>2, <1>4, <2>1, <2>2 DEF DeclaringFits
    <2>3. CASE bad = {}
      BY <1>4, <1>5, <2>1, <2>3 DEF DeclaringFits
    <2> QED
      BY <2>2, <2>3
  <1> QED
    BY <1>3, <1>6 DEF DeskInv, DeskTypes, TypeOK, Stopped, vars, Plays, Winning

LEMMA FinaliseRejectStep ==
    ASSUME DeskInv, FinaliseReject
    PROVE  DeskInv'
  <1>1. TypeOK /\ DeclaringFits
    BY DEF DeskInv, DeskTypes
  <1>2. /\ UNCHANGED <<method, unit, status, clock, day, began, start, current, final, plays, players,
                       edits, ledger, wallet, points, winners, checked,
                       tampered, ineligible, lapsed, replacing>>
        /\ declaring' = [stage |-> "again", total |-> declaring.total]
        /\ declaring.stage = "reject"
    BY DEF FinaliseReject, ScoresOnly, clockVars, prizeVars, pointVars
  <1>3. attempts' \in Seq(Attempt) /\ Plays' = Plays
    <2>1. ASSUME NEW i \in Plays
          PROVE  /\ attempts[i] \in Attempt
                 /\ [attempts[i] EXCEPT !.score = "rejected", !.status = "rejected"] \in Attempt
      <3>1. PICK row \in Attempt : row = attempts[i]
        BY <1>1 DEF TypeOK, Plays
      <3>2. [row EXCEPT !.score = "rejected", !.status = "rejected"] \in Attempt
        BY DEF Attempt
      <3> QED
        BY <3>1, <3>2
    <2>2. /\ attempts' = [i \in Plays |-> attempts'[i]]
          /\ \A i \in Plays : attempts'[i] \in Attempt
      BY <2>1 DEF FinaliseReject
    <2>3. attempts' \in Seq(Attempt) /\ Len(attempts') = Len(attempts)
      BY <1>1, <2>2, RowsType DEF Plays, TypeOK
    <2> QED
      BY <1>1, <2>3, PlaysFinite DEF Plays, TypeOK
  <1>4. DeclaringFits'
    BY <1>1, <1>2 DEF DeclaringFits
  <1> QED
    BY <1>2, <1>3, <1>4 DEF DeskInv, DeskTypes, TypeOK, Stopped, Winning

\* The result of a round without winners so far.
LEMMA DeclaredStep ==
    ASSUME DeskInv, declaring.stage \in {"apply", "draw"}, status # "finalised",
           winners' = winners \o declaring.rows, status' = "finalised", declaring' = Idle,
           TypeOK /\ winners' \in Seq(Winner) => TypeOK',
           Plays' = Plays, UNCHANGED <<ledger, method, tampered, ineligible, lapsed, replacing>>
    PROVE  DeskInv' /\ winners' = declaring.rows
  <1>1. NewRows(declaring.rows) /\ method # "instant"
    BY DEF DeskInv, DeclaringFits
  <1>2. winners = <<>> /\ Winning = {}
    BY <1>1 DEF DeskInv, Stopped, Winning
  <1>3. winners' = declaring.rows
    BY <1>1, <1>2 DEF NewRows
  <1>4. Desk(winners', ledger')
    <2>1. Fresh(declaring.rows, winners) /\ Desk(winners, ledger)
      BY <1>2 DEF Fresh, Winning, DeskInv
    <2> QED
      BY <1>1, <2>1, DeskRows
  <1>5. DeskTypes' /\ Stopped'
    BY <1>2, <1>4 DEF DeskInv, DeskTypes, Stopped, Desk
  <1> QED
    BY <1>2, <1>3, <1>4, <1>5, DeskFrame

LEMMA FinaliseApplyStep ==
    ASSUME DeskInv, FinaliseApply
    PROVE  DeskInv'
  <1>1. TypeOK
    BY DEF DeskInv, DeskTypes
  <1>2. /\ UNCHANGED <<method, unit, clock, day, began, start, current, plays, players, attempts,
                       edits, ledger, wallet, points, checked,
                       tampered, ineligible, lapsed, replacing>>
        /\ declaring.stage = "apply" /\ status # "finalised" /\ status' = "finalised"
        /\ winners' = winners \o declaring.rows /\ declaring' = Idle
        /\ final' = Coalesce(final, current) /\ Plays' = Plays
    BY DEF FinaliseApply, clockVars, prizeVars, pointVars, Plays
  <1>3. winners' \in Seq(Winner) => TypeOK'
    BY <1>1, <1>2, PrizeToPay DEF TypeOK, Statuses
  <1> QED
    BY <1>2, <1>3, DeclaredStep

LEMMA FinaliseInstantStep ==
    ASSUME DeskInv, FinaliseInstant
    PROVE  DeskInv'
  <1>1. TypeOK
    BY DEF DeskInv, DeskTypes
  <1>2. attempts' \in Seq(Attempt) /\ Plays' = Plays
    BY <1>1, ExpireSessionsType DEF FinaliseInstant, TypeOK, Plays
  <1>3. /\ UNCHANGED <<method, unit, clock, day, began, start, current, plays, players,
                       edits, ledger, wallet, points, winners, checked, deskVars>>
        /\ status' = "finalised" /\ final' = Coalesce(final, current)
    BY DEF FinaliseInstant, Unchanging, clockVars, prizeVars, pointVars
  <1>4. DeskTypes' /\ Stopped' /\ Desk(winners', ledger')
    BY <1>1, <1>2, <1>3, PrizeToPay
       DEF DeskInv, DeskTypes, TypeOK, Statuses, Stopped, Winning, deskVars
  <1> QED
    BY <1>3, <1>4, DeskFrame DEF deskVars, Winning

LEMMA DrawReadStep ==
    ASSUME DeskInv, DrawRead
    PROVE  DeskInv'
  <1>1. TypeOK /\ method = "draw" /\ Coalesce(final, current) \in Nat
    BY PrizeToPay DEF DeskInv, DeskTypes, DrawRead
  <1>2. UNCHANGED <<vars, tampered, ineligible, lapsed, replacing>>
    BY Zenon DEF DrawRead, Reading
  <1>3. PICK picks \in DrawnFrom(Entries) :
          declaring' = [stage |-> "draw", entries |-> Entries, rows |->
           [k \in DOMAIN picks |-> Row(picks[k], k, "pending_validation",
                                       SplitPrize(Coalesce(final, current), Len(picks))[k])]]
    BY Zenon DEF DrawRead
  <1>4. PICK n \in Nat : /\ picks \in [1..n -> Entries] /\ n <= NumberOfWinners
                         /\ \A j, k \in 1..n :
                              attempts[picks[j]].customer = attempts[picks[k]].customer => j = k
    <2> DEFINE pool == {i \in Entries : attempts[i].customer \notin ineligible}
    <2>1. PICK who : who = {attempts[i].customer : i \in pool}
      OBVIOUS
    <2>2. Cardinality(who) \in Nat
      <3>1. IsFiniteSet(pool)
        BY <1>1, PlaysFinite DEF Entries, TypeOK
      <3>2. PICK h : h = [i \in pool |-> attempts[i].customer]
        OBVIOUS
      <3>3. \A i \in pool : h[i] = attempts[i].customer
        BY <3>2
      <3> HIDE DEF pool
      <3>4. IsFiniteSet({h[i] : i \in pool})
        BY <3>1, ImageFinite
      <3>5. {h[i] : i \in pool} = {attempts[i].customer : i \in pool}
        BY <3>3
      <3> QED
        BY <2>1, <3>4, <3>5, FS_CardinalityType
    <2>3. PICK n \in Nat : n = Smaller(NumberOfWinners, Cardinality(who)) /\ n <= NumberOfWinners
      BY <2>2, WinnersAssumption DEF Smaller
    <2>4. /\ picks \in [1..n -> pool]
          /\ \A j, k \in 1..n :
               attempts[picks[j]].customer = attempts[picks[k]].customer => j = k
      BY <2>1, <2>3, Zenon DEF DrawnFrom
    <2>5. picks \in [1..n -> Entries]
      BY <2>4
    <2> QED
      BY <2>3, <2>4, <2>5
  <1>5. PICK values : values = SplitPrize(Coalesce(final, current), Len(picks))
    OBVIOUS
  <1>6. DOMAIN picks = 1..n /\ Len(picks) = n
    BY <1>4
  <1>7. \A k \in 1..n : values[k] \in Nat \cup {Unset}
    <2>1. ASSUME NEW k \in 1..n PROVE n \in Nat \ {0}
      OBVIOUS
    <2> QED
      BY <1>1, <1>5, <1>6, <2>1, SplitType
  <1> DEFINE row(k) == Row(picks[k], k, "pending_validation", values[k])
  <1>8. ASSUME NEW k \in 1..n
        PROVE  /\ row(k) \in Winner /\ row(k).customer = attempts[picks[k]].customer
               /\ row(k).attempt \in Entries /\ row(k).position = k
               /\ row(k).status = "pending_validation" /\ row(k).claim = "none"
               /\ row(k).settlement = "pending"
    <2>1. PICK i \in Plays : i = picks[k] /\ i \in Entries
      BY <1>4 DEF Entries
    <2>2. PICK v \in Nat \cup {Unset} : v = values[k]
      BY <1>7
    <2>3. k \in Nat \ {0} /\ "pending_validation" \in {"pending_validation", "disqualified"}
      OBVIOUS
    <2>4. PICK r : r = Row(i, k, "pending_validation", v) /\ r = row(k)
      BY <2>1, <2>2
    <2>5. /\ r \in Winner /\ r.customer = attempts[i].customer /\ r.attempt = i
          /\ r.position = k /\ r.status = "pending_validation" /\ r.claim = "none"
          /\ r.settlement = "pending"
      BY <1>1, <2>3, <2>4, WinnerRowType
    <2> HIDE DEF row
    <2> QED
      BY <2>1, <2>4, <2>5
  <1>9. PICK rows : rows = [k \in 1..n |-> row(k)] /\ rows = declaring'.rows
    BY <1>3, <1>5, <1>6
  <1> HIDE DEF row
  <1>10. rows \in Seq(Winner) /\ DOMAIN rows = 1..n /\ \A k \in 1..n : rows[k] = row(k)
    BY <1>8, <1>9
  <1>11. NewRows(rows) /\ \A k \in DOMAIN rows : rows[k].attempt \in Entries
    <2>1. \A k \in 1..n : rows[k].position <= NumberOfWinners
      BY <1>4, <1>8, <1>10, WinnersAssumption
    <2> QED
      BY <1>4, <1>8, <1>10, <2>1 DEF NewRows
  <1>12. declaring'.stage = "draw" /\ declaring'.entries = Entries
    BY <1>3
  <1>13. DeclaringFits'
    BY <1>1, <1>2, <1>9, <1>11, <1>12 DEF DeclaringFits, vars
  <1> QED
    BY <1>2, <1>13 DEF DeskInv, DeskTypes, TypeOK, Stopped, vars, Plays, Winning

LEMMA DrawApplyStep ==
    ASSUME DeskInv, DrawApply
    PROVE  DeskInv' /\ \A w \in DOMAIN winners' : Live(winners'[w].attempt)
  <1>1. TypeOK
    BY DEF DeskInv, DeskTypes
  <1>2. attempts' \in Seq(Attempt) /\ Plays' = Plays
    BY <1>1, ExpireSessionsType DEF DrawApply, TypeOK, Plays
  <1>3. /\ UNCHANGED <<method, unit, clock, day, began, start, current, plays, players,
                       edits, ledger, wallet, points, checked,
                       tampered, ineligible, lapsed, replacing>>
        /\ declaring.stage = "draw" /\ status # "finalised" /\ status' = "finalised"
        /\ winners' = winners \o declaring.rows /\ declaring' = Idle
        /\ final' = Coalesce(final, current) /\ declaring.entries = Entries
    BY DEF DrawApply, SameEntries, clockVars, prizeVars, pointVars
  <1>4. winners' \in Seq(Winner) => TypeOK'
    BY <1>1, <1>2, <1>3, PrizeToPay DEF TypeOK, Statuses
  <1>5. DeskInv' /\ winners' = declaring.rows
    BY <1>2, <1>3, <1>4, DeclaredStep
  <1>6. \A w \in DOMAIN winners' : winners'[w].attempt \in Entries
    BY <1>3, <1>5 DEF DeskInv, DeclaringFits
  <1> QED
    BY <1>5, <1>6 DEF Entries

LEMMA AbandonDeclaringStep ==
    ASSUME DeskInv, AbandonDeclaring
    PROVE  DeskInv'
  <1>1. UNCHANGED <<vars, tampered, ineligible, lapsed, replacing>> /\ declaring' = Idle
    BY Zenon DEF AbandonDeclaring, Reading
  <1>2. DeskTypes' /\ Stopped' /\ Desk(winners', ledger')
    BY <1>1 DEF DeskInv, DeskTypes, TypeOK, Stopped, vars, Plays, Winning
  <1> QED
    BY <1>1, <1>2, DeskFrame DEF vars, Winning

-----------------------------------------------------------------------------
(* Validation and claims: one winner's row, which stays whose it is.       *)

LEMMA ValidateStep ==
    ASSUME DeskInv, NEW w \in Winning, ValidateWinner(w)
    PROVE  DeskInv'
  <1>1. TypeOK /\ winners \in Seq(Winner) /\ winners # <<>> /\ winners[w] \in Winner
    BY DEF DeskInv, DeskTypes, TypeOK, Winning
  <1>2. /\ UNCHANGED <<method, unit, status, clock, day, began, start, final, edits, attempts, checked,
                       current, plays, players, ledger, points, deskVars>>
        /\ winners[w].status = "pending_validation"
    BY DEF ValidateWinner, WinnersOnly, prizeVars
  <1>3. WinnerFits(winners[w])
    BY DEF DeskInv, Desk, Winning
  <1>4. PICK row : /\ winners' = [winners EXCEPT ![w] = row]
                   /\ \/ row = [winners[w] EXCEPT !.status = "validated",
                                  !.settlement = "not_applicable", !.claim = "fulfilled"]
                      \/ row = [winners[w] EXCEPT !.status = "validated", !.claim = "pending"]
    BY <1>1 DEF ValidateWinner, Winning
  <1>5. row \in Winner /\ SameWinner(row, winners[w])
    BY <1>1, <1>2, <1>3, <1>4 DEF Winner, WinnerFits, SameWinner, Held
  <1>6. wallet' \in [Customers -> Int]
    <2>1. PICK c : c = winners[w].customer
      OBVIOUS
    <2>2. wallet \in [Customers -> Int] /\ PrizePoints \in Int
      BY <1>1, WinnersAssumption DEF TypeOK
    <2>3. wallet' = wallet \/ wallet' = [wallet EXCEPT ![c] = @ + PrizePoints]
      BY <2>1, Zenon DEF ValidateWinner
    <2> QED
      BY <2>2, <2>3
  <1>7. winners' \in Seq(Winner)
    BY <1>1, <1>4, <1>5 DEF Winning
  <1>8. TypeOK'
    BY <1>1, <1>2, <1>6, <1>7 DEF TypeOK, Plays
  <1> QED
    BY <1>1, <1>2, <1>4, <1>5, <1>8, DeskOneRow

LEMMA SetClaimStep ==
    ASSUME DeskInv, NEW w \in Winning, NEW from, NEW to, SetClaim(w, from, to),
           \/ from = "pending" /\ to = "claimed"
           \/ from = "claimed" /\ to = "verified"
           \/ from = "verified" /\ to = "fulfilled"
    PROVE  DeskInv'
  <1>1. TypeOK /\ winners \in Seq(Winner) /\ winners # <<>> /\ winners[w] \in Winner
    BY DEF DeskInv, DeskTypes, TypeOK, Winning
  <1>2. UNCHANGED <<method, unit, status, clock, day, began, start, final, edits, attempts, checked,
                    current, plays, players, ledger, wallet, points, deskVars>>
    BY DEF SetClaim, WinnersOnly, prizeVars, pointVars
  <1>3. WinnerFits(winners[w])
    BY DEF DeskInv, Desk, Winning
  <1>4. PICK row : winners' = [winners EXCEPT ![w] = row] /\ row = [winners[w] EXCEPT !.claim = to]
    BY DEF SetClaim
  <1>5. row \in Winner /\ SameWinner(row, winners[w])
    BY <1>1, <1>3, <1>4 DEF Winner, WinnerFits, SameWinner, Held, SetClaim
  <1>6. winners' \in Seq(Winner)
    BY <1>1, <1>4, <1>5 DEF Winning
  <1>7. TypeOK'
    BY <1>1, <1>2, <1>6 DEF TypeOK, Plays
  <1> QED
    BY <1>1, <1>2, <1>4, <1>5, <1>7, DeskOneRow

LEMMA LapseStep ==
    ASSUME DeskInv, NEW w \in Winning, Lapse(w)
    PROVE  DeskInv'
  <1>1. UNCHANGED <<vars, tampered, ineligible, declaring, replacing>> /\ lapsed' = lapsed \cup {w}
    BY Zenon DEF Lapse
  <1>2. DeskTypes' /\ Stopped' /\ Desk(winners', ledger')
    BY <1>1 DEF DeskInv, DeskTypes, TypeOK, Stopped, vars, Plays, Winning
  <1> QED
    BY <1>1, <1>2, DeskFrame DEF vars, Winning

LEMMA IneligibleStep ==
    ASSUME DeskInv, NEW c \in Customers, BecomeIneligible(c)
    PROVE  DeskInv'
  <1>1. UNCHANGED <<vars, tampered, lapsed, declaring, replacing>> /\ ineligible' = ineligible \cup {c}
    BY Zenon DEF BecomeIneligible
  <1>2. DeskTypes' /\ Stopped' /\ Desk(winners', ledger')
    BY <1>1 DEF DeskInv, DeskTypes, TypeOK, Stopped, vars, Plays, Winning
  <1> QED
    BY <1>1, <1>2, DeskFrame DEF vars, Winning

-----------------------------------------------------------------------------
(* Settlement.                                                             *)

\* A list of all the winners in S, each once.
Lists(paid, N, S) ==
    /\ paid \in [1..N -> S]
    /\ \A j, k \in 1..N : paid[j] = paid[k] => j = k
    /\ \A w \in S : \E n \in 1..N : paid[n] = w

\* The entries posted for it.
EntriesFor(more, paid, N) ==
    /\ more \in Seq(PrizeEntry) /\ Len(more) = N
    /\ \A n \in 1..N : /\ more[n].type = "winner_settlement"
                      /\ more[n].ref = paid[n]
                      /\ more[n].delta = -Value(paid[n])

LEMMA WhatIsOwed ==
    ASSUME DeskInv
    PROVE  /\ IsFiniteSet(Due) /\ Due \subseteq Winning /\ Winning \subseteq Nat
           /\ \A w \in Winning : /\ winners[w] \in Winner /\ Value(w) \in Nat
                                 /\ Value(w) > 0 => Value(w) = winners[w].value
           /\ ValueOf(Due) \in Nat
           /\ \A T \in SUBSET Due : ValueOf(T) \in Nat /\ ValueOf(T) <= ValueOf(Due)
  <1>1. winners \in Seq(Winner) /\ Winning = 1..Len(winners) /\ Len(winners) \in Nat
    BY DEF DeskInv, DeskTypes, TypeOK, Winning
  <1>2. IsFiniteSet(Winning)
    BY <1>1, FS_Interval
  <1>3. ASSUME NEW w \in Winning
        PROVE  /\ winners[w] \in Winner /\ Value(w) \in Nat
               /\ Value(w) > 0 => Value(w) = winners[w].value
    <2>1. winners[w] \in Winner
      BY <1>1
    <2>2. winners[w].value \in Nat \cup {Unset}
      BY <2>1 DEF Winner
    <2> QED
      BY <2>1, <2>2 DEF Value, Coalesce, Unset
  <1>4. Due \subseteq Winning
    BY DEF Due
  <1>5. IsFiniteSet(Due)
    BY <1>2, <1>4, FS_Subset
  <1>6. PICK f : f = [w \in Winning |-> Value(w)]
    OBVIOUS
  <1>7. \A w \in Due : f[w] \in Nat
    BY <1>3, <1>4, <1>6
  <1>8. \A T : ValueOf(T) = SumFunctionOnSet(f, T)
    BY <1>6, Zenon DEF ValueOf
  <1>9. PICK D : D = Due
    OBVIOUS
  <1>10. /\ SumFunctionOnSet(f, D) \in Nat
         /\ \A T \in SUBSET D : /\ SumFunctionOnSet(f, T) \in Nat
                                /\ SumFunctionOnSet(f, T) <= SumFunctionOnSet(f, D)
    BY <1>5, <1>7, <1>9, SumNat
  <1>11. /\ ValueOf(Due) \in Nat
         /\ \A T \in SUBSET Due : ValueOf(T) \in Nat /\ ValueOf(T) <= ValueOf(Due)
    BY <1>8, <1>9, <1>10
  <1>12. Winning \subseteq Nat
    BY <1>1
  <1> QED
    BY <1>3, <1>4, <1>5, <1>11, <1>12

LEMMA SettledEntries ==
    ASSUME DeskInv, Affordable
    PROVE  LET S == {w \in Due : Value(w) > 0}
               paid == Sorted(S, [w \in Winning |-> winners[w].position])
           IN  \E N \in Nat : Lists(paid, N, S) /\ EntriesFor(PaidOut(paid), paid, N)
  <1> DEFINE S == {w \in Due : Value(w) > 0}
  <1>1. PICK key : key = [w \in Winning |-> winners[w].position]
    OBVIOUS
  <1>2. S \subseteq Due /\ S \subseteq Winning /\ IsFiniteSet(S)
    BY WhatIsOwed, FS_Subset
  <1>3. \A w \in S : key[w] \in Int
    BY <1>1, <1>2, WhatIsOwed DEF Winner
  <1>4. \A w \in S : -Value(w) \in Int /\ w \in Nat
    BY <1>2, WhatIsOwed
  <1> HIDE DEF S
  <1>5. PICK N, paid : /\ N = Cardinality(S) /\ paid = Sorted(S, key)
                       /\ N \in Nat /\ Lists(paid, N, S)
    <2>1. PICK N, paid : N = Cardinality(S) /\ paid = Sorted(S, key)
      OBVIOUS
    <2>2. /\ N \in Nat /\ paid \in [1..N -> S]
          /\ \A j, k \in 1..N : paid[j] = paid[k] => j = k
          /\ \A x \in S : \E k \in 1..N : paid[k] = x
      BY <1>2, <1>3, <2>1, SortedLists
    <2>3. Lists(paid, N, S)
      BY <2>2, Zenon DEF Lists
    <2> QED
      BY <2>1, <2>2, <2>3
  <1>6. DOMAIN paid = 1..N
    BY <1>5 DEF Lists
  <1>7. ASSUME NEW n \in 1..N
        PROVE  current - ValueOf({paid[m] : m \in 1..n}) \in Nat
    <2>1. PICK T : T = {paid[m] : m \in 1..n}
      OBVIOUS
    <2>2. T \in SUBSET Due
      <3>1. \A m \in 1..n : m \in 1..N
        BY <1>5
      <3> QED
        BY <1>2, <1>5, <2>1, <3>1 DEF Lists
    <2>3. current \in Nat
      BY DEF DeskInv, DeskTypes, TypeOK
    <2>4. current - ValueOf(T) \in Nat
      BY <2>2, <2>3, WhatIsOwed DEF Affordable
    <2> QED
      BY <2>1, <2>4
  <1>8. PICK more : more = PaidOut(paid)
    OBVIOUS
  <1>9. \A n \in 1..N :
          more[n] = [type |-> "winner_settlement", delta |-> -Value(paid[n]), ref |-> paid[n],
                     after |-> current - ValueOf({paid[m] : m \in 1..n})]
    BY <1>6, <1>8 DEF PaidOut
  <1>10. ASSUME NEW n \in 1..N
         PROVE  /\ more[n] \in PrizeEntry
                /\ more[n].type = "winner_settlement" /\ more[n].ref = paid[n]
                /\ more[n].delta = -Value(paid[n])
    <2>1. PICK d \in Int, a \in Nat, w \in Nat :
            /\ d = -Value(paid[n]) /\ w = paid[n]
            /\ a = current - ValueOf({paid[m] : m \in 1..n})
      <3>1. paid[n] \in S
        BY <1>5 DEF Lists
      <3> QED
        BY <1>4, <1>7, <3>1
    <2>2. more[n] = [type |-> "winner_settlement", delta |-> d, ref |-> w, after |-> a]
      BY <1>9, <2>1
    <2>3. more[n] \in PrizeEntry
      BY <2>2 DEF PrizeEntry
    <2>4. more[n].type = "winner_settlement" /\ more[n].ref = w /\ more[n].delta = d
      BY <2>2
    <2> QED
      BY <2>1, <2>3, <2>4
  <1>11. more = [n \in 1..N |-> more[n]]
    BY <1>6, <1>8, Zenon DEF PaidOut
  <1>12. more \in Seq(PrizeEntry) /\ Len(more) = N
    <2>1. more \in [1..N -> PrizeEntry]
      BY <1>10, <1>11
    <2> QED
      BY <1>5, <2>1
  <1>13. EntriesFor(more, paid, N)
    BY <1>10, <1>12, Zenon DEF EntriesFor
  <1>14. Lists(paid, N, S) /\ EntriesFor(PaidOut(paid), paid, N)
    BY <1>5, <1>8, <1>13
  <1> QED
    BY <1>1, <1>5, <1>14, Zenon DEF S

\* Only validated winners are due, and nothing was paid to them before.
LEMMA DueUnpaid ==
    ASSUME DeskInv, NEW w \in Due
    PROVE  /\ w \in Winning /\ winners[w].status = "validated"
           /\ winners[w].claim # "none" /\ PaymentsTo(ledger, w) = {}
  <1>1. w \in Winning /\ winners[w].status = "validated" /\ winners[w].settlement = "pending"
    BY DEF Due
  <1>2. WinnerFits(winners[w]) /\ PaidRight(winners[w], PaymentsTo(ledger, w), ledger)
    BY <1>1 DEF DeskInv, Desk, Winning
  <1> QED
    BY <1>1, <1>2 DEF WinnerFits, PaidRight

\* The payments after a settlement: the old ones, and the new entries' own.
Posted(all, entries, more, N) ==
    /\ \A n \in DOMAIN entries : n \in DOMAIN all /\ all[n] = entries[n]
    /\ \A n \in DOMAIN all :
         n \in DOMAIN entries \/ \E k \in 1..N : n = Len(entries) + k
    /\ \A k \in 1..N : /\ Len(entries) + k \in DOMAIN all
                        /\ Len(entries) + k \notin DOMAIN entries
                        /\ all[Len(entries) + k] = more[k]

LEMMA NewPayments ==
    ASSUME NEW entries \in Seq(PrizeEntry), NEW more, NEW paid, NEW N \in Nat,
           EntriesFor(more, paid, N)
    PROVE  /\ entries \o more \in Seq(PrizeEntry)
           /\ Posted(entries \o more, entries, more, N)
  <1>1. more \in Seq(PrizeEntry) /\ Len(more) = N
    BY DEF EntriesFor
  <1>2. PICK all : all = entries \o more
    OBVIOUS
  <1>3. all \in Seq(PrizeEntry) /\ Len(all) = Len(entries) + N /\ Len(entries) \in Nat
    <2>1. Len(entries) \in Nat
      OBVIOUS
    <2>2. all \in Seq(PrizeEntry)
      BY <1>1, <1>2
    <2>3. \A x \in Seq(PrizeEntry) : Len(entries \o x) = Len(entries) + Len(x)
      OBVIOUS
    <2> QED
      BY <1>1, <1>2, <2>1, <2>2, <2>3
  <1>4. DOMAIN entries = 1..Len(entries) /\ DOMAIN all = 1..(Len(entries) + N)
    BY <1>3
  <1>5. \A n \in DOMAIN entries : n \in DOMAIN all /\ all[n] = entries[n]
    BY <1>1, <1>2, <1>3, <1>4
  <1>6. ASSUME NEW n \in DOMAIN all, n \notin DOMAIN entries
        PROVE  \E k \in 1..N : n = Len(entries) + k
    <2>1. n - Len(entries) \in 1..N /\ n = Len(entries) + (n - Len(entries))
      BY <1>3, <1>4, <1>6
    <2> QED
      BY <2>1
  <1>7. ASSUME NEW k \in 1..N
        PROVE  /\ Len(entries) + k \in DOMAIN all /\ Len(entries) + k \notin DOMAIN entries
               /\ all[Len(entries) + k] = more[k]
    BY <1>1, <1>2, <1>3, <1>4
  <1>8. Posted(all, entries, more, N)
    BY <1>5, <1>6, <1>7 DEF Posted
  <1> QED
    BY <1>2, <1>3, <1>8

\* The row of a winner that is paid, or has nothing to be paid.
SettledRow(row, value) ==
    [row EXCEPT !.settlement = IF value > 0 THEN "settled" ELSE "not_applicable"]

LEMMA SettledDesk ==
    ASSUME DeskInv, NEW rows, NEW more, NEW paid, NEW N \in Nat,
           Lists(paid, N, {w \in Due : Value(w) > 0}), EntriesFor(more, paid, N),
           rows = [w \in Winning |-> IF w \in Due THEN SettledRow(winners[w], Value(w))
                                     ELSE winners[w]]
    PROVE  rows \in Seq(Winner) /\ DOMAIN rows = Winning /\ Desk(rows, ledger \o more)
  <1>1. /\ winners \in Seq(Winner) /\ Winning = 1..Len(winners) /\ Len(winners) \in Nat
        /\ ledger \in Seq(PrizeEntry) /\ Desk(winners, ledger)
    BY DEF DeskInv, DeskTypes, TypeOK, Winning
  <1>2. PICK entries : entries = ledger \o more
    OBVIOUS
  <1>3. /\ \A n \in DOMAIN ledger : n \in DOMAIN entries /\ entries[n] = ledger[n]
        /\ \A n \in DOMAIN entries :
             n \in DOMAIN ledger \/ \E k \in 1..N : n = Len(ledger) + k
        /\ \A k \in 1..N : /\ Len(ledger) + k \in DOMAIN entries
                           /\ Len(ledger) + k \notin DOMAIN ledger
                           /\ entries[Len(ledger) + k] = more[k]
    <2>1. Posted(entries, ledger, more, N)
      BY <1>1, <1>2, NewPayments
    <2> QED
      BY <2>1 DEF Posted
  <1>4. ASSUME NEW k \in 1..N
        PROVE  /\ paid[k] \in Due /\ Value(paid[k]) > 0
               /\ more[k].type = "winner_settlement" /\ more[k].ref = paid[k]
               /\ more[k].delta = -Value(paid[k])
    BY DEF Lists, EntriesFor
  <1>5. ASSUME NEW w, \A k \in 1..N : paid[k] # w
        PROVE  PaymentsTo(entries, w) = PaymentsTo(ledger, w)
    <2>1. ASSUME NEW n \in PaymentsTo(entries, w) PROVE n \in PaymentsTo(ledger, w)
      <3>1. n \in DOMAIN entries /\ entries[n].type = "winner_settlement" /\ entries[n].ref = w
        BY <2>1 DEF PaymentsTo
      <3>2. n \in DOMAIN ledger
        <4>1. ASSUME NEW k \in 1..N, n = Len(ledger) + k PROVE FALSE
          <5>1. entries[n] = more[k]
            BY <1>3, <4>1
          <5> QED
            BY <1>4, <1>5, <3>1, <5>1
        <4> QED
          BY <1>3, <3>1, <4>1
      <3> QED
        BY <1>3, <3>1, <3>2 DEF PaymentsTo
    <2>2. ASSUME NEW n \in PaymentsTo(ledger, w) PROVE n \in PaymentsTo(entries, w)
      BY <1>3, <2>2 DEF PaymentsTo
    <2> QED
      BY <2>1, <2>2
  <1>6. ASSUME NEW w \in Winning
        PROVE  /\ rows[w] \in Winner /\ WinnerFits(rows[w])
               /\ rows[w].customer = winners[w].customer
               /\ rows[w].position = winners[w].position
               /\ rows[w].status = winners[w].status
               /\ PaidRight(rows[w], PaymentsTo(entries, w), entries)
    <2>1. PICK old \in Winner : old = winners[w] /\ WinnerFits(old)
      BY <1>1 DEF Desk, Winning
    <2>2. CASE w \notin Due
      <3>1. rows[w] = winners[w]
        BY <2>2
      <3>2. PaymentsTo(entries, w) = PaymentsTo(ledger, w)
        BY <1>4, <1>5, <2>2
      <3>3. \A n \in PaymentsTo(ledger, w) : entries[n] = ledger[n]
        BY <1>3 DEF PaymentsTo
      <3>4. PaidRight(winners[w], PaymentsTo(ledger, w), ledger)
        BY <1>1 DEF Desk, Winning
      <3>5. PaidRight(winners[w], PaymentsTo(entries, w), entries)
        BY <3>2, <3>3, <3>4 DEF PaidRight
      <3> QED
        BY <2>1, <3>1, <3>5
    <2>3. CASE w \in Due
      <3>1. PICK value \in Nat : value = Value(w) /\ (value > 0 => value = old.value)
        BY <2>1, WhatIsOwed
      <3>2. PICK row : /\ row = rows[w] /\ row = SettledRow(old, value)
        BY <2>1, <2>3, <3>1
      <3>3. old.status = "validated" /\ old.claim # "none" /\ PaymentsTo(ledger, w) = {}
        BY <2>1, <2>3, DueUnpaid
      <3>4. /\ row \in Winner /\ row.customer = old.customer /\ row.position = old.position
            /\ row.status = "validated" /\ row.claim = old.claim /\ row.value = old.value
            /\ row.settlement = IF value > 0 THEN "settled" ELSE "not_applicable"
        BY <3>2, <3>3 DEF SettledRow, Winner
      <3>5. WinnerFits(row)
        BY <2>1, <3>3, <3>4 DEF WinnerFits
      <3>6. CASE value > 0
        <4>1. PICK k \in 1..N : paid[k] = w
          BY <2>3, <3>1, <3>6 DEF Lists
        <4>2. PICK p : p = Len(ledger) + k
          OBVIOUS
        <4>3. entries[p] = more[k] /\ p \in DOMAIN entries
          BY <1>3, <4>2
        <4>4. ASSUME NEW n \in PaymentsTo(entries, w) PROVE n = p
          <5>1. n \in DOMAIN entries /\ entries[n].type = "winner_settlement" /\ entries[n].ref = w
            BY DEF PaymentsTo
          <5>2. n \notin DOMAIN ledger
            BY <1>3, <3>3, <5>1 DEF PaymentsTo
          <5>3. PICK j \in 1..N : n = Len(ledger) + j
            BY <1>3, <5>1, <5>2
          <5>4. entries[n] = more[j]
            BY <1>3, <5>3
          <5>5. paid[j] = w
            BY <1>4, <5>1, <5>4
          <5>6. j = k
            BY <4>1, <5>5 DEF Lists
          <5> QED
            BY <4>2, <5>3, <5>6
        <4>5. PaymentsTo(entries, w) = {p}
          <5>1. p \in PaymentsTo(entries, w)
            BY <1>4, <4>1, <4>3 DEF PaymentsTo
          <5> QED
            BY <4>4, <5>1
        <4>6. Cardinality(PaymentsTo(entries, w)) = 1
          BY <4>5, FS_Singleton
        <4>7. entries[p].delta = -value
          BY <1>4, <3>1, <4>1, <4>3
        <4>8. \A n \in PaymentsTo(entries, w) : entries[n].delta = -row.value
          BY <3>1, <3>4, <3>6, <4>5, <4>7
        <4>9. PaidRight(row, PaymentsTo(entries, w), entries)
          BY <3>3, <3>4, <3>6, <4>6, <4>8 DEF PaidRight
        <4> QED
          BY <2>1, <3>2, <3>3, <3>4, <3>5, <4>9
      <3>7. CASE ~(value > 0)
        <4>1. PaymentsTo(entries, w) = PaymentsTo(ledger, w)
          BY <1>4, <1>5, <3>1, <3>7
        <4>2. PaidRight(row, PaymentsTo(entries, w), entries)
          BY <3>3, <3>4, <3>7, <4>1 DEF PaidRight
        <4> QED
          BY <2>1, <3>2, <3>3, <3>4, <3>5, <4>2
      <3> QED
        BY <3>6, <3>7
    <2> QED
      BY <2>2, <2>3
  <1>7. rows \in Seq(Winner) /\ DOMAIN rows = Winning
    <2>1. DOMAIN rows = 1..Len(winners)
      BY <1>1
    <2>2. rows = [w \in 1..Len(winners) |-> rows[w]]
      BY <1>1
    <2> HIDE DEF Winning
    <2>3. rows \in [1..Len(winners) -> Winner]
      BY <1>1, <1>6, <2>2
    <2> QED
      BY <1>1, <2>1, <2>3
  <1>8. \A n \in DOMAIN entries :
          entries[n].type = "winner_settlement" => entries[n].ref \in DOMAIN rows
    <2>1. ASSUME NEW n \in DOMAIN entries, entries[n].type = "winner_settlement"
          PROVE  entries[n].ref \in Winning
      <3>1. CASE n \in DOMAIN ledger
        BY <1>1, <1>3, <2>1, <3>1 DEF Desk, Winning
      <3>2. ASSUME NEW k \in 1..N, n = Len(ledger) + k PROVE entries[n].ref \in Winning
        <4>1. entries[n] = more[k]
          BY <1>3, <3>2
        <4>2. more[k].ref \in Due
          BY <1>4
        <4> QED
          BY <4>1, <4>2 DEF Due
      <3> QED
        BY <1>3, <3>1, <3>2
    <2> QED
      BY <1>7, <2>1
  <1>9. \A v, w \in Winning :
          /\ Held(rows[v]) /\ Held(rows[w]) /\ rows[v].position = rows[w].position => v = w
          /\ rows[v].customer = rows[w].customer => v = w
    BY <1>1, <1>6 DEF Desk, Held, Winning
  <1>10. Desk(rows, entries)
    BY <1>6, <1>7, <1>8, <1>9 DEF Desk
  <1> QED
    BY <1>2, <1>7, <1>10

LEMMA SettleStep ==
    ASSUME DeskInv, SettleWinners
    PROVE  DeskInv'
  <1>1. TypeOK
    BY DEF DeskInv, DeskTypes
  <1> DEFINE S == {w \in Due : Value(w) > 0}
             paid == Sorted(S, [w \in Winning |-> winners[w].position])
  <1>2. /\ UNCHANGED <<method, unit, status, clock, day, began, start, final, edits, attempts, checked,
                       plays, players, wallet, points, deskVars>>
        /\ Affordable /\ current' = current - ValueOf(Due) /\ ledger' = ledger \o PaidOut(paid)
    BY DEF SettleWinners, WinnersOnly, pointVars
  <1>3. winners' = [w \in Winning |-> IF w \in Due THEN SettledRow(winners[w], Value(w))
                                      ELSE winners[w]]
    BY Zenon DEF SettleWinners, SettledRow
  <1>4. PICK N \in Nat : Lists(paid, N, S) /\ EntriesFor(PaidOut(paid), paid, N)
    BY <1>2, SettledEntries
  <1> HIDE DEF paid
  <1>5. winners' \in Seq(Winner) /\ Winning' = Winning /\ Desk(winners', ledger')
    BY <1>2, <1>3, <1>4, SettledDesk DEF Winning
  <1>6. ledger' \in Seq(PrizeEntry)
    BY <1>1, <1>2, <1>4 DEF EntriesFor, TypeOK
  <1>7. current' \in Nat
    BY <1>1, <1>2, WhatIsOwed DEF Affordable, TypeOK
  <1>8. TypeOK'
    BY <1>1, <1>2, <1>5, <1>6, <1>7 DEF TypeOK
  <1>9. DeskTypes' /\ Stopped'
    <2>1. status = "finalised"
      BY DEF SettleWinners
    <2> QED
      BY <1>2, <1>5, <1>8, <2>1 DEF DeskInv, DeskTypes, Stopped, deskVars, Plays
  <1>10. \A w \in Winning : winners'[w].position = winners[w].position
    <2>1. \A w \in Winning : winners[w] \in Winner
      BY <1>1, WhatIsOwed
    <2> QED
      BY <1>3, <2>1 DEF SettledRow, Winner
  <1> QED
    BY <1>2, <1>5, <1>9, <1>10, DeskFrame DEF deskVars

-----------------------------------------------------------------------------
(* Replacement.                                                            *)

LEMMA ReplaceReadStep ==
    ASSUME DeskInv, NEW w \in Winning, NEW s \in {"disqualified", "unclaimed"}, ReplaceRead(w, s)
    PROVE  DeskInv'
  <1> DEFINE had == {winners[v].customer : v \in Winning}
             S == {i \in Plays : Best(i) /\ attempts[i].customer \notin had}
  <1>1. TypeOK /\ Stopped /\ winners[w] \in Winner
    BY WhatIsOwed DEF DeskInv, DeskTypes
  <1>2. PICK from \in Nat \ {0}, value \in Nat \cup {Unset} :
          from = winners[w].position /\ value = winners[w].value /\ from <= NumberOfWinners
    BY <1>1 DEF Winner, DeskInv, Desk, WinnerFits, Winning
  <1>3. PICK values, n : values = <<value>> /\ n = 1
    OBVIOUS
  <1>4. PrizesFor(n, from, values)
    BY <1>2, <1>3, WinnersAssumption DEF PrizesFor
  <1>5. S \in SUBSET Plays /\ \A i \in S : Best(i)
    OBVIOUS
  <1>6. /\ replacing' = replacing \cup
             {[winner |-> w, status |-> s, rows |->
                PlanWinners(Ranked(S), 1, winners[w].position, <<winners[w].value>>)]}
        /\ UNCHANGED <<vars, tampered, ineligible, lapsed, declaring>>
    BY Zenon DEF ReplaceRead
  <1> HIDE DEF S
  <1>7. PICK rows : rows = PlanWinners(Ranked(S), n, from, values)
    OBVIOUS
  <1>8. RowsFor(rows, n, from)
    BY <1>1, <1>4, <1>5, <1>7, PlanFits
  <1>9. PICK r : r = [winner |-> w, status |-> s, rows |-> rows]
    OBVIOUS
  <1>10. replacing' = replacing \cup {r}
    BY <1>2, <1>3, <1>6, <1>7, <1>9
  <1>11. RequestFits(r, winners)
    <2>1. r.winner = w /\ r.status = s /\ r.rows = rows
      BY <1>9
    <2> QED
      BY <1>2, <1>3, <1>8, <2>1 DEF RequestFits, RowsFor, Winning
  <1>12. \A q \in replacing' : RequestFits(q, winners')
    BY <1>6, <1>10, <1>11, Zenon DEF DeskInv, vars
  <1> QED
    BY <1>6, <1>12 DEF DeskInv, DeskTypes, TypeOK, Stopped, DeclaringFits, vars, Plays, Winning

\* The retired row of a winner whose position passes on.
LEMMA RetiredRow ==
    ASSUME NEW old \in Winner, WinnerFits(old), NEW s \in {"disqualified", "unclaimed"}
    PROVE  SameWinner(Retired(old, s), old) /\ ~Held(Retired(old, s))
  BY DEF Retired, Winner, WinnerFits, SameWinner, Held

LEMMA ReplaceApplyStep ==
    ASSUME DeskInv, NEW r \in replacing, ReplaceApply(r)
    PROVE  DeskInv'
  <1>1. /\ RequestFits(r, winners) /\ Desk(winners, ledger) /\ winners \in Seq(Winner)
        /\ StillReplaceable(r)
    BY DEF DeskInv, DeskTypes, TypeOK, ReplaceApply
  <1>2. PICK w \in Winning : w = r.winner
    BY <1>1 DEF RequestFits, Winning
  <1>3. /\ UNCHANGED <<method, unit, status, clock, day, began, start, final, edits, attempts, checked,
                       current, plays, players, ledger, wallet, points,
                       tampered, ineligible, lapsed, declaring>>
        /\ replacing' = replacing \ {r}
    BY DEF ReplaceApply, WinnersOnly, prizeVars, pointVars
  <1>4. PICK row : row = Retired(winners[w], r.status)
    OBVIOUS
  <1>5. PICK rows : /\ rows = [winners EXCEPT ![w] = row]
                    /\ winners' = rows \o r.rows
    BY <1>2, <1>4, Zenon DEF ReplaceApply
  <1>6. SameWinner(row, winners[w]) /\ ~Held(row)
    <2>1. winners[w] \in Winner /\ WinnerFits(winners[w])
      BY <1>1 DEF Desk, Winning
    <2> QED
      BY <1>1, <1>4, <2>1, RetiredRow DEF RequestFits
  <1>7. /\ Desk(rows, ledger) /\ DOMAIN rows = Winning
        /\ \A v \in Winning : /\ rows[v].position = winners[v].position
                              /\ rows[v].customer = winners[v].customer
    <2>1. w \in DOMAIN winners
      BY DEF Winning
    <2>2. Desk([winners EXCEPT ![w] = row], ledger)
      BY <1>1, <1>6, <2>1, DeskRow
    <2>3. \A v \in Winning : rows[v] = IF v = w THEN row ELSE winners[v]
      BY <1>5 DEF Winning
    <2>4. row.position = winners[w].position /\ row.customer = winners[w].customer
      BY <1>6 DEF SameWinner
    <2>5. DOMAIN rows = Winning
      BY <1>5 DEF Winning
    <2> QED
      BY <1>5, <2>2, <2>3, <2>4, <2>5
  <1>8. Fresh(r.rows, rows)
    <2>1. ASSUME NEW k \in DOMAIN r.rows, NEW v \in Winning
          PROVE  r.rows[k].customer # rows[v].customer
      BY <1>1, <1>7 DEF StillReplaceable
    <2>2. ASSUME NEW k \in DOMAIN r.rows, NEW v \in Winning, Held(r.rows[k]), Held(rows[v])
          PROVE  r.rows[k].position # rows[v].position
      <3>1. v # w /\ rows[v] = winners[v]
        BY <1>5, <1>6, <2>2 DEF Winning
      <3>2. Held(winners[w])
        BY <1>1, <1>2 DEF StillReplaceable, Holding, Held
      <3>3. r.rows[k].position = winners[w].position
        BY <1>1, <1>2, <2>2 DEF RequestFits
      <3> QED
        BY <1>1, <2>2, <3>1, <3>2, <3>3 DEF Desk, Winning
    <2> QED
      BY <1>7, <2>1, <2>2 DEF Fresh
  <1>9. NewRows(r.rows)
    BY <1>1 DEF RequestFits
  <1>10. /\ Desk(winners', ledger) /\ Winning \subseteq Winning'
         /\ \A v \in Winning : winners'[v].position = winners[v].position
    BY <1>5, <1>7, <1>8, <1>9, DeskRows DEF Winning
  <1>11. winners' \in Seq(Winner)
    BY <1>10 DEF Desk
  <1>12. TypeOK'
    BY <1>3, <1>11 DEF DeskInv, DeskTypes, TypeOK
  <1>13. winners # <<>>
    BY <1>2 DEF Winning
  <1>14. DeskTypes' /\ Stopped'
    BY <1>3, <1>10, <1>12, <1>13 DEF DeskInv, DeskTypes, Stopped, Plays
  <1> QED
    BY <1>3, <1>10, <1>14, DeskFrame

LEMMA AbandonReplaceStep ==
    ASSUME DeskInv, NEW r \in replacing, AbandonReplace(r)
    PROVE  DeskInv'
  <1>1. UNCHANGED <<vars, tampered, ineligible, lapsed, declaring>> /\ replacing' = replacing \ {r}
    BY Zenon DEF AbandonReplace
  <1>2. DeskTypes' /\ Stopped' /\ Desk(winners', ledger')
    BY <1>1 DEF DeskInv, DeskTypes, TypeOK, Stopped, vars, Plays, Winning
  <1> QED
    BY <1>1, <1>2, DeskFrame DEF vars, Winning

-----------------------------------------------------------------------------
(* All steps, and the round the desk starts from.                          *)

LEMMA DeskStep == DeskInv /\ [WinnersNext]_allVars => DeskInv'
  <1> SUFFICES ASSUME DeskInv, [WinnersNext]_allVars PROVE DeskInv'
    OBVIOUS
  <1>1. CASE Next /\ UNCHANGED deskVars
    <2>1. /\ TypeOK' /\ Stopped' /\ Desk(winners', ledger')
          /\ UNCHANGED <<winners, method>> /\ Plays' = Plays
      BY <1>1, RoundStep
    <2>2. DeskTypes'
      BY <1>1, <2>1 DEF DeskInv, DeskTypes, deskVars, Winning
    <2> QED
      BY <1>1, <2>1, <2>2, DeskFrame DEF deskVars, Winning
  <1>2. CASE FinaliseRead \/ FinaliseReject \/ FinaliseApply \/ FinaliseInstant
    BY <1>2, FinaliseReadStep, FinaliseRejectStep, FinaliseApplyStep, FinaliseInstantStep
  <1>3. CASE DrawRead \/ DrawApply \/ AbandonDeclaring
    BY <1>3, DrawReadStep, DrawApplyStep, AbandonDeclaringStep
  <1>4. ASSUME NEW w \in Winning, ValidateWinner(w) \/ ClaimPrize(w) \/ AdvanceClaim(w) \/ Lapse(w)
        PROVE  DeskInv'
    <2>1. CASE ValidateWinner(w)
      BY <2>1, ValidateStep
    <2>2. CASE SetClaim(w, "pending", "claimed")
      BY <2>2, SetClaimStep
    <2>3. CASE SetClaim(w, "claimed", "verified")
      BY <2>3, SetClaimStep
    <2>4. CASE SetClaim(w, "verified", "fulfilled")
      BY <2>4, SetClaimStep
    <2>5. CASE Lapse(w)
      BY <2>5, LapseStep
    <2> QED
      BY <1>4, <2>1, <2>2, <2>3, <2>4, <2>5 DEF ClaimPrize, AdvanceClaim
  <1>5. ASSUME NEW w \in Winning, NEW s \in {"disqualified", "unclaimed"}, ReplaceRead(w, s)
        PROVE  DeskInv'
    BY <1>5, ReplaceReadStep
  <1>6. CASE SettleWinners
    BY <1>6, SettleStep
  <1>7. ASSUME NEW r \in replacing, ReplaceApply(r) \/ AbandonReplace(r)
        PROVE  DeskInv'
    BY <1>7, ReplaceApplyStep, AbandonReplaceStep
  <1>8. ASSUME NEW c \in Customers, BecomeIneligible(c)
        PROVE  DeskInv'
    BY <1>8, IneligibleStep
  <1>9. CASE UNCHANGED allVars
    <2>1. UNCHANGED vars /\ UNCHANGED deskVars
      BY <1>9 DEF allVars
    <2> QED
      BY <2>1 DEF DeskInv, DeskTypes, TypeOK, Stopped, DeclaringFits, vars, deskVars, Plays, Winning
  <1> QED
    BY <1>1, <1>2, <1>3, <1>4, <1>5, <1>6, <1>7, <1>8, <1>9 DEF WinnersNext

\* The closed round, its ledger of a seed and one increment for each play.
LEMMA ClosedLedger ==
    ASSUME WinnersInit, current \in Nat
    PROVE  /\ ledger \in Seq(PrizeEntry)
           /\ \A n \in DOMAIN ledger : ledger[n].type # "winner_settlement"
  <1>1. start \in Nat /\ Increment \in Nat /\ MaxPlays \in Nat
    BY RoundAssumption DEF WinnersInit
  <1>2. PICK seed : seed = [type |-> "seed", delta |-> start, after |-> start, ref |-> 0]
    OBVIOUS
  <1>3. PICK more : more = [i \in 1..MaxPlays |->
          [type |-> "play_increment", delta |-> Increment, after |-> start + i * Increment, ref |-> i]]
    OBVIOUS
  <1>4. seed \in PrizeEntry /\ seed.type = "seed"
    BY <1>1, <1>2 DEF PrizeEntry
  <1>5. ASSUME NEW i \in 1..MaxPlays
        PROVE  more[i] \in PrizeEntry /\ more[i].type = "play_increment"
    <2>1. PICK a \in Nat : a = start + i * Increment
      BY <1>1
    <2>2. more[i] = [type |-> "play_increment", delta |-> Increment, after |-> a, ref |-> i]
      BY <1>3, <2>1
    <2> QED
      BY <1>1, <2>2 DEF PrizeEntry
  <1>6. more \in Seq(PrizeEntry) /\ DOMAIN more = 1..MaxPlays
    BY <1>1, <1>3, <1>5
  <1>7. PICK tail : /\ ledger = <<seed>> \o tail /\ tail \in Seq(PrizeEntry)
                    /\ \A n \in DOMAIN tail : tail[n].type # "winner_settlement"
    <2>1. ledger = <<seed>> \o (IF Increment = 0 THEN <<>> ELSE more)
      BY <1>2, <1>3, Zenon DEF WinnersInit
    <2>2. CASE Increment = 0
      <3>1. PICK none : none = <<>>
        OBVIOUS
      <3>2. none \in Seq(PrizeEntry) /\ DOMAIN none = {}
        BY <3>1
      <3> QED
        BY <2>1, <2>2, <3>1, <3>2
    <2>3. CASE Increment # 0
      BY <1>5, <1>6, <2>1, <2>3
    <2> QED
      BY <2>2, <2>3
  <1>8. PICK head \in Seq(PrizeEntry) : head = <<seed>> /\ Len(head) = 1 /\ head[1] = seed
    <2>1. PICK head : head = <<seed>>
      OBVIOUS
    <2>2. head \in Seq(PrizeEntry)
      BY <1>4, <2>1
    <2> QED
      BY <2>1, <2>2
  <1>9. ledger \in Seq(PrizeEntry)
    BY <1>7, <1>8
  <1>10. ASSUME NEW n \in DOMAIN ledger PROVE ledger[n].type # "winner_settlement"
    <2>1. Len(ledger) = 1 + Len(tail) /\ DOMAIN ledger = 1..Len(ledger) /\ Len(tail) \in Nat
      BY <1>7, <1>8, <1>9
    <2>2. CASE n = 1
      BY <1>4, <1>7, <1>8, <2>2
    <2>3. CASE n # 1
      BY <1>7, <1>8, <2>1, <2>3
    <2> QED
      BY <2>2, <2>3
  <1> QED
    BY <1>9, <1>10

LEMMA ClosedPlays ==
    ASSUME WinnersInit
    PROVE  attempts \in Seq(Attempt) /\ Plays = 1..MaxPlays
  <1>1. PICK owner \in [1..MaxPlays -> Customers],
             score \in [1..MaxPlays -> {"accepted", "manual_review", "none"}] :
          attempts = [i \in 1..MaxPlays |-> SoldPlay(i, owner[i], score[i])]
    BY DEF WinnersInit
  <1>2. ASSUME NEW i \in 1..MaxPlays PROVE attempts[i] \in Attempt
    <2>1. PICK c \in Customers, s \in {"accepted", "manual_review", "none"}, k \in Keys :
            c = owner[i] /\ s = score[i] /\ k = i
      BY WinnersAssumption
    <2>2. attempts[i] = SoldPlay(k, c, s)
      BY <1>1, <2>1
    <2>3. Increment \in Nat
      BY RoundAssumption
    <2> QED
      BY <2>2, <2>3 DEF SoldPlay, Attempt
  <1>3. MaxPlays \in Nat
    BY RoundAssumption
  <1>4. attempts \in [1..MaxPlays -> Attempt]
    BY <1>1, <1>2
  <1> QED
    BY <1>3, <1>4 DEF Plays

LEMMA ClosedTypes ==
    ASSUME WinnersInit
    PROVE  TypeOK
  <1>1. /\ start \in Nat /\ Increment \in Nat /\ MaxPlays \in Nat /\ Cost \in Nat
        /\ InitialPoints \in Nat /\ start \in StartPrizes
    BY RoundAssumption DEF WinnersInit
  <1>2. current \in Nat /\ final = current
    <2>1. PICK m \in Nat : m = MaxPlays * Increment
      BY <1>1
    <2> QED
      BY <1>1, <2>1 DEF WinnersInit
  <1>3. attempts \in Seq(Attempt) /\ Plays = 1..MaxPlays
    BY ClosedPlays
  <1>4. ledger \in Seq(PrizeEntry)
    BY <1>2, ClosedLedger
  <1>5. IsFiniteSet(Plays)
    BY <1>3, PlaysFinite
  <1>6. players \in Nat
    <2>1. PICK h, who : h = [i \in Plays |-> attempts[i].customer] /\ who = {h[i] : i \in Plays}
      OBVIOUS
    <2>2. Cardinality(who) \in Nat
      BY <1>5, <2>1, ImageFinite, FS_CardinalityType
    <2>3. who = {attempts[i].customer : i \in Plays}
      BY <2>1
    <2> QED
      BY <2>2, <2>3, Zenon DEF WinnersInit
  <1>7. wallet \in [Customers -> Int]
    <2>1. ASSUME NEW c \in Customers PROVE InitialPoints - Charge * Cardinality(By(c)) \in Int
      <3>1. By(c) \subseteq Plays
        BY DEF By
      <3>2. PICK k \in Nat : k = Cardinality(By(c))
        BY <1>5, <3>1, FS_Subset, FS_CardinalityType
      <3>3. Charge * k \in Nat
        BY ChargeType
      <3> QED
        BY <1>1, <3>2, <3>3
    <2> QED
      BY <2>1 DEF WinnersInit
  <1>8. points \subseteq PointsEntry
    <2>1. ASSUME NEW i \in Plays PROVE [type |-> "play_debit", attempt |-> i] \in PointsEntry
      BY <1>3, <2>1 DEF PointsEntry
    <2> QED
      BY <2>1 DEF WinnersInit
  <1>9. winners \in Seq(Winner)
    <2>1. CASE method = "instant"
      <3>1. MaxPlays \in Plays
        <4>1. method \in WinnerMethods
          BY Zenon DEF WinnersInit
        <4> QED
          BY <1>1, <1>3, <2>1, <4>1, WinnersAssumption
      <3>2. attempts[MaxPlays] \in Attempt /\ MaxPlays \in Nat
        BY <1>3, <3>1 DEF Plays
      <3>3. PICK row : row = Row(MaxPlays, 1, "pending_validation", current)
        OBVIOUS
      <3>4. row \in Winner
        BY <1>2, <3>2, <3>3 DEF Row, Winner, Attempt
      <3>5. winners = <<row>>
        BY <2>1, <3>3, Zenon DEF WinnersInit
      <3> QED
        BY <3>4, <3>5
    <2>2. CASE method # "instant"
      BY <2>2 DEF WinnersInit
    <2> QED
      BY <2>1, <2>2
  <1>10. checked \subseteq Request
    BY <1>3 DEF WinnersInit, Request, Submit
  <1>11. /\ method \in WinnerMethods /\ unit \in UnitsOf(method) /\ status \in Statuses
         /\ clock \in {"before", "open", "over"}
         /\ day \in Nat /\ began \subseteq Moment /\ edits \in Nat /\ plays \in Int
    BY <1>1 DEF WinnersInit, Statuses
  <1> QED
    BY <1>1, <1>2, <1>3, <1>4, <1>6, <1>7, <1>8, <1>9, <1>10, <1>11 DEF TypeOK

LEMMA DeskInit == WinnersInit => DeskInv
  <1> SUFFICES ASSUME WinnersInit PROVE DeskInv
    OBVIOUS
  <1>1. TypeOK /\ Plays = 1..MaxPlays /\ current \in Nat
    BY ClosedTypes, ClosedPlays DEF TypeOK
  <1>2. DeskTypes
    BY <1>1 DEF DeskTypes, WinnersInit
  <1>3. Stopped
    BY <1>1 DEF WinnersInit, Stopped
  <1>4. \A n \in DOMAIN ledger : ledger[n].type # "winner_settlement"
    BY <1>1, ClosedLedger
  <1>5. \A w : PaymentsTo(ledger, w) = {}
    BY <1>4 DEF PaymentsTo
  <1>6. winners \in Seq(Winner)
    BY <1>1 DEF TypeOK
  <1>7. ASSUME NEW w \in DOMAIN winners
        PROVE  /\ w = 1 /\ winners[w].status = "pending_validation"
               /\ winners[w].settlement = "pending" /\ winners[w].claim = "none"
               /\ winners[w].position = 1
    <2>1. PICK row : row = Row(MaxPlays, 1, "pending_validation", current)
      OBVIOUS
    <2>2. /\ row.status = "pending_validation" /\ row.settlement = "pending"
          /\ row.claim = "none" /\ row.position = 1
      BY <2>1 DEF Row
    <2>3. winners = <<row>> \/ winners = <<>>
      BY <2>1, Zenon DEF WinnersInit
    <2>4. winners = <<row>> /\ w = 1
      BY <1>7, <2>3
    <2> QED
      BY <2>2, <2>4
  <1>8. Desk(winners, ledger)
    BY <1>4, <1>5, <1>6, <1>7, WinnersAssumption DEF Desk, WinnerFits, PaidRight
  <1>9. DeclaringFits /\ replacing = {}
    BY DEF WinnersInit, DeclaringFits, Idle
  <1> QED
    BY <1>2, <1>3, <1>8, <1>9 DEF DeskInv

LEMMA DeskInvariant == WinnersSpec => []DeskInv
  BY DeskInit, DeskStep, PTL DEF WinnersSpec

\* Whatever admins, players and the round's own transactions do in between,
\* every row and every request in flight has its columns' types, and names
\* plays and winners there are (CompetitionService's finalisation handlers).
THEOREM WinnersTyped == WinnersSpec => []WinnersTypeOK
  BY DeskInvariant, DeskIsTyped, PTL

\* SettleWinners pays each validated winner once, for what its row says, and
\* nothing else ever posts or undoes a settlement.
THEOREM PaidAsRecorded == WinnersSpec => []SettlementsMatchLedger
  <1>1. DeskInv => SettlementsMatchLedger
    BY DeskShows DEF DeskInv
  <1> QED
    BY <1>1, DeskInvariant, PTL

\* ReplaceWinner's own checks, made again when it writes, keep a position with
\* one holder and a customer with one row, whatever its plan was read from.
THEOREM PositionsHeldOnce == WinnersSpec => []OneHolderPerPosition
  <1>1. DeskInv => OneHolderPerPosition
    BY DeskShows DEF DeskInv
  <1> QED
    BY <1>1, DeskInvariant, PTL

\* number_of_winners bounds the winners still in play, whatever replacements
\* are under way: a position has one holder, and no row is for another position.
THEOREM PrizesAreEnough == WinnersSpec => []PrizesNotExceeded
  <1>1. ASSUME DeskInv PROVE PrizesNotExceeded
    <2>1. PICK H : H = {w \in Winning : Holding(w)}
      OBVIOUS
    <2>2. PICK f : f = [w \in H |-> winners[w].position]
      OBVIOUS
    <2>3. \A w \in H : winners[w].position \in 1..NumberOfWinners
      <3>1. ASSUME NEW w \in H
            PROVE  winners[w].position \in Nat \ {0} /\ winners[w].position <= NumberOfWinners
        BY <1>1, <2>1, WhatIsOwed DEF DeskInv, Desk, WinnerFits, Winning, Winner
      <3> QED
        BY <3>1, WinnersAssumption
    <2>4. f \in Injection(H, 1..NumberOfWinners)
      <3>1. \A v, w \in H : f[v] = f[w] => v = w
        BY <1>1, <2>1, <2>2, DeskShows DEF DeskInv, OneHolderPerPosition
      <3>2. f \in [H -> 1..NumberOfWinners]
        BY <2>2, <2>3
      <3> QED
        BY <3>1, <3>2 DEF Injection, IsInjective
    <2>5. IsFiniteSet(1..NumberOfWinners) /\ Cardinality(1..NumberOfWinners) = NumberOfWinners
      BY WinnersAssumption, FS_Interval
    <2>6. Cardinality(H) <= NumberOfWinners
      BY <2>4, <2>5, FS_Injection
    <2> QED
      BY <2>1, <2>6 DEF PrizesNotExceeded
  <1> QED
    BY <1>1, DeskInvariant, PTL

\* A claim is open only while its winner is validated: ReplaceWinner ends the
\* claim with the win it retires.
THEOREM ClaimsStayValid == WinnersSpec => []OpenClaimsAreValid
  <1>1. DeskInv => OpenClaimsAreValid
    BY DeskShows DEF DeskInv
  <1> QED
    BY <1>1, DeskInvariant, PTL

\* Only ApplyDraw finalises a draw, and the plays it read again under the
\* round's lock are those it was drawn from, all of them live.
THEOREM DrawsAreOfLivePlays == WinnersSpec => DrawnFromLivePlays
  <1>1. ASSUME DeskInv, [WinnersNext]_allVars, method = "draw", status # "finalised",
               status' = "finalised"
        PROVE  \A w \in DOMAIN winners' : Live(winners'[w].attempt)
    <2>1. CASE Next
      BY <1>1, <2>1, RoundStep
    <2>2. CASE FinaliseRead \/ DrawRead \/ AbandonDeclaring
      <3>1. UNCHANGED vars
        BY <2>2, Zenon DEF FinaliseRead, DrawRead, AbandonDeclaring, Reading
      <3> QED
        BY <1>1, <3>1 DEF vars
    <2>3. CASE FinaliseReject
      BY <1>1, <2>3 DEF FinaliseReject, ScoresOnly, clockVars
    <2>4. CASE FinaliseApply \/ FinaliseInstant
      BY <1>1, <2>4 DEF FinaliseApply, FinaliseInstant, DeskInv, DeclaringFits
    <2>5. CASE DrawApply
      BY <1>1, <2>5, DrawApplyStep
    <2>6. CASE SettleWinners \/ \E w \in Winning : ValidateWinner(w) \/ ClaimPrize(w) \/ AdvanceClaim(w)
      BY <1>1, <2>6 DEF SettleWinners, ValidateWinner, ClaimPrize, AdvanceClaim, SetClaim, WinnersOnly
    <2>7. CASE \E w \in Winning : Lapse(w) \/ \E s \in {"disqualified", "unclaimed"} : ReplaceRead(w, s)
      <3>1. UNCHANGED vars
        BY <2>7, Zenon DEF Lapse, ReplaceRead
      <3> QED
        BY <1>1, <3>1 DEF vars
    <2>8. ASSUME NEW r \in replacing, ReplaceApply(r) \/ AbandonReplace(r)
          PROVE  UNCHANGED status
      BY <2>8 DEF ReplaceApply, AbandonReplace, WinnersOnly, vars
    <2>9. ASSUME NEW c \in Customers, BecomeIneligible(c)
          PROVE  UNCHANGED status
      BY <2>9 DEF BecomeIneligible, vars
    <2>10. CASE UNCHANGED allVars
      BY <1>1, <2>10 DEF allVars, vars
    <2> QED
      BY <1>1, <2>1, <2>2, <2>3, <2>4, <2>5, <2>6, <2>7, <2>8, <2>9, <2>10 DEF WinnersNext
  <1> QED
    BY <1>1, DeskInvariant, PTL DEF WinnersSpec, DrawnFromLivePlays

-----------------------------------------------------------------------------
(* The ledger, from the closed round through the settlement: RoundStep's    *)
(* entries keep the chain as in PrizeRound, and the payments extend it.     *)

PrizeInv == LedgerIsChain /\ PrizeWithinCap /\ ledger # <<>>

\* WinnersAssumption: the plays sold left the prize within its cap.
LEMMA ClosedCap == WinnersInit => PrizeWithinCap
  <1> SUFFICES ASSUME WinnersInit, MaxPrize # Unset PROVE current <= MaxPrize
    BY DEF PrizeWithinCap
  <1>1. start \in StartPrizes /\ current = start + MaxPlays * Increment
    BY DEF WinnersInit
  <1> QED
    BY <1>1, WinnersAssumption

\* The round begins with its seed and one increment per play sold.
LEMMA ClosedChain ==
    ASSUME WinnersInit
    PROVE  PrizeInv
  <1>1. /\ start \in Nat /\ Increment \in Nat /\ MaxPlays \in Nat /\ start \in StartPrizes
        /\ current = start + MaxPlays * Increment
    BY RoundAssumption DEF WinnersInit
  <1>2. PICK at : at = [n \in 0..MaxPlays |-> start + n * Increment]
    OBVIOUS
  <1>3. /\ at[0] = start /\ at[MaxPlays] = current
        /\ \A n \in 0..MaxPlays : at[n] \in Int
        /\ \A n \in 1..MaxPlays : at[n] = at[n - 1] + Increment
    <2>1. ASSUME NEW n \in 0..MaxPlays PROVE at[n] = start + n * Increment /\ n * Increment \in Int
      BY <1>1, <1>2
    <2>2. ASSUME NEW n \in 1..MaxPlays PROVE at[n] = at[n - 1] + Increment
      <3>1. PICK m \in 0..MaxPlays : m = n - 1
        BY <1>1
      <3>2. (m + 1) * Increment = m * Increment + Increment
        BY <1>1, <3>1
      <3> QED
        BY <1>1, <2>1, <3>1, <3>2
    <2> QED
      BY <1>1, <2>1, <2>2
  <1>4. PICK seed : /\ seed = [type |-> "seed", delta |-> start, after |-> start, ref |-> 0]
                    /\ seed.type = "seed" /\ seed.delta = start /\ seed.after = start
    <2>1. PICK e : e = [type |-> "seed", delta |-> start, after |-> start, ref |-> 0]
      OBVIOUS
    <2>2. e.type = "seed" /\ e.delta = start /\ e.after = start
      BY <2>1
    <2> QED
      BY <2>1, <2>2
  <1>5. PICK more : more = [i \in 1..MaxPlays |->
                              [type |-> "play_increment", delta |-> Increment,
                               after |-> start + i * Increment, ref |-> i]]
    OBVIOUS
  <1>6. /\ more \in Seq({more[i] : i \in 1..MaxPlays}) /\ Len(more) = MaxPlays
        /\ \A i \in 1..MaxPlays : /\ more[i].type = "play_increment" /\ more[i].delta = Increment
                                  /\ more[i].after = at[i]
    <2>1. ASSUME NEW i \in 1..MaxPlays
          PROVE  /\ more[i].type = "play_increment" /\ more[i].delta = Increment
                 /\ more[i].after = at[i]
      <3>1. at[i] = start + i * Increment
        BY <1>1, <1>2
      <3> QED
        BY <1>5, <3>1
    <2>2. DOMAIN more = 1..MaxPlays /\ more = [i \in 1..MaxPlays |-> more[i]]
      BY <1>5
    <2>3. PICK M : M = {more[i] : i \in 1..MaxPlays}
      OBVIOUS
    <2>4. more \in [1..MaxPlays -> M]
      BY <2>2, <2>3
    <2>5. more \in Seq(M) /\ Len(more) = MaxPlays
      BY <1>1, <2>2, <2>4
    <2> QED
      BY <2>1, <2>3, <2>5
  <1>7. ledger = <<seed>> \o (IF Increment = 0 THEN <<>> ELSE more)
    BY <1>4, <1>5, Zenon DEF WinnersInit
  <1>8. CASE Increment = 0
    <2>1. PICK none : none = <<>>
      OBVIOUS
    <2>2. ledger = <<seed>> \o none /\ <<seed>> \o none = <<seed>>
      BY <1>7, <1>8, <2>1
    <2>3. Len(ledger) = 1 /\ DOMAIN ledger = {1} /\ ledger[1] = seed /\ ledger # <<>>
      BY <2>2
    <2>4. current = start
      BY <1>1, <1>8
    <2> QED
      BY <1>1, <1>4, <2>3, <2>4, ClosedCap DEF PrizeInv, LedgerIsChain
  <1>9. CASE Increment # 0
    <2>1. /\ Len(ledger) = 1 + MaxPlays /\ DOMAIN ledger = 1..(1 + MaxPlays)
          /\ ledger[1] = seed /\ \A i \in 1..MaxPlays : ledger[1 + i] = more[i]
      <3>1. PICK head : head = <<seed>> /\ Len(head) = 1 /\ head[1] = seed /\ head \in Seq({seed})
        <4>1. PICK h : h = <<seed>>
          OBVIOUS
        <4>2. Len(h) = 1 /\ h[1] = seed /\ h \in Seq({seed})
          BY <4>1
        <4> QED
          BY <4>1, <4>2
      <3>2. ledger = head \o more
        BY <1>7, <1>9, <3>1
      <3> QED
        BY <1>1, <1>6, <3>1, <3>2
    <2>2. ASSUME NEW n \in DOMAIN ledger
          PROVE  /\ ledger[n].after = at[n - 1]
                 /\ n = 1 => ledger[n].type = "seed" /\ ledger[n].delta = start
                 /\ n # 1 => ledger[n].type = "play_increment" /\ ledger[n].delta = Increment
      <3>1. CASE n = 1
        BY <1>3, <1>4, <2>1, <3>1
      <3>2. CASE n # 1
        <4>1. PICK i \in 1..MaxPlays : n = 1 + i
          <5>1. n - 1 \in 1..MaxPlays /\ n = 1 + (n - 1)
            BY <1>1, <2>1, <3>2
          <5> QED
            BY <5>1
        <4> QED
          BY <1>6, <2>1, <4>1
      <3> QED
        BY <3>1, <3>2
    <2>3. ASSUME NEW n \in DOMAIN ledger
          PROVE  ledger[n].after = (IF n = 1 THEN 0 ELSE ledger[n - 1].after) + ledger[n].delta
      <3>1. CASE n = 1
        BY <1>1, <1>3, <2>2, <3>1
      <3>2. CASE n # 1
        <4>1. n - 1 \in DOMAIN ledger /\ n - 1 \in 1..MaxPlays
          BY <1>1, <2>1, <3>2
        <4> QED
          BY <1>3, <2>2, <3>2, <4>1
      <3> QED
        BY <3>1, <3>2
    <2>4. ledger # <<>> /\ current = ledger[Len(ledger)].after
      <3>1. 1 + MaxPlays \in DOMAIN ledger /\ ledger # <<>> /\ (1 + MaxPlays) - 1 = MaxPlays
        BY <1>1, <2>1
      <3>2. ledger[1 + MaxPlays].after = at[MaxPlays]
        BY <2>2, <3>1
      <3> QED
        BY <1>3, <2>1, <3>1, <3>2
    <2> QED
      BY <2>2, <2>3, <2>4, ClosedCap DEF PrizeInv, LedgerIsChain
  <1> QED
    BY <1>8, <1>9

\* What is paid up to each of the winners in order, and to all of them.
LEMMA PaidSoFar ==
    ASSUME DeskInv, NEW paid, NEW N \in Nat, Lists(paid, N, {w \in Due : Value(w) > 0})
    PROVE  \E upto :
             /\ \A n \in 0..N : upto[n] = ValueOf({paid[m] : m \in 1..n}) /\ upto[n] \in Nat
             /\ upto[0] = 0 /\ upto[N] = ValueOf(Due)
             /\ \A n \in 1..N : upto[n] = upto[n - 1] + Value(paid[n])
  <1>1. PICK f : f = [w \in Winning |-> Value(w)]
    OBVIOUS
  <1>2. \A T : ValueOf(T) = SumFunctionOnSet(f, T)
    BY <1>1 DEF ValueOf
  <1>3. PICK S : S = {w \in Due : Value(w) > 0}
    OBVIOUS
  <1>4. /\ IsFiniteSet(Due) /\ S \subseteq Due /\ Due \subseteq Winning
        /\ \A w \in Due : f[w] = Value(w) /\ f[w] \in Nat
    BY <1>1, <1>3, WhatIsOwed
  <1>5. /\ \A m \in 1..N : paid[m] \in S
        /\ \A j, k \in 1..N : paid[j] = paid[k] => j = k
        /\ \A w \in S : \E n \in 1..N : paid[n] = w
    BY <1>3 DEF Lists
  <1>6. PICK first : first = [n \in 0..N |-> {paid[m] : m \in 1..n}]
    OBVIOUS
  <1>7. ASSUME NEW n \in 0..N PROVE first[n] \in SUBSET S /\ IsFiniteSet(first[n])
    <2>1. first[n] = {paid[m] : m \in 1..n} /\ 1..n \subseteq 1..N
      BY <1>6
    <2>2. first[n] \in SUBSET S
      BY <1>5, <2>1
    <2> QED
      BY <1>4, <2>2, FS_Subset
  <1>8. first[0] = {} /\ first[N] = S
    <2>1. 0 \in 0..N /\ N \in 0..N /\ 1..0 = {}
      OBVIOUS
    <2>2. first[0] = {}
      BY <1>6, <2>1
    <2>3. first[N] = {paid[m] : m \in 1..N}
      BY <1>6, <2>1
    <2> QED
      BY <1>5, <2>2, <2>3
  <1>9. ASSUME NEW n \in 1..N
        PROVE  first[n] = first[n - 1] \cup {paid[n]} /\ paid[n] \notin first[n - 1]
    <2>1. PICK p \in 0..N : p = n - 1
      OBVIOUS
    <2>2. n \in 0..N /\ 1..n = 1..p \cup {n} /\ n \notin 1..p /\ 1..p \subseteq 1..N
      BY <2>1
    <2>3. first[n] = {paid[m] : m \in 1..n} /\ first[p] = {paid[m] : m \in 1..p}
      BY <1>6, <2>2
    <2>4. first[n] = first[p] \cup {paid[n]}
      BY <2>2, <2>3
    <2>5. paid[n] \notin first[p]
      BY <1>5, <2>2, <2>3
    <2> QED
      BY <2>1, <2>4, <2>5
  <1>10. PICK upto : upto = [n \in 0..N |-> SumFunctionOnSet(f, first[n])]
    OBVIOUS
  <1>11. ASSUME NEW n \in 0..N
         PROVE  upto[n] = ValueOf({paid[m] : m \in 1..n}) /\ upto[n] \in Nat
    <2>1. upto[n] = ValueOf({paid[m] : m \in 1..n})
      BY <1>2, <1>6, <1>10
    <2>2. \A w \in first[n] : f[w] \in Nat
      BY <1>4, <1>7
    <2> QED
      BY <1>7, <1>10, <2>1, <2>2, SumNat
  <1>12. upto[0] = 0
    BY <1>8, <1>10, SumEmpty, 0 \in 0..N
  <1>13. upto[N] = ValueOf(Due)
    <2>1. \A w \in Due \ S : f[w] = 0
      BY <1>3, <1>4
    <2>2. \A w \in Due : f[w] \in Int
      BY <1>4
    <2>3. SumFunctionOnSet(f, Due) = SumFunctionOnSet(f, S)
      BY <1>4, <2>1, <2>2, SumSupport
    <2> QED
      BY <1>2, <1>8, <1>10, <2>3, N \in 0..N
  <1>14. ASSUME NEW n \in 1..N PROVE upto[n] = upto[n - 1] + Value(paid[n])
    <2>1. PICK p \in 0..N : p = n - 1
      OBVIOUS
    <2>2. \A w \in first[p] \cup {paid[n]} : f[w] \in Int
      BY <1>4, <1>5, <1>7, <2>1
    <2>3. SumFunctionOnSet(f, first[p] \cup {paid[n]}) = SumFunctionOnSet(f, first[p]) + f[paid[n]]
      BY <1>7, <1>9, <2>1, <2>2, SumAdd
    <2>4. f[paid[n]] = Value(paid[n])
      BY <1>4, <1>5
    <2> QED
      BY <1>9, <1>10, <2>1, <2>3, <2>4, n \in 0..N
  <1> QED
    BY <1>11, <1>12, <1>13, <1>14

\* Entries that each take on from the balance before keep the chain.
LEMMA PaidChain ==
    ASSUME LedgerIsChain, ledger # <<>>, ledger \in Seq(PrizeEntry), current \in Int,
           NEW more, NEW paid, NEW N \in Nat, EntriesFor(more, paid, N), NEW upto,
           \A n \in 0..N : upto[n] \in Int, upto[0] = 0,
           \A n \in 1..N : upto[n] = upto[n - 1] + Value(paid[n]),
           \A n \in 1..N : Value(paid[n]) \in Int /\ more[n].after = current - upto[n],
           ledger' = ledger \o more, current' = current - upto[N]
    PROVE  LedgerIsChain' /\ ledger' # <<>>
  <1> PICK len : len = Len(ledger)
    OBVIOUS
  <1>1. /\ len \in Nat \ {0} /\ DOMAIN ledger = 1..len /\ ledger[len].after = current
        /\ \A n \in 1..len :
             /\ ledger[n].after = (IF n = 1 THEN 0 ELSE ledger[n - 1].after) + ledger[n].delta
             /\ ledger[n].type = "seed" <=> n = 1
    <2>1. len \in Nat \ {0} /\ DOMAIN ledger = 1..len
      OBVIOUS
    <2>2. ledger[len].after = current
      BY DEF LedgerIsChain
    <2> QED
      BY <2>1, <2>2 DEF LedgerIsChain
  <1>2. /\ ledger' \in Seq(PrizeEntry) /\ Len(ledger') = len + N /\ DOMAIN ledger' = 1..(len + N)
        /\ \A n \in 1..len : ledger'[n] = ledger[n]
        /\ \A k \in 1..N : ledger'[len + k] = more[k]
    <2>1. PICK all : all = ledger \o more
      OBVIOUS
    <2>2. all \in Seq(PrizeEntry) /\ Posted(all, ledger, more, N)
      BY <2>1, NewPayments
    <2>3. more \in Seq(PrizeEntry) /\ Len(more) = N
      BY DEF EntriesFor
    <2>4. Len(all) = len + N
      <3>1. \A x \in Seq(PrizeEntry) : Len(ledger \o x) = Len(ledger) + Len(x)
        OBVIOUS
      <3> QED
        BY <2>1, <2>3, <3>1
    <2>5. DOMAIN all = 1..(len + N)
      BY <2>2, <2>4
    <2>6. ledger' = all
      BY <2>1
    <2> QED
      BY <1>1, <2>2, <2>4, <2>5, <2>6 DEF Posted
  <1>3. ASSUME NEW k \in 0..N PROVE ledger'[len + k].after = current - upto[k]
    <2>1. CASE k = 0
      BY <1>1, <1>2, <2>1
    <2>2. CASE k # 0
      <3>1. k \in 1..N
        BY <2>2
      <3>2. ledger'[len + k] = more[k]
        BY <1>2, <3>1
      <3> QED
        BY <3>1, <3>2
    <2> QED
      BY <2>1, <2>2
  <1>4. ASSUME NEW n \in 1..(len + N)
        PROVE  /\ ledger'[n].after = (IF n = 1 THEN 0 ELSE ledger'[n - 1].after) + ledger'[n].delta
               /\ ledger'[n].type = "seed" <=> n = 1
    <2>1. CASE n \in 1..len
      <3>1. n = 1 \/ n - 1 \in 1..len
        BY <1>1, <2>1
      <3> QED
        BY <1>1, <1>2, <2>1, <3>1
    <2>2. CASE n \notin 1..len
      <3>1. PICK k \in 1..N : n = len + k
        <4>1. len \in Nat /\ n \in Nat /\ n > len /\ n <= len + N
          BY <1>1, <2>2
        <4>2. n - len \in 1..N /\ n = len + (n - len)
          BY <4>1
        <4> QED
          BY <4>2
      <3>2. PICK j \in 0..N : j = k - 1 /\ n - 1 = len + j /\ n # 1
        <4>1. k - 1 \in 0..N /\ n - 1 = len + (k - 1) /\ n # 1
          BY <1>1, <3>1
        <4> QED
          BY <4>1
      <3>3. ledger'[n] = more[k] /\ more[k].type = "winner_settlement" /\ more[k].delta = -Value(paid[k])
        BY <1>2, <3>1 DEF EntriesFor
      <3>4. ledger'[n].after = current - upto[k] /\ ledger'[n - 1].after = current - upto[j]
        <4>1. ledger'[len + k].after = current - upto[k] /\ ledger'[len + j].after = current - upto[j]
          <5>1. k \in 0..N /\ j \in 0..N
            BY <3>1, <3>2
          <5> QED
            BY <1>3, <5>1
        <4> QED
          BY <3>1, <3>2, <4>1
      <3>5. upto[k] = upto[j] + Value(paid[k]) /\ upto[j] \in Int /\ Value(paid[k]) \in Int
        BY <3>1, <3>2
      <3>6. current - upto[k] = (current - upto[j]) + (-Value(paid[k]))
        BY <3>5
      <3> QED
        BY <3>2, <3>3, <3>4, <3>6
    <2> QED
      BY <2>1, <2>2
  <1>5. ledger' # <<>> /\ current' = ledger'[Len(ledger')].after
    <2>1. ledger' # <<>>
      BY <1>1, <1>2
    <2> QED
      BY <1>2, <1>3, <2>1, N \in 0..N
  <1> QED
    BY <1>2, <1>4, <1>5 DEF LedgerIsChain

\* A settlement takes what it pays from the prize, entry by entry.
LEMMA SettlePrize ==
    ASSUME DeskInv, PrizeInv, SettleWinners
    PROVE  PrizeInv'
  <1>1. TypeOK /\ ledger \in Seq(PrizeEntry) /\ current \in Nat
    BY DEF DeskInv, DeskTypes, TypeOK
  <1> DEFINE S == {w \in Due : Value(w) > 0}
             paid == Sorted(S, [w \in Winning |-> winners[w].position])
  <1>2. Affordable /\ current' = current - ValueOf(Due) /\ ledger' = ledger \o PaidOut(paid)
    BY DEF SettleWinners
  <1>3. PICK N \in Nat : Lists(paid, N, S) /\ EntriesFor(PaidOut(paid), paid, N)
    BY <1>2, SettledEntries
  <1> HIDE DEF paid
  <1>4. PICK upto :
          /\ \A n \in 0..N : upto[n] = ValueOf({paid[m] : m \in 1..n}) /\ upto[n] \in Nat
          /\ upto[0] = 0 /\ upto[N] = ValueOf(Due)
          /\ \A n \in 1..N : upto[n] = upto[n - 1] + Value(paid[n])
    BY <1>3, PaidSoFar
  <1>5. ASSUME NEW n \in 1..N
        PROVE  Value(paid[n]) \in Int /\ PaidOut(paid)[n].after = current - upto[n]
    <2>1. DOMAIN paid = 1..N /\ paid[n] \in Winning
      BY <1>3 DEF Lists, Due
    <2>2. Value(paid[n]) \in Int
      BY <2>1, WhatIsOwed
    <2>3. PaidOut(paid)[n].after = current - ValueOf({paid[m] : m \in 1..n})
      BY <2>1 DEF PaidOut
    <2> QED
      BY <1>4, <2>2, <2>3, n \in 0..N
  <1>6. LedgerIsChain' /\ ledger' # <<>>
    <2>1. PICK more : more = PaidOut(paid)
      OBVIOUS
    <2>2. /\ EntriesFor(more, paid, N) /\ ledger' = ledger \o more /\ current' = current - upto[N]
          /\ \A n \in 1..N : Value(paid[n]) \in Int /\ more[n].after = current - upto[n]
          /\ \A n \in 0..N : upto[n] \in Int
      <3>1. \A n \in 0..N : upto[n] \in Int
        <4>1. \A n \in 0..N : upto[n] \in Nat
          BY <1>4
        <4> QED
          BY <4>1
      <3>2. current' = current - upto[N]
        BY <1>2, <1>4
      <3>3. EntriesFor(more, paid, N) /\ ledger' = ledger \o more
        BY <1>2, <1>3, <2>1
      <3>4. \A n \in 1..N : Value(paid[n]) \in Int /\ more[n].after = current - upto[n]
        BY <1>5, <2>1
      <3> QED
        BY <3>1, <3>2, <3>3, <3>4
    <2>3. /\ LedgerIsChain /\ ledger # <<>> /\ current \in Int
          /\ upto[0] = 0 /\ \A n \in 1..N : upto[n] = upto[n - 1] + Value(paid[n])
      BY <1>1, <1>4 DEF PrizeInv
    <2> QED
      BY <1>1, <2>2, <2>3, PaidChain
  <1>7. PrizeWithinCap'
    <2>1. ValueOf(Due) \in Nat
      BY WhatIsOwed
    <2>2. MaxPrize \in Int
      BY RoundAssumption DEF Unset
    <2> QED
      BY <1>1, <1>2, <2>1, <2>2 DEF PrizeInv, PrizeWithinCap
  <1> QED
    BY <1>6, <1>7 DEF PrizeInv

\* Every other request leaves the ledger to the round.
LEMMA PrizeStep == DeskInv /\ PrizeInv /\ [WinnersNext]_allVars => PrizeInv'
  <1> SUFFICES ASSUME DeskInv, PrizeInv, [WinnersNext]_allVars PROVE PrizeInv'
    OBVIOUS
  <1>1. CASE UNCHANGED <<current, ledger>>
    BY <1>1 DEF PrizeInv, LedgerIsChain, PrizeWithinCap
  <1>2. CASE Next
    <2>1. LedgerInv
      BY DEF PrizeInv, DeskInv, DeskTypes, LedgerInv, PublishedIsSeeded
    <2>2. LedgerIsChain' /\ PrizeWithinCap'
      BY <1>2, <2>1, LedgerStep, CapStep DEF PrizeInv, LedgerInv
    <2>3. ledger' # <<>>
      BY <1>2, <2>1, StepMovesPrize, SeedStays DEF PrizeInv, LedgerInv, TypeOK
    <2> QED
      BY <2>2, <2>3 DEF PrizeInv
  <1>3. CASE SettleWinners
    BY <1>3, SettlePrize
  <1>4. CASE FinaliseRead \/ DrawRead \/ AbandonDeclaring
    <2>1. UNCHANGED vars
      BY <1>4, Zenon DEF FinaliseRead, DrawRead, AbandonDeclaring, Reading
    <2> QED
      BY <1>1, <2>1 DEF vars
  <1>5. CASE FinaliseReject \/ FinaliseApply \/ FinaliseInstant \/ DrawApply
    <2>1. UNCHANGED prizeVars
      BY <1>5 DEF FinaliseReject, FinaliseApply, FinaliseInstant, DrawApply, ScoresOnly, Unchanging
    <2> QED
      BY <1>1, <2>1 DEF prizeVars
  <1>6. ASSUME NEW w, ValidateWinner(w) \/ ClaimPrize(w) \/ AdvanceClaim(w) \/ Lapse(w)
                      \/ \E s \in {"disqualified", "unclaimed"} : ReplaceRead(w, s)
        PROVE  PrizeInv'
    <2>1. UNCHANGED prizeVars \/ UNCHANGED vars
      BY <1>6, Zenon DEF ValidateWinner, ClaimPrize, AdvanceClaim, SetClaim, Lapse, ReplaceRead
    <2> QED
      BY <1>1, <2>1 DEF prizeVars, vars
  <1>7. ASSUME NEW r, ReplaceApply(r) \/ AbandonReplace(r) PROVE PrizeInv'
    <2>1. UNCHANGED prizeVars \/ UNCHANGED vars
      BY <1>7, Zenon DEF ReplaceApply, AbandonReplace
    <2> QED
      BY <1>1, <2>1 DEF prizeVars, vars
  <1>8. ASSUME NEW c, BecomeIneligible(c) PROVE PrizeInv'
    BY <1>1, <1>8 DEF BecomeIneligible, vars
  <1>9. CASE UNCHANGED allVars
    BY <1>1, <1>9 DEF allVars, vars
  <1> QED
    BY <1>2, <1>3, <1>4, <1>5, <1>6, <1>7, <1>8, <1>9, Zenon DEF WinnersNext

LEMMA PrizeInvariant == WinnersSpec => [](DeskInv /\ PrizeInv)
  <1>1. WinnersInit => DeskInv /\ PrizeInv
    BY DeskInit, ClosedChain
  <1>2. DeskInv /\ PrizeInv /\ [WinnersNext]_allVars => (DeskInv /\ PrizeInv)'
    BY DeskStep, PrizeStep
  <1> QED
    BY <1>1, <1>2, PTL DEF WinnersSpec

\* The ledger still explains the prize to the cent when winners are paid from
\* it, in one settlement or several, with adjustments and voids in between:
\* each payment takes on from the balance before it.
THEOREM PaymentsKeepChain == WinnersSpec => []LedgerIsChain
  <1>1. DeskInv /\ PrizeInv => LedgerIsChain
    BY DEF PrizeInv
  <1> QED
    BY <1>1, PrizeInvariant, PTL

-----------------------------------------------------------------------------
(* What was paid stays paid.                                               *)

StillPaid ==
    \A w \in Winning : winners[w].settlement = "settled" =>
      /\ winners'[w].settlement = "settled"
      /\ winners'[w].customer = winners[w].customer /\ winners'[w].value = winners[w].value

\* More rows, and one row of the same winner.
LEMMA PaidMore ==
    ASSUME winners \in Seq(Winner), NEW more, NewRows(more), winners' = winners \o more
    PROVE  StillPaid
  <1>1. more \in Seq(Winner)
    BY DEF NewRows
  <1>2. \A w \in Winning : winners'[w] = winners[w]
    BY <1>1 DEF Winning
  <1> QED
    BY <1>2 DEF StillPaid

LEMMA PaidRow ==
    ASSUME winners \in Seq(Winner), NEW w \in Winning, NEW row, SameWinner(row, winners[w]),
           winners' = [winners EXCEPT ![w] = row]
    PROVE  StillPaid
  <1>1. \A v \in Winning : winners'[v] = IF v = w THEN row ELSE winners[v]
    BY DEF Winning
  <1> QED
    BY <1>1 DEF SameWinner, StillPaid

\* A replacement changes one row and adds others.
LEMMA ReplacePaid ==
    ASSUME DeskInv, NEW r \in replacing, ReplaceApply(r)
    PROVE  StillPaid
  <1>1. /\ RequestFits(r, winners) /\ Desk(winners, ledger) /\ winners \in Seq(Winner)
    BY DEF DeskInv, DeskTypes, TypeOK
  <1>2. PICK w \in Winning : w = r.winner
    BY <1>1 DEF RequestFits, Winning
  <1>3. PICK row : row = Retired(winners[w], r.status)
    OBVIOUS
  <1>4. PICK rows : rows = [winners EXCEPT ![w] = row] /\ winners' = rows \o r.rows
    BY <1>2, <1>3, Zenon DEF ReplaceApply
  <1>5. SameWinner(row, winners[w]) /\ row \in Winner
    <2>1. winners[w] \in Winner /\ WinnerFits(winners[w])
      BY <1>1 DEF Desk, Winning
    <2>2. SameWinner(row, winners[w])
      BY <1>1, <1>3, <2>1, RetiredRow DEF RequestFits
    <2> QED
      BY <2>2 DEF SameWinner
  <1>6. /\ rows \in Seq(Winner) /\ DOMAIN rows = Winning /\ r.rows \in Seq(Winner)
        /\ \A v \in Winning : rows[v] = IF v = w THEN row ELSE winners[v]
    BY <1>1, <1>4, <1>5 DEF Winning, RequestFits, NewRows
  <1>7. \A v \in Winning : winners'[v] = rows[v]
    BY <1>4, <1>6
  <1> QED
    BY <1>5, <1>6, <1>7 DEF SameWinner, StillPaid

\* A settled row is due no more.
LEMMA SettlePaid ==
    ASSUME DeskInv, SettleWinners
    PROVE  StillPaid
  <1>1. winners' = [w \in Winning |-> IF w \in Due THEN SettledRow(winners[w], Value(w))
                                      ELSE winners[w]]
    BY Zenon DEF SettleWinners, SettledRow
  <1>2. \A w \in Winning : winners[w].settlement = "settled" => w \notin Due
    BY DEF Due
  <1> QED
    BY <1>1, <1>2 DEF StillPaid

\* Whatever becomes of a winner that was paid, also one that an admin retires
\* after all, the row says that it was paid, to whom and how much.
THEOREM PaidIsPaid == WinnersSpec => PaymentsStand
  <1>1. ASSUME DeskInv, [WinnersNext]_allVars PROVE StillPaid
    <2>1. winners \in Seq(Winner)
      BY <1>1 DEF DeskInv, DeskTypes, TypeOK
    <2>2. CASE UNCHANGED winners
      BY <2>2 DEF StillPaid
    <2>3. CASE Next
      BY <1>1, <2>2, <2>3, RoundStep
    <2>4. CASE FinaliseRead \/ DrawRead \/ AbandonDeclaring
      <3>1. UNCHANGED vars
        BY <2>4, Zenon DEF FinaliseRead, DrawRead, AbandonDeclaring, Reading
      <3> QED
        BY <2>2, <3>1 DEF vars
    <2>5. CASE FinaliseReject \/ FinaliseInstant
      BY <2>2, <2>5 DEF FinaliseReject, FinaliseInstant, ScoresOnly, Unchanging
    <2>6. CASE FinaliseApply \/ DrawApply
      <3>1. NewRows(declaring.rows) /\ winners' = winners \o declaring.rows
        BY <1>1, <2>6 DEF FinaliseApply, DrawApply, DeskInv, DeclaringFits
      <3> QED
        BY <2>1, <3>1, PaidMore
    <2>7. CASE SettleWinners
      BY <1>1, <2>7, SettlePaid
    <2>8. ASSUME NEW w \in Winning, ValidateWinner(w) \/ ClaimPrize(w) \/ AdvanceClaim(w)
          PROVE  StillPaid
      <3>1. winners[w] \in Winner /\ WinnerFits(winners[w])
        BY <1>1, <2>1 DEF DeskInv, Desk, Winning
      <3>2. PICK row :
              /\ winners' = [winners EXCEPT ![w] = row]
              /\ \/ /\ winners[w].status = "pending_validation"
                    /\ \/ row = [winners[w] EXCEPT !.status = "validated",
                                   !.settlement = "not_applicable", !.claim = "fulfilled"]
                       \/ row = [winners[w] EXCEPT !.status = "validated", !.claim = "pending"]
                 \/ /\ winners[w].claim \in {"pending", "claimed", "verified"}
                    /\ \E to \in {"claimed", "verified", "fulfilled"} :
                         row = [winners[w] EXCEPT !.claim = to]
        <4>1. CASE ValidateWinner(w)
          BY <2>1, <4>1 DEF ValidateWinner, Winning
        <4>2. ASSUME NEW from \in {"pending", "claimed", "verified"},
                     NEW to \in {"claimed", "verified", "fulfilled"}, SetClaim(w, from, to)
              PROVE  /\ winners[w].claim = from
                     /\ winners' = [winners EXCEPT ![w] = [winners[w] EXCEPT !.claim = to]]
          BY <2>1, <4>2 DEF SetClaim, Winning
        <4>3. CASE ClaimPrize(w) \/ AdvanceClaim(w)
          BY <4>2, <4>3 DEF ClaimPrize, AdvanceClaim
        <4> QED
          BY <2>8, <4>1, <4>3
      <3>3. SameWinner(row, winners[w])
        BY <3>1, <3>2 DEF Winner, WinnerFits, SameWinner, Held
      <3> QED
        BY <2>1, <3>2, <3>3, PaidRow
    <2>9. ASSUME NEW w, Lapse(w) \/ \E s \in {"disqualified", "unclaimed"} : ReplaceRead(w, s)
          PROVE  StillPaid
      <3>1. UNCHANGED vars
        BY <2>9, Zenon DEF Lapse, ReplaceRead
      <3> QED
        BY <2>2, <3>1 DEF vars
    <2>10. ASSUME NEW r \in replacing, ReplaceApply(r) \/ AbandonReplace(r) PROVE StillPaid
      <3>1. CASE AbandonReplace(r)
        BY <2>2, <3>1 DEF AbandonReplace, vars
      <3> QED
        BY <1>1, <2>10, <3>1, ReplacePaid
    <2>11. ASSUME NEW c, BecomeIneligible(c) PROVE StillPaid
      BY <2>2, <2>11 DEF BecomeIneligible, vars
    <2>12. CASE UNCHANGED allVars
      BY <2>2, <2>12 DEF allVars, vars
    <2> QED
      BY <1>1, <2>3, <2>4, <2>5, <2>6, <2>7, <2>8, <2>9, <2>10, <2>11, <2>12, Zenon DEF WinnersNext
  <1>2. DeskInv /\ [WinnersNext]_allVars =>
          [\A w \in Winning : winners[w].settlement = "settled" =>
             /\ winners'[w].settlement = "settled"
             /\ winners'[w].customer = winners[w].customer /\ winners'[w].value = winners[w].value]_allVars
    BY <1>1 DEF StillPaid
  <1> QED
    BY <1>2, DeskInvariant, PTL DEF WinnersSpec, PaymentsStand

-----------------------------------------------------------------------------
(* Points: the cost of the plays, and the prizes credited.                 *)

Charged(c) == {i \in By(c) : ~Refunded(i)}
Credited(rows, c) == {w \in DOMAIN rows : rows[w].customer = c /\ rows[w].claim = "fulfilled"}

\* A winner not yet validated has no claim, and a points prize none that is
\* open: ValidateWinner fulfils it.
ClaimFits(row) ==
    /\ row.status = "pending_validation" => row.claim = "none"
    /\ PrizePoints > 0 => row.claim \in {"none", "fulfilled"}
CreditInv == PrizePointsCredited /\ \A w \in Winning : ClaimFits(winners[w])

\* The balance PrizePointsCredited says a customer has.
LEMMA CreditsAre ==
    PrizePointsCredited <=>
      \A c \in Customers :
        wallet[c] = InitialPoints - Charge * Cardinality(Charged(c))
                      + PrizePoints * Cardinality(Credited(winners, c))
  BY DEF PrizePointsCredited, Charged, Credited, Winning

\* Both counts are of finite sets.
LEMMA ChargedFinite ==
    TypeOK => \A c : IsFiniteSet(Charged(c)) /\ Cardinality(Charged(c)) \in Nat
  BY PlaysFinite DEF TypeOK, Charged, By

LEMMA CreditedFinite ==
    ASSUME NEW rows \in Seq(Winner), NEW c
    PROVE  IsFiniteSet(Credited(rows, c)) /\ Cardinality(Credited(rows, c)) \in Nat
  <1>1. DOMAIN rows = 1..Len(rows) /\ Len(rows) \in Nat
    OBVIOUS
  <1>2. IsFiniteSet(DOMAIN rows) /\ Credited(rows, c) \subseteq DOMAIN rows
    BY <1>1, FS_Interval DEF Credited
  <1> QED
    BY <1>2, FS_Subset, FS_CardinalityType

\* What a step that credits no prize does to the rows.
RowsAlike(rows, old) ==
    /\ rows \in Seq(Winner) /\ \A w \in DOMAIN rows : ClaimFits(rows[w])
    /\ PrizePoints > 0 => \A c : Credited(rows, c) = Credited(old, c)

\* The part of a balance that is prizes is then what it was.
LEMMA PrizesAlike ==
    ASSUME NEW rows \in Seq(Winner), NEW more, RowsAlike(more, rows), NEW c
    PROVE  PrizePoints * Cardinality(Credited(more, c)) = PrizePoints * Cardinality(Credited(rows, c))
  <1>1. CASE PrizePoints > 0
    BY <1>1 DEF RowsAlike
  <1>2. CASE ~(PrizePoints > 0)
    <2>1. PrizePoints = 0
      BY <1>2, WinnersAssumption
    <2>2. PICK m \in Nat, n \in Nat : /\ m = Cardinality(Credited(more, c))
                                      /\ n = Cardinality(Credited(rows, c))
      BY CreditedFinite DEF RowsAlike
    <2> QED
      BY <2>1, <2>2
  <1> QED
    BY <1>1, <1>2

\* A step that moves no points, sells or refunds no play, and credits none.
LEMMA CreditsKept ==
    ASSUME TypeOK, CreditInv, wallet' = wallet, unit' = unit, Plays' = Plays, RowsAlike(winners', winners),
           \A i \in Plays : /\ attempts'[i].customer = attempts[i].customer
                            /\ attempts'[i].charge = attempts[i].charge
    PROVE  CreditInv'
  <1>1. Charge' = Charge /\ \A c : Charged(c)' = Charged(c)
    BY DEF Charge, Charged, By, Refunded
  <1>2. \A c : PrizePoints * Cardinality(Credited(winners', c)) =
                 PrizePoints * Cardinality(Credited(winners, c))
    BY PrizesAlike DEF TypeOK
  <1>3. \A c \in Customers :
          wallet'[c] = InitialPoints - Charge * Cardinality(Charged(c)')
                         + PrizePoints * Cardinality(Credited(winners', c))
    BY <1>1, <1>2, CreditsAre DEF CreditInv
  <1>4. PrizePointsCredited'
    BY <1>1, <1>3 DEF PrizePointsCredited, Charged, Credited, Winning
  <1> QED
    BY <1>4 DEF CreditInv, RowsAlike, Winning

\* A step that refunds the plays in owed and changes no winner.
LEMMA CreditsRefunded ==
    ASSUME TypeOK, CreditInv, NEW owed \in SUBSET Owed, RefundPlays(owed),
           unit' = unit, Plays' = Plays, winners' = winners,
           \A i \in Plays :
             /\ attempts'[i].customer = attempts[i].customer
             /\ attempts'[i].charge = IF i \in owed THEN "refunded" ELSE attempts[i].charge
    PROVE  CreditInv'
  <1>1. owed \subseteq Plays /\ Charge \in Nat /\ Charge' = Charge /\ InitialPoints \in Nat /\ PrizePoints \in Nat
    BY ChargeType, RoundAssumption, WinnersAssumption DEF Owed, Charge
  <1>2. ASSUME NEW c \in Customers
        PROVE  wallet'[c] = InitialPoints - Charge * Cardinality(Charged(c)')
                              + PrizePoints * Cardinality(Credited(winners, c))
    <2> DEFINE R == {i \in owed : attempts[i].customer = c}
    <2>1. Charged(c)' = Charged(c) \ R
      BY <1>1 DEF Charged, By, Refunded
    <2>2. R \subseteq Charged(c)
      BY <1>1 DEF Charged, By, Owed
    <2>3. PICK m \in Nat, n \in Nat : m = Cardinality(Charged(c)) /\ n = Cardinality(R)
      BY <2>2, ChargedFinite, FS_Subset, FS_CardinalityType
    <2>4. wallet'[c] = wallet[c] + Charge * Cardinality(R)
      BY DEF RefundPlays
    <2> HIDE DEF R
    <2>5. Cardinality(Charged(c) \ R) = m - n
      <3>1. Charged(c) \cap R = R /\ IsFiniteSet(Charged(c))
        BY <2>2, ChargedFinite
      <3> QED
        BY <2>3, <3>1, FS_Difference
    <2>6. PICK b \in Nat : b = PrizePoints * Cardinality(Credited(winners, c))
      BY <1>1, CreditedFinite DEF TypeOK
    <2>7. wallet[c] = InitialPoints - Charge * m + b
      BY <2>3, <2>6, CreditsAre DEF CreditInv
    <2>8. /\ Charge * (m - n) = Charge * m - Charge * n
          /\ Charge * m \in Int /\ Charge * n \in Int
      BY <1>1
    <2>9. wallet'[c] = InitialPoints - Charge * (m - n) + b
      BY <1>1, <2>3, <2>4, <2>7, <2>8
    <2> QED
      BY <2>1, <2>5, <2>6, <2>9
  <1>3. PrizePointsCredited'
    BY <1>1, <1>2 DEF PrizePointsCredited, Charged, Credited, Winning
  <1> QED
    BY <1>3 DEF CreditInv, Winning

\* Rows of new winners have no claims; a row that changes otherwise than by
\* being validated for points was, and is, fulfilled or not.
LEMMA AlikeMore ==
    ASSUME NEW rows, NEW old, RowsAlike(rows, old), NEW more, NewRows(more)
    PROVE  RowsAlike(rows \o more, old)
  <1>1. rows \in Seq(Winner) /\ more \in Seq(Winner)
    BY DEF RowsAlike, NewRows
  <1>2. PICK all : all = rows \o more
    OBVIOUS
  <1>3. /\ all \in Seq(Winner)
        /\ \A w \in DOMAIN all : \/ w \in DOMAIN rows /\ all[w] = rows[w]
                                 \/ \E k \in DOMAIN more : all[w] = more[k]
        /\ \A w \in DOMAIN rows : w \in DOMAIN all /\ all[w] = rows[w]
    <2>1. /\ all \in Seq(Winner) /\ Len(rows) \in Nat /\ Len(more) \in Nat
          /\ DOMAIN rows = 1..Len(rows) /\ DOMAIN more = 1..Len(more)
          /\ DOMAIN all = 1..(Len(rows) + Len(more))
      BY <1>1, <1>2
    <2>2. ASSUME NEW w \in DOMAIN rows PROVE w \in DOMAIN all /\ all[w] = rows[w]
      BY <1>1, <1>2, <2>1
    <2>3. ASSUME NEW w \in DOMAIN all, w \notin DOMAIN rows
          PROVE  w - Len(rows) \in DOMAIN more /\ all[w] = more[w - Len(rows)]
      BY <1>1, <1>2, <2>1, <2>3
    <2> QED
      BY <2>1, <2>2, <2>3
  <1>4. \A k \in DOMAIN more : more[k].claim = "none"
    BY DEF NewRows
  <1>5. \A w \in DOMAIN all : ClaimFits(all[w])
    BY <1>3, <1>4 DEF RowsAlike, ClaimFits
  <1>6. ASSUME NEW c PROVE Credited(all, c) = Credited(rows, c)
    BY <1>3, <1>4 DEF Credited
  <1> QED
    BY <1>2, <1>3, <1>5, <1>6 DEF RowsAlike

LEMMA AlikeRow ==
    ASSUME NEW rows \in Seq(Winner), \A w \in DOMAIN rows : ClaimFits(rows[w]),
           NEW w \in DOMAIN rows, NEW row \in Winner, row.customer = rows[w].customer,
           ClaimFits(row),
           PrizePoints > 0 => (row.claim = "fulfilled" <=> rows[w].claim = "fulfilled")
    PROVE  RowsAlike([rows EXCEPT ![w] = row], rows)
  <1>1. PICK all : all = [rows EXCEPT ![w] = row]
    OBVIOUS
  <1>2. /\ all \in Seq(Winner) /\ DOMAIN all = DOMAIN rows
        /\ \A v \in DOMAIN rows : all[v] = IF v = w THEN row ELSE rows[v]
    BY <1>1
  <1>3. ASSUME PrizePoints > 0, NEW c PROVE Credited(all, c) = Credited(rows, c)
    BY <1>2, <1>3 DEF Credited
  <1> QED
    BY <1>1, <1>2, <1>3 DEF RowsAlike

\* A round is on the points it was created with.
LEMMA UnitKept == Next => unit' = unit
  <1> SUFFICES ASSUME Next PROVE unit' = unit
    OBVIOUS
  <1>1. CASE \/ \E s \in StartPrizes, w \in {"before", "open", "over"} : Update(s, w)
             \/ Wait \/ Schedule \/ Tick \/ NextDay \/ SyncClose \/ SyncOpen
    BY <1>1 DEF Update, Wait, Schedule, Tick, NextDay, SyncClose, SyncOpen, Unchanging, clockVars
  <1>2. CASE \E c \in Customers, k \in Keys, now \in Nows :
               PlaySkill(c, k, now) \/ PlayChance(c, k, now) \/ PlayWin(c, k, now)
    BY <1>2 DEF PlaySkill, PlayChance, PlayWin, StartPlay, clockVars
  <1>3. CASE \/ \E i \in Plays : SubmitOfficial(i) \/ ExpireSession(i) \/ ReadForReview(i)
             \/ \E i \in Plays, v \in {"accepted", "manual_review", "rejected"} :
                  SaveOfficialScore(i, v)
             \/ \E i \in Plays, v \in {"accepted", "rejected"} : ReviewSubmission(i, v)
    BY <1>3 DEF SubmitOfficial, ExpireSession, ReadForReview, SaveOfficialScore,
                ReviewSubmission, ScoresOnly, clockVars
  <1>4. CASE \/ Pause \/ Resume \/ Close \/ Freeze \/ Cancel
             \/ \E d \in AdjustDeltas : AdjustPrize(d)
             \/ \E i \in Plays, refund \in BOOLEAN, reverse \in BOOLEAN :
                  VoidPlay(i, refund, reverse)
    BY <1>4 DEF Pause, Resume, Close, Freeze, Cancel, AdjustPrize, VoidPlay, Unchanging, clockVars
  <1> QED
    BY <1>1, <1>2, <1>3, <1>4 DEF Next

\* A step of the round keeps every charge, or refunds plays that are owed.
LEMMA RoundCharges ==
    ASSUME DeskInv, CreditInv, Next
    PROVE  CreditInv'
  <1>1. /\ TypeOK /\ UNCHANGED <<winners, unit>> /\ Plays' = Plays
        /\ attempts \in Seq(Attempt) /\ \A i \in Plays : attempts[i] \in Attempt
    BY RoundStep, UnitKept DEF DeskInv, DeskTypes, TypeOK, Plays
  <1>2. status \in {"closed", "frozen", "finalised", "cancelled"}
    BY DEF DeskInv, Stopped
  <1>3. ASSUME wallet' = wallet,
               \A i \in Plays : /\ attempts'[i].customer = attempts[i].customer
                                /\ attempts'[i].charge = attempts[i].charge
        PROVE  CreditInv'
    <2>1. RowsAlike(winners', winners)
      BY <1>1 DEF RowsAlike, CreditInv, Winning, TypeOK
    <2> QED
      BY <1>1, <1>3, <2>1, CreditsKept
  <1>4. CASE UNCHANGED <<attempts, wallet>>
    BY <1>3, <1>4
  <1>5. ASSUME NEW i \in Plays, NEW row, attempts' = [attempts EXCEPT ![i] = row],
               row.customer = attempts[i].customer, row.charge = attempts[i].charge,
               wallet' = wallet
        PROVE  CreditInv'
    <2>1. \A j \in Plays : attempts'[j] = IF j = i THEN row ELSE attempts[j]
      BY <1>5 DEF Plays
    <2> QED
      BY <1>3, <1>5, <2>1
  <1>6. ASSUME NEW i \in Plays, ExpireSession(i) PROVE CreditInv'
    <2>1. PICK row : /\ attempts' = [attempts EXCEPT ![i] = row] /\ wallet' = wallet
                     /\ row = [attempts[i] EXCEPT !.session = "expired"]
      BY <1>6 DEF ExpireSession, ScoresOnly, pointVars
    <2>2. row.customer = attempts[i].customer /\ row.charge = attempts[i].charge
      BY <1>1, <2>1 DEF Attempt
    <2> QED
      BY <1>5, <2>1, <2>2
  <1>7. ASSUME NEW i \in Plays, NEW v,
               SaveOfficialScore(i, v) \/ ReviewSubmission(i, v)
        PROVE  CreditInv'
    <2>1. PICK row :
            /\ attempts' = [attempts EXCEPT ![i] = row] /\ wallet' = wallet
            /\ \/ row = [attempts[i] EXCEPT !.session = "submitted", !.score = v,
                           !.status = IF v = "manual_review" THEN "submitted" ELSE v]
               \/ row = [attempts[i] EXCEPT !.score = v, !.status = v]
      BY <1>7 DEF SaveOfficialScore, ReviewSubmission, ScoresOnly, pointVars
    <2>2. row.customer = attempts[i].customer /\ row.charge = attempts[i].charge
      BY <1>1, <2>1 DEF Attempt
    <2> QED
      BY <1>5, <2>1, <2>2
  <1>8. ASSUME NEW rows, rows \in Seq(Attempt), DOMAIN rows = Plays, NEW i \in Plays
        PROVE  /\ ExpireSessions(rows)[i].customer = rows[i].customer
               /\ ExpireSessions(rows)[i].charge = rows[i].charge
    <2>1. rows[i] \in Attempt
      BY <1>8
    <2> QED
      BY <1>8, <2>1 DEF ExpireSessions, Attempt
  <1>9. CASE Freeze
    <2>1. attempts' = ExpireSessions(attempts) /\ wallet' = wallet
      BY <1>9 DEF Freeze, Unchanging, pointVars
    <2> QED
      BY <1>1, <1>3, <1>8, <2>1 DEF Plays
  <1>10. CASE Cancel
    <2>1. attempts' = ExpireSessions(AllVoided) /\ RefundPlays(Owed)
      BY <1>10 DEF Cancel
    <2>2. AllVoided \in Seq(Attempt) /\ DOMAIN AllVoided = Plays
      BY <1>1, AllVoidedType DEF AllVoided
    <2>3. ASSUME NEW i \in Plays
          PROVE  /\ AllVoided[i].customer = attempts[i].customer
                 /\ AllVoided[i].charge = IF i \in Owed THEN "refunded" ELSE attempts[i].charge
      BY <1>1 DEF AllVoided, Attempt
    <2>4. \A i \in Plays :
            /\ attempts'[i].customer = attempts[i].customer
            /\ attempts'[i].charge = IF i \in Owed THEN "refunded" ELSE attempts[i].charge
      BY <1>8, <2>1, <2>2, <2>3
    <2> QED
      BY <1>1, <2>1, <2>4, CreditsRefunded
  <1>11. ASSUME NEW i \in Plays, NEW refund \in BOOLEAN, NEW reverse \in BOOLEAN,
                VoidPlay(i, refund, reverse)
         PROVE  CreditInv'
    <2> DEFINE o == IF refund THEN {i} \cap Owed ELSE {}
    <2>a. o \in SUBSET Owed /\ \A j \in o : j = i
      OBVIOUS
    <2> HIDE DEF o
    <2>1. PICK owed : owed = o /\ owed \in SUBSET Owed /\ \A j \in owed : j = i
      BY <2>a
    <2>2. PICK row : row = Voided(attempts[i], i \in owed)
      OBVIOUS
    <2>3. attempts' = [attempts EXCEPT ![i] = row] /\ RefundPlays(owed)
      BY <1>11, <2>1, <2>2 DEF VoidPlay, o
    <2>4. /\ row.customer = attempts[i].customer
          /\ row.charge = IF i \in owed THEN "refunded" ELSE attempts[i].charge
      BY <1>1, <2>2 DEF Voided, Attempt
    <2>5. \A j \in Plays : attempts'[j] = IF j = i THEN row ELSE attempts[j]
      BY <2>3 DEF Plays
    <2>6. \A j \in Plays :
            /\ attempts'[j].customer = attempts[j].customer
            /\ attempts'[j].charge = IF j \in owed THEN "refunded" ELSE attempts[j].charge
      BY <2>1, <2>4, <2>5
    <2> QED
      BY <1>1, <2>1, <2>3, <2>6, CreditsRefunded
  <1>12. ASSUME NEW c, NEW k, NEW now, PlaySkill(c, k, now) \/ PlayChance(c, k, now) \/ PlayWin(c, k, now)
         PROVE  FALSE
    BY <1>2, <1>12 DEF PlaySkill, PlayChance, PlayWin, StartPlay
  <1>13. CASE \/ \E s \in StartPrizes, w \in {"before", "open", "over"} : Update(s, w)
              \/ Wait \/ Schedule \/ Tick \/ NextDay \/ SyncClose \/ SyncOpen
              \/ Pause \/ Resume \/ Close
              \/ \E i \in Plays : SubmitOfficial(i) \/ ReadForReview(i)
              \/ \E d \in AdjustDeltas : AdjustPrize(d)
    BY <1>4, <1>13 DEF Update, Wait, Schedule, Tick, NextDay, SyncClose, SyncOpen, Pause, Resume,
         Close, AdjustPrize, Unchanging, SubmitOfficial, ReadForReview, ScoresOnly, pointVars
  <1> QED
    BY <1>6, <1>7, <1>9, <1>10, <1>11, <1>12, <1>13 DEF Next

\* Validating the winner of a points prize credits it, as that winner only.
LEMMA ValidateCredits ==
    ASSUME DeskInv, CreditInv, NEW w \in Winning, ValidateWinner(w)
    PROVE  CreditInv'
  <1>1. /\ TypeOK /\ winners \in Seq(Winner) /\ winners[w] \in Winner /\ UNCHANGED <<attempts, unit>>
        /\ winners[w].status = "pending_validation" /\ ClaimFits(winners[w])
        /\ Plays' = Plays
    BY DEF DeskInv, DeskTypes, TypeOK, Winning, ValidateWinner, WinnersOnly, CreditInv, Plays
  <1>2. winners[w].claim = "none" /\ PrizePoints \in Nat /\ InitialPoints \in Nat 
        /\ Charge \in Nat /\ Charge' = Charge
    BY <1>1, ChargeType, WinnersAssumption, RoundAssumption
       DEF ClaimFits, ValidateWinner, WinnersOnly, Charge
  <1>3. CASE ~(PrizePoints > 0)
    <2>1. PICK row : /\ row = [winners[w] EXCEPT !.status = "validated", !.claim = "pending"]
                     /\ winners' = [winners EXCEPT ![w] = row] /\ wallet' = wallet
      BY <1>1, <1>3 DEF ValidateWinner, Winning
    <2>2. row \in Winner /\ row.customer = winners[w].customer /\ ClaimFits(row)
      BY <1>1, <1>3, <2>1 DEF Winner, ClaimFits
    <2>3. RowsAlike(winners', winners)
      BY <1>1, <1>3, <2>1, <2>2, AlikeRow DEF CreditInv, Winning
    <2> QED
      BY <1>1, <2>1, <2>3, CreditsKept
  <1>4. CASE PrizePoints > 0
    <2>1. PICK row : /\ row = [winners[w] EXCEPT !.status = "validated",
                                 !.settlement = "not_applicable", !.claim = "fulfilled"]
                     /\ winners' = [winners EXCEPT ![w] = row]
                     /\ wallet' = [wallet EXCEPT ![winners[w].customer] = @ + PrizePoints]
      BY <1>1, <1>4 DEF ValidateWinner, Winning
    <2>2. /\ row.customer = winners[w].customer /\ ClaimFits(row) /\ row.claim = "fulfilled"
          /\ row \in Winner /\ row.customer \in Customers
      BY <1>1, <2>1 DEF Winner, ClaimFits
    <2>3. DOMAIN winners' = Winning /\ \A v \in Winning : winners'[v] = IF v = w THEN row ELSE winners[v]
      BY <2>1 DEF Winning
    <2>4. \A v \in DOMAIN winners' : ClaimFits(winners'[v])
      BY <2>2, <2>3 DEF CreditInv
    <2>5. ASSUME NEW c \in Customers
          PROVE  wallet'[c] = InitialPoints - Charge * Cardinality(Charged(c))
                                + PrizePoints * Cardinality(Credited(winners', c))
      <3>1. Credited(winners', c) = IF c = row.customer THEN Credited(winners, c) \cup {w}
                                                       ELSE Credited(winners, c)
        BY <1>2, <2>2, <2>3 DEF Credited, Winning
      <3>2. w \notin Credited(winners, c)
        BY <1>2 DEF Credited
      <3>3. PICK m \in Nat, n \in Nat : /\ m = Cardinality(Charged(c))
                                        /\ n = Cardinality(Credited(winners, c))
        BY <1>1, ChargedFinite, CreditedFinite
      <3>4. wallet[c] = InitialPoints - Charge * m + PrizePoints * n
        BY <3>3, CreditsAre DEF CreditInv
      <3>5. CASE c # row.customer
        <4>1. wallet'[c] = wallet[c]
          BY <1>1, <2>1, <2>2, <3>5 DEF TypeOK
        <4> QED
          BY <3>1, <3>3, <3>4, <3>5, <4>1
      <3>6. CASE c = row.customer
        <4>1. wallet'[c] = wallet[c] + PrizePoints
          BY <1>1, <2>1, <2>2, <3>6 DEF TypeOK
        <4>2. Cardinality(Credited(winners', c)) = n + 1
          BY <1>1, <3>1, <3>2, <3>3, <3>6, CreditedFinite, FS_AddElement
        <4>3. /\ PrizePoints * (n + 1) = PrizePoints * n + PrizePoints
              /\ PrizePoints * n \in Int /\ Charge * m \in Int
          BY <1>2
        <4> QED
          BY <1>2, <3>3, <3>4, <4>1, <4>2, <4>3
      <3> QED
        BY <3>5, <3>6
    <2>6. \A c : Charged(c)' = Charged(c)
      BY <1>1 DEF Charged, By, Refunded
    <2>7. PrizePointsCredited'
      BY <1>2, <2>5, <2>6 DEF PrizePointsCredited, Charged, Credited, Winning
    <2> QED
      BY <2>4, <2>7 DEF CreditInv, Winning
  <1> QED
    BY <1>3, <1>4

\* The other handlers of a winner leave who it is, and a prize it has.
LEMMA SettleCredits ==
    ASSUME DeskInv, CreditInv, SettleWinners
    PROVE  CreditInv'
  <1>1. /\ TypeOK /\ UNCHANGED <<attempts, wallet, unit>> /\ Plays' = Plays
        /\ winners' = [w \in Winning |-> IF w \in Due THEN SettledRow(winners[w], Value(w))
                                         ELSE winners[w]]
    BY Zenon DEF DeskInv, DeskTypes, SettleWinners, SettledRow, WinnersOnly, clockVars, pointVars, Plays
  <1>2. winners' \in Seq(Winner)
    BY DeskStep DEF DeskInv, DeskTypes, TypeOK, WinnersNext
  <1>3. ASSUME NEW w \in Winning
        PROVE  /\ winners'[w].customer = winners[w].customer
               /\ winners'[w].claim = winners[w].claim /\ winners'[w].status = winners[w].status
    <2>1. winners[w] \in Winner
      BY DEF DeskInv, DeskTypes, TypeOK, Winning
    <2> QED
      BY <1>1, <2>1 DEF SettledRow, Winner
  <1>4. RowsAlike(winners', winners)
    <2>1. DOMAIN winners' = Winning
      BY <1>1
    <2>2. \A w \in DOMAIN winners' : ClaimFits(winners'[w])
      BY <1>3, <2>1 DEF CreditInv, ClaimFits
    <2>3. \A c : Credited(winners', c) = Credited(winners, c)
      BY <1>3, <2>1 DEF Credited, Winning
    <2> QED
      BY <1>2, <2>2, <2>3 DEF RowsAlike
  <1> QED
    BY <1>1, <1>4, CreditsKept

LEMMA ClaimCredits ==
    ASSUME DeskInv, CreditInv, NEW w \in Winning, NEW from \in {"pending", "claimed", "verified"},
           NEW to \in {"claimed", "verified", "fulfilled"}, SetClaim(w, from, to)
    PROVE  CreditInv'
  <1>1. /\ TypeOK /\ UNCHANGED <<attempts, wallet, unit>> /\ Plays' = Plays /\ winners \in Seq(Winner)
        /\ winners[w] \in Winner /\ WinnerFits(winners[w]) /\ winners[w].claim = from
    BY DEF DeskInv, DeskTypes, TypeOK, Desk, Winning, SetClaim, WinnersOnly, clockVars, pointVars, Plays
  <1>2. PICK row : winners' = [winners EXCEPT ![w] = row] /\ row = [winners[w] EXCEPT !.claim = to]
    BY <1>1 DEF SetClaim, Winning
  <1>3. ~(PrizePoints > 0) /\ winners[w].status = "validated"
    BY <1>1 DEF CreditInv, ClaimFits, WinnerFits
  <1>4. row \in Winner /\ row.customer = winners[w].customer /\ ClaimFits(row)
    BY <1>1, <1>2, <1>3 DEF Winner, ClaimFits
  <1>5. RowsAlike(winners', winners)
    BY <1>1, <1>2, <1>3, <1>4, AlikeRow DEF CreditInv, Winning
  <1> QED
    BY <1>1, <1>5, CreditsKept

LEMMA ReplaceCredits ==
    ASSUME DeskInv, CreditInv, NEW r \in replacing, ReplaceApply(r)
    PROVE  CreditInv'
  <1>1. /\ RequestFits(r, winners) /\ Desk(winners, ledger) /\ winners \in Seq(Winner) /\ TypeOK
        /\ UNCHANGED <<attempts, wallet, unit>> /\ Plays' = Plays
    BY Zenon DEF DeskInv, DeskTypes, TypeOK, ReplaceApply, WinnersOnly, clockVars, pointVars, Plays
  <1>2. PICK w \in Winning : w = r.winner
    BY <1>1 DEF RequestFits, Winning
  <1>3. PICK row : row = Retired(winners[w], r.status)
    OBVIOUS
  <1>4. PICK rows : rows = [winners EXCEPT ![w] = row] /\ winners' = rows \o r.rows
    BY <1>2, <1>3, Zenon DEF ReplaceApply
  <1>5. winners[w] \in Winner /\ ClaimFits(winners[w]) /\ r.status \in {"disqualified", "unclaimed"}
    BY <1>1 DEF CreditInv, RequestFits, Winning
  <1>6. /\ row \in Winner /\ row.customer = winners[w].customer /\ ClaimFits(row)
        /\ row.claim = "fulfilled" <=> winners[w].claim = "fulfilled"
    BY <1>3, <1>5 DEF Retired, Winner, ClaimFits
  <1>7. RowsAlike(rows, winners)
    BY <1>1, <1>4, <1>6, AlikeRow DEF CreditInv, Winning
  <1>8. RowsAlike(winners', winners)
    BY <1>1, <1>4, <1>7, AlikeMore DEF RequestFits
  <1> QED
    BY <1>1, <1>8, CreditsKept

LEMMA DeclaredCredits ==
    ASSUME DeskInv, CreditInv, FinaliseReject \/ FinaliseInstant \/ FinaliseApply \/ DrawApply
    PROVE  CreditInv'
  <1>1. /\ TypeOK /\ winners \in Seq(Winner) /\ attempts \in Seq(Attempt)
        /\ \A i \in Plays : attempts[i] \in Attempt
    BY DEF DeskInv, DeskTypes, TypeOK, Plays
  <1>2. RowsAlike(winners, winners)
    BY <1>1 DEF RowsAlike, CreditInv, Winning
  <1>3. RowsAlike(winners', winners) /\ wallet' = wallet /\ unit' = unit
    <2>1. CASE FinaliseReject \/ FinaliseInstant
      BY <1>2, <2>1 DEF FinaliseReject, FinaliseInstant, ScoresOnly, Unchanging, pointVars, clockVars
    <2>2. CASE FinaliseApply \/ DrawApply
      <3>1. /\ NewRows(declaring.rows) /\ winners' = winners \o declaring.rows
            /\ wallet' = wallet /\ unit' = unit
        BY <2>2 DEF FinaliseApply, DrawApply, DeskInv, DeclaringFits, pointVars, clockVars
      <3> QED
        BY <1>2, <3>1, AlikeMore
    <2> QED
      BY <2>1, <2>2
  <1>4. CASE FinaliseApply
    BY <1>1, <1>3, <1>4, CreditsKept DEF FinaliseApply, Plays
  <1>5. CASE FinaliseReject
    <2>1. /\ Plays' = Plays
          /\ \A i \in Plays : attempts'[i] =
               IF i \in declaring.bad
                 THEN [attempts[i] EXCEPT !.score = "rejected", !.status = "rejected"]
                 ELSE attempts[i]
      BY <1>5 DEF FinaliseReject, Plays
    <2>2. \A i \in Plays : /\ attempts'[i].customer = attempts[i].customer
                           /\ attempts'[i].charge = attempts[i].charge
      BY <1>1, <2>1 DEF Attempt
    <2> QED
      BY <1>1, <1>3, <2>1, <2>2, CreditsKept
  <1>6. CASE FinaliseInstant \/ DrawApply
    <2>1. attempts' = ExpireSessions(attempts)
      BY <1>6 DEF FinaliseInstant, DrawApply
    <2>2. /\ Plays' = Plays
          /\ \A i \in Plays : attempts'[i] =
               IF attempts[i].session = "active" THEN [attempts[i] EXCEPT !.session = "expired"]
                                                 ELSE attempts[i]
      BY <2>1 DEF ExpireSessions, Plays
    <2>3. \A i \in Plays : /\ attempts'[i].customer = attempts[i].customer
                           /\ attempts'[i].charge = attempts[i].charge
      BY <1>1, <2>2 DEF Attempt
    <2> QED
      BY <1>1, <1>3, <2>2, <2>3, CreditsKept
  <1> QED
    BY <1>4, <1>5, <1>6

LEMMA CreditStep == DeskInv /\ CreditInv /\ [WinnersNext]_allVars => CreditInv'
  <1> SUFFICES ASSUME DeskInv, CreditInv, [WinnersNext]_allVars PROVE CreditInv'
    OBVIOUS
  <1>1. CASE UNCHANGED vars
    <2>1. TypeOK /\ RowsAlike(winners, winners)
      BY DEF DeskInv, DeskTypes, TypeOK, RowsAlike, CreditInv, Winning
    <2>2. UNCHANGED <<winners, attempts, wallet, unit>> /\ Plays' = Plays
      BY <1>1 DEF vars, Plays
    <2> QED
      BY <2>1, <2>2, CreditsKept
  <1>2. CASE Next
    BY <1>2, RoundCharges
  <1>3. CASE FinaliseRead \/ DrawRead \/ AbandonDeclaring
    <2>1. UNCHANGED vars
      BY <1>3, Zenon DEF FinaliseRead, DrawRead, AbandonDeclaring, Reading
    <2> QED
      BY <1>1, <2>1
  <1>4. CASE FinaliseReject \/ FinaliseApply \/ FinaliseInstant \/ DrawApply
    BY <1>4, DeclaredCredits
  <1>5. CASE SettleWinners
    BY <1>5, SettleCredits
  <1>6. ASSUME NEW w \in Winning, ValidateWinner(w) \/ ClaimPrize(w) \/ AdvanceClaim(w)
        PROVE  CreditInv'
    BY <1>6, ValidateCredits, ClaimCredits DEF ClaimPrize, AdvanceClaim
  <1>7. ASSUME NEW w, Lapse(w) \/ \E s \in {"disqualified", "unclaimed"} : ReplaceRead(w, s)
        PROVE  CreditInv'
    <2>1. UNCHANGED vars
      BY <1>7, Zenon DEF Lapse, ReplaceRead
    <2> QED
      BY <1>1, <2>1
  <1>8. ASSUME NEW r \in replacing, ReplaceApply(r) \/ AbandonReplace(r) PROVE CreditInv'
    <2>1. CASE AbandonReplace(r)
      <3>1. UNCHANGED vars
        BY <2>1, Zenon DEF AbandonReplace
      <3> QED
        BY <1>1, <3>1
    <2> QED
      BY <1>8, <2>1, ReplaceCredits
  <1>9. ASSUME NEW c, BecomeIneligible(c) PROVE CreditInv'
    <2>1. UNCHANGED vars
      BY <1>9, Zenon DEF BecomeIneligible
    <2> QED
      BY <1>1, <2>1
  <1>10. CASE UNCHANGED allVars
    <2>1. UNCHANGED vars
      BY <1>10, Zenon DEF allVars
    <2> QED
      BY <1>1, <2>1
  <1> QED
    BY <1>2, <1>3, <1>4, <1>5, <1>6, <1>7, <1>8, <1>9, <1>10, Zenon DEF WinnersNext

\* A closed round has every play charged for and no prize credited.
LEMMA CreditInit == WinnersInit => CreditInv
  <1> SUFFICES ASSUME WinnersInit PROVE CreditInv
    OBVIOUS
  <1>1. TypeOK /\ PrizePoints \in Nat
    BY ClosedTypes, WinnersAssumption
  <1>2. \A i \in Plays : ~Refunded(i)
    <2>1. PICK owner \in [1..MaxPlays -> Customers],
               score \in [1..MaxPlays -> {"accepted", "manual_review", "none"}] :
            attempts = [i \in 1..MaxPlays |-> SoldPlay(i, owner[i], score[i])]
      BY DEF WinnersInit
    <2>2. \A i, c, s : SoldPlay(i, c, s).charge = "kept"
      BY DEF SoldPlay
    <2>3. \A i \in Plays : attempts[i].charge = "kept"
      BY <2>1, <2>2, Zenon DEF Plays
    <2> QED
      BY <2>3 DEF Refunded
  <1>3. \A c : Charged(c) = By(c)
    BY <1>2 DEF Charged, By
  <1>4. ASSUME NEW w \in Winning
        PROVE  winners[w].claim = "none" /\ winners[w].status = "pending_validation"
    <2>1. PICK row : row = Row(MaxPlays, 1, "pending_validation", current)
      OBVIOUS
    <2>2. row.claim = "none" /\ row.status = "pending_validation"
      BY <2>1 DEF Row
    <2>3. winners = <<row>> \/ winners = <<>>
      BY <2>1, Zenon DEF WinnersInit
    <2>4. winners = <<row>> /\ w = 1
      BY <1>4, <2>3 DEF Winning
    <2> QED
      BY <2>2, <2>4
  <1>5. ASSUME NEW c \in Customers
        PROVE  wallet[c] = InitialPoints - Charge * Cardinality(Charged(c))
                             + PrizePoints * Cardinality(Credited(winners, c))
    <2>1. Credited(winners, c) = {}
      BY <1>4 DEF Credited, Winning
    <2>2. PrizePoints * Cardinality(Credited(winners, c)) = 0
      BY <1>1, <2>1, FS_EmptySet
    <2>3. wallet[c] = InitialPoints - Charge * Cardinality(By(c))
      BY DEF WinnersInit
    <2>4. InitialPoints - Charge * Cardinality(By(c)) \in Int
      <3>1. Cardinality(By(c)) \in Nat /\ Charge \in Nat /\ InitialPoints \in Nat
        BY <1>1, <1>3, ChargeType, ChargedFinite, RoundAssumption
      <3> QED
        BY <3>1
    <2> QED
      BY <1>3, <2>2, <2>3, <2>4
  <1> QED
    BY <1>4, <1>5, CreditsAre DEF CreditInv, ClaimFits

\* The points a prize is worth are credited once, to the winner validated for
\* it and to nobody else, and disqualifying the winner later neither takes
\* them back nor credits them again; the rest of what a balance lacks is the
\* cost of the plays not refunded, also of plays voided after a finalisation
\* read them.
THEOREM PointsPrizesOnce == WinnersSpec => []PrizePointsCredited
  <1>1. WinnersInit => DeskInv /\ CreditInv
    BY DeskInit, CreditInit
  <1>2. DeskInv /\ CreditInv /\ [WinnersNext]_allVars => (DeskInv /\ CreditInv)'
    BY DeskStep, CreditStep
  <1>3. DeskInv /\ CreditInv => PrizePointsCredited
    BY DEF CreditInv
  <1> QED
    BY <1>1, <1>2, <1>3, PTL DEF WinnersSpec
=============================================================================
