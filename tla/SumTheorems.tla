---------------------------- MODULE SumTheorems ----------------------------
(***************************************************************************)
(* Induction over finite sets in first-order form, and the algebra of sums *)
(* over finite sets (SumFunctionOnSet of module Functions) that follows    *)
(* from it. Nothing here is about this program; the modules that prove     *)
(* what balances add up to extend it.                                      *)
(***************************************************************************)
EXTENDS Integers, FiniteSets, FiniteSetTheorems, TLAPS

-----------------------------------------------------------------------------
(* Induction.                                                              *)

\* Sets of subsets of a finite set have minimal members.
LEMMA MinimalSubset ==
    ASSUME NEW S, IsFiniteSet(S), NEW B, B \subseteq SUBSET S, B # {}
    PROVE  \E T \in B : \A U \in B : U \subseteq T => U = T
  <1> DEFINE R == StrictSubsetOrdering(S)
  <1>1. IsWellFoundedOn(R, SUBSET S)
    BY FS_FiniteSubsetsOfFinite, FS_StrictSubsetOrderingWellFounded
  <1>2. PICK T \in B : \A U \in B : ~ (<<U, T>> \in R)
    <2> HIDE DEF R
    <2> QED
      BY <1>1, WFMin, Zenon
  <1>3. ASSUME NEW U \in B, U \subseteq T, U # T PROVE <<U, T>> \in R
    BY <1>3 DEF StrictSubsetOrdering
  <1>4. \A U \in B : U \subseteq T => U = T
    BY <1>2, <1>3, Zenon
  <1> QED
    BY <1>4, Zenon

\* A property (the sets in Q) holds of a finite set when it holds of each of
\* its subsets whose own subsets all have it.
LEMMA SubsetInduction ==
    ASSUME NEW S, IsFiniteSet(S), NEW Q \in SUBSET SUBSET S,
           \A T \in SUBSET S : (\A U \in SUBSET T : U # T => U \in Q) => T \in Q
    PROVE  \A T \in SUBSET S : T \in Q
  <1> SUFFICES ASSUME (SUBSET S) \ Q # {} PROVE FALSE
    OBVIOUS
  <1>1. PICK T \in (SUBSET S) \ Q : \A U \in (SUBSET S) \ Q : U \subseteq T => U = T
    <2> DEFINE B == (SUBSET S) \ Q
    <2>1. B \subseteq SUBSET S /\ B # {}
      OBVIOUS
    <2> HIDE DEF B
    <2>2. \E T \in B : \A U \in B : U \subseteq T => U = T
      BY <2>1, MinimalSubset
    <2> QED
      BY <2>2 DEF B
  <1>2. \A U \in SUBSET T : U # T => U \in Q
    BY <1>1
  <1> QED
    BY <1>1, <1>2

\* A property that holds of {}, and of T \cup {x} when it holds of T, holds
\* of a finite set.
LEMMA SetInduction ==
    ASSUME NEW S, IsFiniteSet(S), NEW Q \in SUBSET SUBSET S, {} \in Q,
           \A T \in Q : \A x \in S \ T : T \cup {x} \in Q
    PROVE  \A T \in SUBSET S : T \in Q
  <1>1. ASSUME NEW T \in SUBSET S, \A U \in SUBSET T : U # T => U \in Q
        PROVE  T \in Q
    <2>1. CASE T = {}
      BY <2>1
    <2>2. CASE T # {}
      <3>1. PICK x \in T : TRUE
        BY <2>2
      <3>2. T \ {x} \in Q
        BY <1>1, <3>1
      <3>3. (T \ {x}) \cup {x} = T /\ x \in S \ (T \ {x})
        BY <3>1
      <3> QED
        BY <3>2, <3>3
    <2> QED
      BY <2>1, <2>2
  <1> QED
    BY <1>1, SubsetInduction, Zenon

\* The image of a finite set is finite.
LEMMA ImageFinite ==
    ASSUME NEW S, IsFiniteSet(S), NEW h
    PROVE  IsFiniteSet({h[x] : x \in S})
  <1> DEFINE Im(T) == {h[x] : x \in T}
             Q == {T \in SUBSET S : IsFiniteSet(Im(T))}
  <1>1. {} \in Q
    <2>1. Im({}) = {}
      OBVIOUS
    <2> QED
      BY <2>1, FS_EmptySet
  <1>2. ASSUME NEW T \in Q, NEW x \in S \ T PROVE T \cup {x} \in Q
    <2>1. Im(T \cup {x}) = Im(T) \cup {h[x]}
      OBVIOUS
    <2>2. IsFiniteSet(Im(T) \cup {h[x]})
      BY FS_AddElement
    <2>3. IsFiniteSet(Im(T \cup {x}))
      BY <2>1, <2>2
    <2> QED
      BY <2>3
  <1>3. S \in Q
    <2> HIDE DEF Q
    <2>1. Q \in SUBSET SUBSET S
      BY DEF Q
    <2> QED
      BY <1>1, <1>2, <2>1, SetInduction
  <1> QED
    BY <1>3

-----------------------------------------------------------------------------
(* The fold behind a sum is defined by its equation.                       *)

Pick(s) == CHOOSE x \in s : TRUE
IsSum(it, f, S) ==
    it = [s \in SUBSET S |-> IF s = {} THEN 0 ELSE f[Pick(s)] + it[s \ {Pick(s)}]]

LEMMA PickIn == ASSUME NEW s, s # {} PROVE Pick(s) \in s
  BY Zenon DEF Pick

\* Two tables agree on the sets both have.
LEMMA SumsAgree ==
    ASSUME NEW f, NEW S, IsFiniteSet(S), NEW T \in SUBSET S,
           NEW a, IsSum(a, f, S), NEW b, IsSum(b, f, T)
    PROVE  \A U \in SUBSET T : a[U] = b[U]
  <1> DEFINE Q == {U \in SUBSET T : a[U] = b[U]}
  <1>1. ASSUME NEW U \in SUBSET T, \A V \in SUBSET U : V # U => V \in Q
        PROVE  U \in Q
    <2>1. U \in SUBSET S
      OBVIOUS
    <2>2. CASE U = {}
      BY <2>1, <2>2 DEF IsSum
    <2>3. CASE U # {}
      <3>1. U \ {Pick(U)} \in Q
        BY <1>1, <2>3, PickIn
      <3> QED
        BY <2>1, <2>3, <3>1 DEF IsSum
    <2> QED
      BY <2>2, <2>3
  <1>2. IsFiniteSet(T)
    BY FS_Subset
  <1>3. \A U \in SUBSET T : U \in Q
    <2> HIDE DEF Q
    <2>1. Q \in SUBSET SUBSET T
      BY DEF Q
    <2> QED
      BY <1>1, <1>2, <2>1, SubsetInduction
  <1> QED
    BY <1>3

LEMMA SumExists ==
    ASSUME NEW f, NEW S, IsFiniteSet(S)
    PROVE  \E it : IsSum(it, f, S)
  <1> DEFINE Q == {T \in SUBSET S : \E it : IsSum(it, f, T)}
  <1>1. ASSUME NEW T \in SUBSET S, \A U \in SUBSET T : U # T => U \in Q
        PROVE  T \in Q
    <2> DEFINE tab(U) == CHOOSE it : IsSum(it, f, U)
               rest(s) == s \ {Pick(s)}
               g == [s \in SUBSET T |->
                       IF s = {} THEN 0 ELSE f[Pick(s)] + tab(rest(s))[rest(s)]]
    <2>1. ASSUME NEW U \in SUBSET T, U # T PROVE IsSum(tab(U), f, U)
      <3>1. \E it : IsSum(it, f, U)
        BY <1>1, <2>1
      <3> QED
        BY <3>1, Zenon
    <2>2. ASSUME NEW U \in SUBSET T, U # T, NEW V \in SUBSET U
          PROVE  tab(U)[V] = tab(V)[V]
      <3>1. IsFiniteSet(U) /\ V \in SUBSET T /\ V # T
        BY <2>2, FS_Subset
      <3>2. IsSum(tab(V), f, V) /\ IsSum(tab(U), f, U)
        BY <2>1, <2>2, <3>1
      <3> HIDE DEF tab
      <3> QED
        BY <3>1, <3>2, SumsAgree
    <2>3. ASSUME NEW s \in SUBSET T, s # T PROVE g[s] = tab(s)[s]
      <3>1. IsSum(tab(s), f, s)
        BY <2>1, <2>3
      <3> HIDE DEF tab
      <3>2. CASE s = {}
        BY <3>1, <3>2 DEF IsSum
      <3>3. CASE s # {}
        <4>1. rest(s) \in SUBSET s
          OBVIOUS
        <4>2. tab(s)[s] = f[Pick(s)] + tab(s)[rest(s)]
          BY <3>1, <3>3 DEF IsSum
        <4> QED
          BY <2>2, <2>3, <3>3, <4>1, <4>2
      <3> QED
        BY <3>2, <3>3
    <2>4. IsSum(g, f, T)
      <3>1. ASSUME NEW s \in SUBSET T, s # {} PROVE g[rest(s)] = tab(rest(s))[rest(s)]
        <4>1. rest(s) \in SUBSET T /\ rest(s) # T
          BY <3>1, PickIn
        <4> HIDE DEF g, tab, rest
        <4> QED
          BY <2>3, <4>1
      <3> HIDE DEF tab
      <3> QED
        BY <3>1 DEF IsSum
    <2> QED
      BY <2>4
  <1>2. \A T \in SUBSET S : T \in Q
    <2> HIDE DEF Q
    <2>1. Q \in SUBSET SUBSET S
      BY DEF Q
    <2> QED
      BY <1>1, <2>1, SubsetInduction
  <1> QED
    BY <1>2

-----------------------------------------------------------------------------
(* Sums.                                                                   *)

LEMMA SumTable ==
    ASSUME NEW f, NEW S, IsFiniteSet(S)
    PROVE  \E it : IsSum(it, f, S) /\ \A T \in SUBSET S : SumFunctionOnSet(f, T) = it[T]
  <1> DEFINE it(T) == CHOOSE g : IsSum(g, f, T)
  <1>1. ASSUME NEW T PROVE SumFunctionOnSet(f, T) = it(T)[T]
    BY Zenon DEF SumFunctionOnSet, FoldFunctionOnSet, MapThenFoldSet, IsSum, Pick
  <1>2. ASSUME NEW T \in SUBSET S PROVE IsSum(it(T), f, T)
    <2>1. \E g : IsSum(g, f, T)
      BY FS_Subset, SumExists
    <2> QED
      BY <2>1, Zenon
  <1> HIDE DEF it
  <1>3. ASSUME NEW T \in SUBSET S PROVE it(S)[T] = it(T)[T]
    BY <1>2, SumsAgree
  <1> QED
    BY <1>1, <1>2, <1>3

\* The sum of nothing, and of a set with an element taken out that the fold
\* happens to take first.
LEMMA SumEmpty == ASSUME NEW f PROVE SumFunctionOnSet(f, {}) = 0
  <1>1. PICK it : IsSum(it, f, {}) /\ SumFunctionOnSet(f, {}) = it[{}]
    BY FS_EmptySet, SumTable
  <1> QED
    BY <1>1 DEF IsSum

LEMMA SumPick ==
    ASSUME NEW f, NEW S, IsFiniteSet(S), S # {}
    PROVE  /\ Pick(S) \in S
           /\ SumFunctionOnSet(f, S) = f[Pick(S)] + SumFunctionOnSet(f, S \ {Pick(S)})
  <1>1. PICK it : /\ IsSum(it, f, S)
                  /\ \A T \in SUBSET S : SumFunctionOnSet(f, T) = it[T]
    BY SumTable
  <1> QED
    BY <1>1, PickIn DEF IsSum

\* Functions that agree on a set have the same sum over it.
LEMMA SumEqual ==
    ASSUME NEW f, NEW g, NEW S, IsFiniteSet(S), \A x \in S : f[x] = g[x]
    PROVE  SumFunctionOnSet(f, S) = SumFunctionOnSet(g, S)
  <1> DEFINE Q == {T \in SUBSET S : SumFunctionOnSet(f, T) = SumFunctionOnSet(g, T)}
  <1>1. ASSUME NEW T \in SUBSET S, \A U \in SUBSET T : U # T => U \in Q
        PROVE  T \in Q
    <2>1. CASE T = {}
      BY <2>1, SumEmpty
    <2>2. CASE T # {}
      <3>1. IsFiniteSet(T)
        BY FS_Subset
      <3>2. T \ {Pick(T)} \in Q /\ Pick(T) \in S
        BY <1>1, <2>2, PickIn
      <3> QED
        BY <2>2, <3>1, <3>2, SumPick
    <2> QED
      BY <2>1, <2>2
  <1>2. S \in Q
    <2> HIDE DEF Q
    <2>1. Q \in SUBSET SUBSET S
      BY DEF Q
    <2> QED
      BY <1>1, <2>1, SubsetInduction
  <1> QED
    BY <1>2

\* A sum of integers is an integer.
LEMMA SumInt ==
    ASSUME NEW f, NEW S, IsFiniteSet(S), \A x \in S : f[x] \in Int
    PROVE  SumFunctionOnSet(f, S) \in Int
  <1> DEFINE Q == {T \in SUBSET S : SumFunctionOnSet(f, T) \in Int}
  <1>1. ASSUME NEW T \in SUBSET S, \A U \in SUBSET T : U # T => U \in Q
        PROVE  T \in Q
    <2>1. CASE T = {}
      BY <2>1, SumEmpty
    <2>2. CASE T # {}
      <3>1. IsFiniteSet(T)
        BY FS_Subset
      <3>2. T \ {Pick(T)} \in Q /\ Pick(T) \in S
        BY <1>1, <2>2, PickIn
      <3> QED
        BY <2>2, <3>1, <3>2, SumPick
    <2> QED
      BY <2>1, <2>2
  <1>2. S \in Q
    <2> HIDE DEF Q
    <2>1. Q \in SUBSET SUBSET S
      BY DEF Q
    <2> QED
      BY <1>1, <2>1, SubsetInduction
  <1> QED
    BY <1>2

\* Any element may be taken out of a sum, not only the one the fold takes.
LEMMA SumRemove ==
    ASSUME NEW f, NEW S, IsFiniteSet(S), \A x \in S : f[x] \in Int
    PROVE  \A x \in S : SumFunctionOnSet(f, S) = SumFunctionOnSet(f, S \ {x}) + f[x]
  <1> DEFINE Sum(T) == SumFunctionOnSet(f, T)
             Q == {T \in SUBSET S : \A x \in T : Sum(T) = Sum(T \ {x}) + f[x]}
  <1>1. ASSUME NEW T \in SUBSET S, \A U \in SUBSET T : U # T => U \in Q
        PROVE  T \in Q
    <2>1. ASSUME NEW x \in T PROVE Sum(T) = Sum(T \ {x}) + f[x]
      <3> DEFINE c == Pick(T)
                 d == Pick(T \ {x})
      <3>0. \A U \in SUBSET T : IsFiniteSet(U) /\ Sum(U) \in Int
        BY FS_Subset, SumInt
      <3>1. c \in T /\ Sum(T) = f[c] + Sum(T \ {c})
        BY <3>0, SumPick
      <3>2. CASE c = x
        BY <3>0, <3>1, <3>2
      <3>3. CASE c # x
        <4>1. T \ {c} \in Q /\ T \ {x} \in Q
          BY <1>1, <3>1
        <4>2. Sum(T \ {c}) = Sum((T \ {c}) \ {x}) + f[x]
          BY <3>3, <4>1
        <4>3. Sum(T \ {x}) = Sum((T \ {x}) \ {c}) + f[c]
          BY <3>1, <3>3, <4>1
        <4>4. Sum((T \ {c}) \ {x}) = Sum((T \ {x}) \ {c})
          <5>1. (T \ {c}) \ {x} = (T \ {x}) \ {c}
            OBVIOUS
          <5> QED
            BY <5>1
        <4>5. f[x] \in Int /\ f[c] \in Int /\ Sum((T \ {c}) \ {x}) \in Int
          BY <3>0, <3>1
        <4> HIDE DEF Sum, c
        <4> QED
          BY <3>1, <4>2, <4>3, <4>4, <4>5
      <3> QED
        BY <3>2, <3>3
    <2> QED
      BY <2>1
  <1>2. S \in Q
    <2> HIDE DEF Q
    <2>1. Q \in SUBSET SUBSET S
      BY DEF Q
    <2> QED
      BY <1>1, <2>1, SubsetInduction
  <1> QED
    BY <1>2

\* A sum with one more element.
LEMMA SumAdd ==
    ASSUME NEW f, NEW S, IsFiniteSet(S), NEW x, x \notin S, \A y \in S \cup {x} : f[y] \in Int
    PROVE  SumFunctionOnSet(f, S \cup {x}) = SumFunctionOnSet(f, S) + f[x]
  <1>1. IsFiniteSet(S \cup {x}) /\ (S \cup {x}) \ {x} = S
    BY FS_AddElement
  <1> QED
    BY <1>1, SumRemove

\* The sum of one element.
LEMMA SumSingle ==
    ASSUME NEW f, NEW x, f[x] \in Int
    PROVE  SumFunctionOnSet(f, {x}) = f[x]
  <1>1. IsFiniteSet({}) /\ {} \cup {x} = {x}
    BY FS_EmptySet
  <1>2. SumFunctionOnSet(f, {} \cup {x}) = SumFunctionOnSet(f, {}) + f[x]
    BY <1>1, SumAdd
  <1> QED
    BY <1>1, <1>2, SumEmpty

\* Sums over the same set add up.
LEMMA SumPlus ==
    ASSUME NEW f, NEW g, NEW h, NEW S, IsFiniteSet(S),
           \A x \in S : f[x] \in Int /\ g[x] \in Int /\ h[x] = f[x] + g[x]
    PROVE  SumFunctionOnSet(h, S) = SumFunctionOnSet(f, S) + SumFunctionOnSet(g, S)
  <1> DEFINE Q == {T \in SUBSET S : SumFunctionOnSet(h, T) =
                                      SumFunctionOnSet(f, T) + SumFunctionOnSet(g, T)}
  <1>1. {} \in Q
    BY SumEmpty
  <1>2. ASSUME NEW T \in Q, NEW x \in S \ T PROVE T \cup {x} \in Q
    <2>1. IsFiniteSet(T) /\ T \cup {x} \in SUBSET S
      BY FS_Subset
    <2>2. /\ SumFunctionOnSet(f, T) \in Int /\ SumFunctionOnSet(g, T) \in Int
          /\ f[x] \in Int /\ g[x] \in Int /\ h[x] = f[x] + g[x]
      BY <2>1, SumInt
    <2>3. \A y \in T \cup {x} : f[y] \in Int /\ g[y] \in Int /\ h[y] \in Int
      BY <2>1
    <2>4. /\ SumFunctionOnSet(f, T \cup {x}) = SumFunctionOnSet(f, T) + f[x]
          /\ SumFunctionOnSet(g, T \cup {x}) = SumFunctionOnSet(g, T) + g[x]
          /\ SumFunctionOnSet(h, T \cup {x}) = SumFunctionOnSet(h, T) + h[x]
      BY <2>1, <2>3, SumAdd
    <2>5. SumFunctionOnSet(h, T) = SumFunctionOnSet(f, T) + SumFunctionOnSet(g, T)
      OBVIOUS
    <2> QED
      BY <2>1, <2>2, <2>4, <2>5
  <1>3. S \in Q
    <2> HIDE DEF Q
    <2>1. Q \in SUBSET SUBSET S
      BY DEF Q
    <2> QED
      BY <1>1, <1>2, <2>1, SetInduction
  <1> QED
    BY <1>3

\* The sum over two sets that share nothing.
LEMMA SumUnion ==
    ASSUME NEW f, NEW S, IsFiniteSet(S), NEW T, IsFiniteSet(T), S \cap T = {},
           \A x \in S \cup T : f[x] \in Int
    PROVE  SumFunctionOnSet(f, S \cup T) = SumFunctionOnSet(f, S) + SumFunctionOnSet(f, T)
  <1> DEFINE Q == {U \in SUBSET T : SumFunctionOnSet(f, S \cup U) =
                                      SumFunctionOnSet(f, S) + SumFunctionOnSet(f, U)}
  <1>0. SumFunctionOnSet(f, S) \in Int
    BY SumInt
  <1>1. {} \in Q
    BY <1>0, SumEmpty, S \cup {} = S
  <1>2. ASSUME NEW U \in Q, NEW x \in T \ U PROVE U \cup {x} \in Q
    <2>1. IsFiniteSet(U) /\ U \cup {x} \in SUBSET T /\ IsFiniteSet(S \cup U) /\ x \notin S \cup U
      BY FS_Subset, FS_Union
    <2>2. SumFunctionOnSet(f, U) \in Int /\ f[x] \in Int
      BY <2>1, SumInt
    <2>3. SumFunctionOnSet(f, U \cup {x}) = SumFunctionOnSet(f, U) + f[x]
      BY <2>1, SumAdd
    <2>4. SumFunctionOnSet(f, (S \cup U) \cup {x}) = SumFunctionOnSet(f, S \cup U) + f[x]
      BY <2>1, SumAdd
    <2>5. SumFunctionOnSet(f, (S \cup U) \cup {x}) = SumFunctionOnSet(f, S \cup (U \cup {x}))
      <3>1. (S \cup U) \cup {x} = S \cup (U \cup {x})
        OBVIOUS
      <3> QED
        BY <3>1
    <2>6. SumFunctionOnSet(f, S \cup U) = SumFunctionOnSet(f, S) + SumFunctionOnSet(f, U)
      OBVIOUS
    <2>7. SumFunctionOnSet(f, S \cup (U \cup {x})) =
            SumFunctionOnSet(f, S) + SumFunctionOnSet(f, U \cup {x})
      <3> HIDE DEF Q
      <3> QED
        BY <1>0, <2>2, <2>3, <2>4, <2>5, <2>6
    <2> QED
      BY <2>1, <2>7
  <1>3. T \in Q
    <2> HIDE DEF Q
    <2>1. Q \in SUBSET SUBSET T
      BY DEF Q
    <2> QED
      BY <1>1, <1>2, <2>1, SetInduction
  <1> QED
    BY <1>3

\* A sum after one of its terms changed.
LEMMA SumChange ==
    ASSUME NEW f, NEW g, NEW S, IsFiniteSet(S), NEW x \in S,
           f[x] \in Int, g[x] \in Int,
           \A y \in S \ {x} : f[y] \in Int /\ g[y] = f[y]
    PROVE  SumFunctionOnSet(g, S) = SumFunctionOnSet(f, S) + g[x] - f[x]
  <1>1. IsFiniteSet(S \ {x})
    BY FS_Subset
  <1>2. SumFunctionOnSet(f, S \ {x}) \in Int
    BY <1>1, SumInt
  <1>3. SumFunctionOnSet(f, S \ {x}) = SumFunctionOnSet(g, S \ {x})
    BY <1>1, SumEqual
  <1>4. /\ SumFunctionOnSet(f, S) = SumFunctionOnSet(f, S \ {x}) + f[x]
        /\ SumFunctionOnSet(g, S) = SumFunctionOnSet(g, S \ {x}) + g[x]
    <2>1. \A y \in S : f[y] \in Int /\ g[y] \in Int
      OBVIOUS
    <2> QED
      BY <2>1, SumRemove
  <1> QED
    BY <1>2, <1>3, <1>4

\* A sum after d was added to one of its terms.
LEMMA SumExcept ==
    ASSUME NEW S, IsFiniteSet(S), NEW f \in [S -> Int], NEW g, NEW x \in S, NEW d \in Int,
           g = [f EXCEPT ![x] = f[x] + d]
    PROVE  SumFunctionOnSet(g, S) = SumFunctionOnSet(f, S) + d
  <1>1. PICK h : /\ f[x] \in Int /\ h[x] \in Int /\ h[x] = f[x] + d
                 /\ \A y \in S \ {x} : f[y] \in Int /\ h[y] = f[y]
                 /\ SumFunctionOnSet(h, S) = SumFunctionOnSet(g, S)
    <2>1. /\ f[x] \in Int /\ g[x] \in Int /\ g[x] = f[x] + d
          /\ \A y \in S \ {x} : f[y] \in Int /\ g[y] = f[y]
      OBVIOUS
    <2> QED
      BY <2>1, Zenon
  <1>2. SumFunctionOnSet(f, S) \in Int
    BY SumInt
  <1>3. SumFunctionOnSet(h, S) = SumFunctionOnSet(f, S) + h[x] - f[x]
    BY <1>1, SumChange
  <1> QED
    BY <1>1, <1>2, <1>3

\* Renaming what is summed over changes no sum.
LEMMA SumImage ==
    ASSUME NEW S, IsFiniteSet(S), NEW h, \A x, y \in S : h[x] = h[y] => x = y,
           NEW f, NEW g, \A x \in S : f[x] \in Int /\ g[h[x]] = f[x],
           NEW M, \A x \in S : h[x] \in M, \A y \in M : \E x \in S : y = h[x]
    PROVE  IsFiniteSet(M) /\ SumFunctionOnSet(g, M) = SumFunctionOnSet(f, S)
  <1> DEFINE Im(T) == {h[x] : x \in T}
             Q == {T \in SUBSET S : IsFiniteSet(Im(T)) /\ SumFunctionOnSet(g, Im(T)) = SumFunctionOnSet(f, T)}
  <1>1. {} \in Q
    <2>1. Im({}) = {}
      OBVIOUS
    <2> QED
      BY <2>1, SumEmpty, FS_EmptySet
  <1>2. ASSUME NEW T \in Q, NEW x \in S \ T PROVE T \cup {x} \in Q
    <2>1. /\ Im(T \cup {x}) = Im(T) \cup {h[x]} /\ h[x] \notin Im(T)
          /\ \A y \in Im(T) \cup {h[x]} : g[y] \in Int
          /\ \A y \in T \cup {x} : f[y] \in Int
      OBVIOUS
    <2>2. IsFiniteSet(T) /\ IsFiniteSet(Im(T)) /\ IsFiniteSet(Im(T) \cup {h[x]})
      BY FS_Subset, FS_AddElement
    <2>3. SumFunctionOnSet(f, T \cup {x}) = SumFunctionOnSet(f, T) + f[x]
      BY <2>1, <2>2, SumAdd
    <2>4. SumFunctionOnSet(g, Im(T) \cup {h[x]}) = SumFunctionOnSet(g, Im(T)) + g[h[x]]
      <3>i. PICK I : I = Im(T)
        OBVIOUS
      <3>1. IsFiniteSet(I) /\ h[x] \notin I /\ \A y \in I \cup {h[x]} : g[y] \in Int
        BY <3>i, <2>1, <2>2
      <3>2. SumFunctionOnSet(g, I \cup {h[x]}) = SumFunctionOnSet(g, I) + g[h[x]]
        BY <3>1, SumAdd
      <3> QED
        BY <3>i, <3>2, Zenon
    <2> QED
      BY <2>1, <2>2, <2>3, <2>4
  <1>3. S \in Q
    <2> HIDE DEF Q
    <2>1. Q \in SUBSET SUBSET S
      BY DEF Q
    <2> QED
      BY <1>1, <1>2, <2>1, SetInduction
  <1>4. Im(S) = M
    OBVIOUS
  <1> HIDE DEF Im
  <1> QED
    BY <1>3, <1>4, Zenon

\* A sum of nothing but zeros.
LEMMA SumZero ==
    ASSUME NEW f, NEW S, IsFiniteSet(S), \A x \in S : f[x] = 0
    PROVE  SumFunctionOnSet(f, S) = 0
  <1> DEFINE Q == {T \in SUBSET S : SumFunctionOnSet(f, T) = 0}
  <1>1. {} \in Q
    BY SumEmpty
  <1>2. ASSUME NEW T \in Q, NEW x \in S \ T PROVE T \cup {x} \in Q
    <2>1. IsFiniteSet(T) /\ \A y \in T \cup {x} : f[y] = 0
      BY FS_Subset
    <2> QED
      BY <2>1, SumAdd
  <1>3. S \in Q
    <2> HIDE DEF Q
    <2>1. Q \in SUBSET SUBSET S
      BY DEF Q
    <2> QED
      BY <1>1, <1>2, <2>1, SetInduction
  <1> QED
    BY <1>3

\* Only the terms that are not zero count.
LEMMA SumSupport ==
    ASSUME NEW S, IsFiniteSet(S), NEW K \in SUBSET S, NEW f, \A x \in S : f[x] \in Int,
           \A x \in S \ K : f[x] = 0
    PROVE  SumFunctionOnSet(f, S) = SumFunctionOnSet(f, K)
  <1> PICK R : R = S \ K
    OBVIOUS
  <1>1. /\ IsFiniteSet(K) /\ IsFiniteSet(R) /\ K \cap R = {} /\ K \cup R = S
        /\ \A x \in K \cup R : f[x] \in Int
        /\ \A x \in R : f[x] = 0
    BY FS_Subset
  <1>2. SumFunctionOnSet(f, K \cup R) = SumFunctionOnSet(f, K) + SumFunctionOnSet(f, R)
    BY <1>1, SumUnion
  <1>3. SumFunctionOnSet(f, R) = 0
    BY <1>1, SumZero
  <1>4. SumFunctionOnSet(f, K) \in Int
    BY <1>1, SumInt
  <1>5. SumFunctionOnSet(f, K \cup R) = SumFunctionOnSet(f, K)
    BY <1>2, <1>3, <1>4
  <1> QED
    BY <1>1, <1>5, Zenon

\* Some terms of f, those of K, give up a part that becomes a term of its own
\* in g, outside S: that of x under h[x], and M has all of these.
Splits(f, g, S, K, h, M) ==
    /\ IsFiniteSet(S) /\ K \in SUBSET S
    /\ \A x, y \in K : h[x] = h[y] => x = y
    /\ \A x \in K : h[x] \notin S
    /\ \A x \in S : f[x] \in Int /\ g[x] \in Int
    /\ \A x \in S \ K : g[x] = f[x]
    /\ \A x \in K : g[h[x]] \in Int /\ f[x] = g[x] + g[h[x]]
    /\ \A x \in K : h[x] \in M
    /\ \A y \in M : \E x \in K : y = h[x]

LEMMA SumSplit ==
    ASSUME NEW f, NEW g, NEW S, NEW K, NEW h, NEW M, Splits(f, g, S, K, h, M)
    PROVE  SumFunctionOnSet(g, S \cup M) = SumFunctionOnSet(f, S)
  <1> USE DEF Splits
  <1> DEFINE s == [x \in S |-> IF x \in K THEN g[h[x]] ELSE 0]
  <1>1. \A x \in S : g[x] \in Int /\ s[x] \in Int /\ f[x] = g[x] + s[x]
    OBVIOUS
  <1>2. /\ \A x \in S \ K : s[x] = 0
        /\ \A x \in K : s[x] \in Int /\ g[h[x]] = s[x]
    OBVIOUS
  <1> HIDE DEF s
  <1>3. SumFunctionOnSet(f, S) = SumFunctionOnSet(g, S) + SumFunctionOnSet(s, S)
    BY <1>1, SumPlus
  <1>4. SumFunctionOnSet(s, S) = SumFunctionOnSet(s, K)
    BY <1>1, <1>2, SumSupport
  <1>5. IsFiniteSet(M) /\ SumFunctionOnSet(g, M) = SumFunctionOnSet(s, K)
    <2>1. IsFiniteSet(K)
      BY FS_Subset
    <2> QED
      BY <1>2, <2>1, SumImage
  <1>6. SumFunctionOnSet(g, S \cup M) = SumFunctionOnSet(g, S) + SumFunctionOnSet(g, M)
    <2>1. S \cap M = {} /\ \A x \in S \cup M : g[x] \in Int
      OBVIOUS
    <2> QED
      BY <1>5, <2>1, SumUnion
  <1>7. SumFunctionOnSet(g, S \cup M) = SumFunctionOnSet(f, S)
    BY <1>3, <1>4, <1>5, <1>6
  <1> QED
    BY <1>7, Zenon

\* A sum of natural numbers is one, and no term exceeds it.
LEMMA SumNat ==
    ASSUME NEW f, NEW S, IsFiniteSet(S), \A x \in S : f[x] \in Nat
    PROVE  /\ SumFunctionOnSet(f, S) \in Nat
           /\ \A T \in SUBSET S : SumFunctionOnSet(f, T) \in Nat
                                  /\ SumFunctionOnSet(f, T) <= SumFunctionOnSet(f, S)
           /\ \A x \in S : f[x] <= SumFunctionOnSet(f, S)
  <1> DEFINE Q == {T \in SUBSET S : SumFunctionOnSet(f, T) \in Nat}
  <1>1. {} \in Q
    BY SumEmpty
  <1>2. ASSUME NEW T \in Q, NEW x \in S \ T PROVE T \cup {x} \in Q
    <2>1. IsFiniteSet(T) /\ \A y \in T \cup {x} : f[y] \in Nat
      BY FS_Subset
    <2> QED
      BY <2>1, SumAdd
  <1>3. \A T \in SUBSET S : SumFunctionOnSet(f, T) \in Nat
    <2> HIDE DEF Q
    <2>1. Q \in SUBSET SUBSET S
      BY DEF Q
    <2>2. \A T \in SUBSET S : T \in Q
      BY <1>1, <1>2, <2>1, SetInduction
    <2> QED
      BY <2>2 DEF Q
  <1>4. ASSUME NEW T \in SUBSET S PROVE SumFunctionOnSet(f, T) <= SumFunctionOnSet(f, S)
    <2>1. IsFiniteSet(T) /\ IsFiniteSet(S \ T) /\ T \cap (S \ T) = {} /\ T \cup (S \ T) = S
      BY FS_Subset
    <2>2. SumFunctionOnSet(f, T \cup (S \ T)) = SumFunctionOnSet(f, T) + SumFunctionOnSet(f, S \ T)
      BY <2>1, SumUnion
    <2> QED
      BY <1>3, <2>1, <2>2
  <1>5. ASSUME NEW x \in S PROVE f[x] <= SumFunctionOnSet(f, S)
    <2>1. {x} \in SUBSET S
      OBVIOUS
    <2>2. SumFunctionOnSet(f, {x}) = f[x]
      BY SumSingle, f[x] \in Int
    <2> QED
      BY <1>4, <2>1, <2>2
  <1> QED
    BY <1>3, <1>4, <1>5
=============================================================================
