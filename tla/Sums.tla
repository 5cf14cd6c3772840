-------------------------------- MODULE Sums --------------------------------
(***************************************************************************)
(* What a sum of natural numbers over a finite set is worth.  The tables'   *)
(* totals (a wallet's ledger, a batch's reservations, an auction's sales)   *)
(* are written with SumFunctionOnSet, which folds a set in an order that a  *)
(* CHOOSE picks.  Here the fold is shown to count the units of the summands,*)
(* so that what is known of cardinalities says how a sum changes when an    *)
(* entry is added, taken away or replaced.  And a table whose rows are       *)
(* numbered has a first free row.                                            *)
(***************************************************************************)
EXTENDS Integers, FiniteSetsExt, FiniteSetTheorems, WellFoundedInduction, TLAPS

\* The units of f over S, those of x being 1..f[x].
UnitsOf(f, x) == {x} \X (1 .. f[x])
Units(f, S) == UNION {UnitsOf(f, x) : x \in S}

\* There are finitely many, f[x] of each x.
LEMMA UnitsOfOne ==
    ASSUME NEW f, NEW x, f[x] \in Nat
    PROVE  IsFiniteSet(UnitsOf(f, x)) /\ Cardinality(UnitsOf(f, x)) = f[x]
<1>1. IsFiniteSet({x}) /\ Cardinality({x}) = 1
    BY FS_Singleton
<1>2. IsFiniteSet(1 .. f[x]) /\ Cardinality(1 .. f[x]) = f[x]
    BY FS_Interval
<1>3. IsFiniteSet({x} \X (1 .. f[x]))
      /\ Cardinality({x} \X (1 .. f[x])) = Cardinality({x}) * Cardinality(1 .. f[x])
    BY <1>1, <1>2, FS_Product
<1>4. \A n \in Nat : 1 * n = n
    OBVIOUS
<1> QED BY <1>1, <1>2, <1>3, <1>4 DEF UnitsOf

LEMMA UnitsFinite ==
    ASSUME NEW f, NEW S, IsFiniteSet(S), \A x \in S : f[x] \in Nat
    PROVE  IsFiniteSet(Units(f, S)) /\ Cardinality(Units(f, S)) \in Nat
<1>1. IsFiniteSet({UnitsOf(f, x) : x \in S})
  <2> DEFINE u == [x \in S |-> UnitsOf(f, x)]
             T == {UnitsOf(f, x) : x \in S}
  <2>1. u \in Surjection(S, T)
      BY DEF Surjection
  <2> HIDE DEF u, T
  <2>2. IsFiniteSet(T)
      BY <2>1, FS_Surjection
  <2> QED BY <2>2 DEF T
<1>2. \A T \in {UnitsOf(f, x) : x \in S} : IsFiniteSet(T)
    BY UnitsOfOne
<1> QED BY <1>1, <1>2, FS_UNION, FS_CardinalityType DEF Units

\* One more summand adds its units.
LEMMA UnitsAdd ==
    ASSUME NEW f, NEW S, IsFiniteSet(S), NEW x, x \notin S, \A y \in S \cup {x} : f[y] \in Nat
    PROVE  Cardinality(Units(f, S \cup {x})) = f[x] + Cardinality(Units(f, S))
<1>1. Units(f, S \cup {x}) = Units(f, S) \cup UnitsOf(f, x)
    BY DEF Units
<1>2. Units(f, S) \cap UnitsOf(f, x) = {}
    BY DEF Units, UnitsOf
<1>3. IsFiniteSet(Units(f, S)) /\ Cardinality(Units(f, S)) \in Nat
    BY UnitsFinite
<1>4. IsFiniteSet(UnitsOf(f, x)) /\ Cardinality(UnitsOf(f, x)) = f[x] /\ f[x] \in Nat
    BY UnitsOfOne
<1>5. Cardinality({}) = 0
    BY FS_EmptySet
<1> DEFINE U == Units(f, S)
           V == UnitsOf(f, x)
<1>6. U \cap V = {} /\ IsFiniteSet(U) /\ IsFiniteSet(V) /\ Cardinality(V) = f[x]
      /\ Cardinality(U) \in Nat /\ f[x] \in Nat
    BY <1>2, <1>3, <1>4
<1> HIDE DEF U, V
<1>7. Cardinality(U \cup V) = Cardinality(U) + Cardinality(V) - Cardinality(U \cap V)
    BY <1>6, FS_Union
<1>8. Cardinality(U \cap V) = 0
    BY <1>5, <1>6, Zenon
<1>9. Cardinality(U \cup V) = f[x] + Cardinality(U)
    BY <1>6, <1>7, <1>8
<1> QED BY <1>1, <1>9 DEF U, V

\* The fold, as a function on the subsets of S: what the library's operator iterates.
First(s) == CHOOSE x \in s : TRUE
Iterated(f, S, g) == [s \in SUBSET S |-> IF s = {} THEN 0 ELSE f[First(s)] + g[s \ {First(s)}]]
Iteration(f, S) == CHOOSE g : g = Iterated(f, S, g)

LEMMA SumIsIteration ==
    ASSUME NEW f, NEW S
    PROVE  SumFunctionOnSet(f, S) = Iteration(f, S)[S]
BY DEF SumFunctionOnSet, FoldFunctionOnSet, MapThenFoldSet, Iteration, Iterated, First

\* A function that counts units satisfies the recursion, so that there is one that does.
LEMMA IterationExists ==
    ASSUME NEW f, NEW S, IsFiniteSet(S), \A x \in S : f[x] \in Nat
    PROVE  Iteration(f, S) = Iterated(f, S, Iteration(f, S))
<1> DEFINE g == [s \in SUBSET S |-> Cardinality(Units(f, s))]
<1>1. ASSUME NEW s \in SUBSET S, s # {}
      PROVE  g[s] = f[First(s)] + g[s \ {First(s)}]
  <2>1. First(s) \in s
      BY <1>1 DEF First
  <2>2. IsFiniteSet(s) /\ IsFiniteSet(s \ {First(s)})
      BY FS_Subset, FS_RemoveElement
  <2>3. s = (s \ {First(s)}) \cup {First(s)}
      BY <2>1
  <2>4. Cardinality(Units(f, s)) = f[First(s)] + Cardinality(Units(f, s \ {First(s)}))
    <3> DEFINE t == s \ {First(s)}
    <3>1. IsFiniteSet(t) /\ First(s) \notin t /\ \A y \in t \cup {First(s)} : f[y] \in Nat
        BY <2>1, <2>2
    <3>2. s = t \cup {First(s)}
        BY <2>3
    <3> HIDE DEF t
    <3>3. Cardinality(Units(f, t \cup {First(s)})) = f[First(s)] + Cardinality(Units(f, t))
        BY <3>1, UnitsAdd
    <3> QED BY <3>2, <3>3 DEF t
  <2>5. s \ {First(s)} \in SUBSET S
      OBVIOUS
  <2> QED BY <2>4, <2>5
<1>2. g[{}] = 0
  <2>1. Units(f, {}) = {}
      BY DEF Units
  <2> QED BY <2>1, FS_EmptySet
<1>3. g = Iterated(f, S, g)
  <2>1. \A s \in SUBSET S : g[s] = IF s = {} THEN 0 ELSE f[First(s)] + g[s \ {First(s)}]
      BY <1>1, <1>2
  <2>2. g = [s \in SUBSET S |-> g[s]]
      OBVIOUS
  <2> HIDE DEF g
  <2> QED BY <2>1, <2>2 DEF Iterated
<1>4. \E h : h = Iterated(f, S, h)
  <2> HIDE DEF g
  <2> QED BY <1>3
<1> QED BY <1>4 DEF Iteration

\* And there is only one: a set without its smallest counterexample has none.
LEMMA IterationCounts ==
    ASSUME NEW f, NEW S, IsFiniteSet(S), \A x \in S : f[x] \in Nat
    PROVE  \A s \in SUBSET S : Iteration(f, S)[s] = Cardinality(Units(f, s))
<1> DEFINE wrong == {s \in SUBSET S : Iteration(f, S)[s] # Cardinality(Units(f, s))}
<1> SUFFICES ASSUME wrong # {} PROVE FALSE
    OBVIOUS
<1>1. \A s \in SUBSET S : Iteration(f, S)[s] =
          IF s = {} THEN 0 ELSE f[First(s)] + Iteration(f, S)[s \ {First(s)}]
  <2>1. Iteration(f, S) = Iterated(f, S, Iteration(f, S))
      BY IterationExists
  <2> DEFINE h == Iteration(f, S)
  <2>2. h = [s \in SUBSET S |-> IF s = {} THEN 0 ELSE f[First(s)] + h[s \ {First(s)}]]
      BY <2>1 DEF Iterated
  <2> HIDE DEF h
  <2>3. \A s \in SUBSET S : h[s] = IF s = {} THEN 0 ELSE f[First(s)] + h[s \ {First(s)}]
      BY <2>2
  <2> QED BY <2>3 DEF h
<1>2. wrong \subseteq FiniteSubsetsOf(S)
  <2>1. \A s \in SUBSET S : IsFiniteSet(s)
      BY FS_Subset
  <2> QED BY <2>1 DEF FiniteSubsetsOf
<1>3. IsWellFoundedOn(StrictSubsetOrdering(S), FiniteSubsetsOf(S))
    BY FS_StrictSubsetOrderingWellFounded
<1>4. PICK s \in wrong : \A t \in wrong : ~(<<t, s>> \in StrictSubsetOrdering(S))
  <2> HIDE DEF wrong
  <2> QED BY <1>2, <1>3, WFMin
<1>5. s # {}
  <2>1. Units(f, {}) = {}
      BY DEF Units
  <2>2. Cardinality({}) = 0
      BY FS_EmptySet
  <2> QED BY <1>1, <2>1, <2>2
<1> DEFINE t == s \ {First(s)}
<1>6. First(s) \in s
    BY <1>5 DEF First
<1>7. t \in SUBSET S /\ <<t, s>> \in StrictSubsetOrdering(S)
    BY <1>6 DEF StrictSubsetOrdering
<1>8. Iteration(f, S)[t] = Cardinality(Units(f, t))
    BY <1>4, <1>7
<1>9. Cardinality(Units(f, t \cup {First(s)})) = f[First(s)] + Cardinality(Units(f, t))
  <2>1. IsFiniteSet(t) /\ First(s) \notin t /\ \A y \in t \cup {First(s)} : f[y] \in Nat
      BY <1>6, FS_Subset
  <2> HIDE DEF t
  <2> QED BY <2>1, UnitsAdd
<1>10. s = t \cup {First(s)}
    BY <1>6
<1>11. Iteration(f, S)[s] = f[First(s)] + Iteration(f, S)[t]
    BY <1>1, <1>5
<1> HIDE DEF t
<1> QED BY <1>8, <1>9, <1>10, <1>11, <1>4

---------------------------------------------------------------------------
\* A sum of natural numbers over a finite set counts their units, in whatever order the
\* fold takes them.
THEOREM SumCounts ==
    ASSUME NEW f, NEW S, IsFiniteSet(S), \A x \in S : f[x] \in Nat
    PROVE  SumFunctionOnSet(f, S) = Cardinality(Units(f, S))
<1>1. S \in SUBSET S
    OBVIOUS
<1> QED BY <1>1, IterationCounts, SumIsIteration

\* Nothing adds up to zero.
LEMMA SumEmpty ==
    ASSUME NEW f
    PROVE  SumFunctionOnSet(f, {}) = 0
<1>1. Units(f, {}) = {}
    BY DEF Units
<1>2. IsFiniteSet({}) /\ Cardinality({}) = 0
    BY FS_EmptySet
<1>3. SumFunctionOnSet(f, {}) = Cardinality(Units(f, {}))
    BY <1>2, SumCounts
<1> QED BY <1>1, <1>2, <1>3

\* Nor do zeros, however many.
LEMMA SumZero ==
    ASSUME NEW f, NEW S, IsFiniteSet(S), \A x \in S : f[x] = 0
    PROVE  SumFunctionOnSet(f, S) = 0
<1>1. Units(f, S) = {}
    BY DEF Units, UnitsOf
<1>2. SumFunctionOnSet(f, S) = Cardinality(Units(f, S))
    BY SumCounts
<1> QED BY <1>1, <1>2, FS_EmptySet

\* A sum of natural numbers is one.
LEMMA SumType ==
    ASSUME NEW f, NEW S, IsFiniteSet(S), \A x \in S : f[x] \in Nat
    PROVE  SumFunctionOnSet(f, S) \in Nat
BY SumCounts, UnitsFinite

\* It depends on the summands only.
LEMMA SumSame ==
    ASSUME NEW f, NEW g, NEW S, IsFiniteSet(S), \A x \in S : f[x] \in Nat /\ g[x] = f[x]
    PROVE  SumFunctionOnSet(g, S) = SumFunctionOnSet(f, S)
<1>1. Units(g, S) = Units(f, S)
    BY DEF Units, UnitsOf
<1> QED BY <1>1, SumCounts

\* An element that was not in the set adds its summand.
LEMMA SumAdd ==
    ASSUME NEW f, NEW S, IsFiniteSet(S), NEW x, x \notin S, \A y \in S \cup {x} : f[y] \in Nat
    PROVE  SumFunctionOnSet(f, S \cup {x}) = SumFunctionOnSet(f, S) + f[x]
<1>1. IsFiniteSet(S \cup {x})
    BY FS_AddElement
<1>2. SumFunctionOnSet(f, S \cup {x}) = Cardinality(Units(f, S \cup {x}))
    BY <1>1, SumCounts
<1>3. SumFunctionOnSet(f, S) = Cardinality(Units(f, S))
    BY SumCounts
<1>4. Cardinality(Units(f, S)) \in Nat /\ f[x] \in Nat
    BY UnitsFinite
<1>5. Cardinality(Units(f, S \cup {x})) = f[x] + Cardinality(Units(f, S))
    BY UnitsAdd
<1> QED BY <1>2, <1>3, <1>4, <1>5

\* An element that was in it takes its summand away.
LEMMA SumRemove ==
    ASSUME NEW f, NEW S, IsFiniteSet(S), NEW x \in S, \A y \in S : f[y] \in Nat
    PROVE  SumFunctionOnSet(f, S) = SumFunctionOnSet(f, S \ {x}) + f[x]
<1> DEFINE T == S \ {x}
<1>1. IsFiniteSet(T) /\ x \notin T /\ S = T \cup {x}
    BY FS_RemoveElement
<1> HIDE DEF T
<1>2. SumFunctionOnSet(f, T \cup {x}) = SumFunctionOnSet(f, T) + f[x]
    BY <1>1, SumAdd
<1> QED BY <1>1, <1>2 DEF T

\* A summand that is replaced changes the sum by the difference.
LEMMA SumUpdate ==
    ASSUME NEW f, NEW g, NEW S, IsFiniteSet(S), NEW x \in S,
           \A y \in S : f[y] \in Nat /\ g[y] \in Nat,
           \A y \in S \ {x} : g[y] = f[y]
    PROVE  SumFunctionOnSet(g, S) - g[x] = SumFunctionOnSet(f, S) - f[x]
<1> DEFINE T == S \ {x}
<1>1. IsFiniteSet(T) /\ \A y \in T : f[y] \in Nat /\ g[y] = f[y]
    BY FS_RemoveElement
<1> HIDE DEF T
<1>2. SumFunctionOnSet(g, T) = SumFunctionOnSet(f, T) /\ SumFunctionOnSet(f, T) \in Nat
    BY <1>1, SumSame, SumType
<1>3. SumFunctionOnSet(g, S) = SumFunctionOnSet(g, T) + g[x]
    BY SumRemove DEF T
<1>4. SumFunctionOnSet(f, S) = SumFunctionOnSet(f, T) + f[x]
    BY SumRemove DEF T
<1> QED BY <1>2, <1>3, <1>4

\* A summand is no more than the sum.
LEMMA SumBounds ==
    ASSUME NEW f, NEW S, IsFiniteSet(S), NEW x \in S, \A y \in S : f[y] \in Nat
    PROVE  f[x] <= SumFunctionOnSet(f, S)
<1>1. SumFunctionOnSet(f, S \ {x}) \in Nat
    BY SumType, FS_RemoveElement
<1>2. SumFunctionOnSet(f, S) = SumFunctionOnSet(f, S \ {x}) + f[x]
    BY SumRemove
<1> QED BY <1>1, <1>2

---------------------------------------------------------------------------
\* The rows are numbered, so the first free one is a free one.
LEMMA FirstIsFree ==
    ASSUME NEW n \in Nat, NEW S \in SUBSET (1 .. n), S # {}
    PROVE  Min(S) \in S
<1> DEFINE T == {1 .. x : x \in S}
           R == StrictSubsetOrdering(1 .. n)
<1>1. \A x \in S : x \in Nat /\ x \in 1 .. n /\ 1 .. x \subseteq 1 .. n
    OBVIOUS
<1>2. T \subseteq FiniteSubsetsOf(1 .. n) /\ T # {}
  <2>1. \A x \in S : IsFiniteSet(1 .. x)
      BY <1>1, FS_Interval
  <2>2. T # {} /\ T \subseteq SUBSET (1 .. n)
      BY <1>1
  <2>3. \A t \in T : IsFiniteSet(t)
      BY <2>1
  <2> HIDE DEF T
  <2> QED BY <2>2, <2>3 DEF FiniteSubsetsOf
<1>3. IsWellFoundedOn(R, FiniteSubsetsOf(1 .. n))
    BY FS_Interval, FS_StrictSubsetOrderingWellFounded
<1>4. \A x, y \in S : y < x => <<1 .. y, 1 .. x>> \in R
    BY <1>1 DEF StrictSubsetOrdering
<1> HIDE DEF R
<1>5. \E t \in T : \A u \in T : ~(<<u, t>> \in R)
  <2> HIDE DEF T
  <2> QED BY <1>2, <1>3, WFMin
<1>6. \E x \in S : \A y \in S : x =< y
  <2>1. PICK x \in S : \A u \in T : ~(<<u, 1 .. x>> \in R)
      BY <1>5
  <2>2. \A y \in S : ~(y < x)
      BY <1>4, <2>1
  <2> QED BY <1>1, <2>2
<1> QED BY <1>6 DEF Min
===========================================================================
