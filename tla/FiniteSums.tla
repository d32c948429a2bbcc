----------------------------- MODULE FiniteSums ------------------------------
(***************************************************************************)
(* What the sums over finite sets obey, with which the modules add up the  *)
(* shards and slots of malloc_hole_hook.c: SumFunctionOnSet(f, S) of the   *)
(* module Functions, for a function f with integer values.                 *)
(*                                                                         *)
(* The sum is defined by recursion over the subsets of S; the proofs are   *)
(* by induction in the form of a minimal counterexample.                   *)
(***************************************************************************)
EXTENDS Integers, Functions, FiniteSetTheorems, TLAPS

\* A set of natural numbers has a least one.
LEMMA LeastNat ==
  ASSUME NEW T \in SUBSET Nat, T # {}
  PROVE  \E n \in T : \A m \in T : n <= m
  <1> DEFINE R == OpToRel(<, Nat)
  <1>1. IsWellFoundedOn(R, Nat)
    BY NatLessThanWellFounded
  <1>2. R = { ss \in Nat \X Nat : ss[1] < ss[2] }
    BY Zenon DEF OpToRel
  <1> HIDE DEF R
  <1>3. PICK n \in T : \A m \in T : <<m, n>> \notin R
    BY <1>1, WFMin
  <1>4. ASSUME NEW m \in T PROVE n <= m
    <2>1. <<m, n>> \in Nat \X Nat /\ n \in Nat /\ m \in Nat
      OBVIOUS
    <2>2. m < n => <<m, n>> \in R
      BY <1>2, <2>1
    <2>3. QED
      BY <1>3, <2>1, <2>2
  <1>5. QED
    BY <1>4

\* A set of subsets of a finite set has one without any of them below it.
LEMMA MinimalSubset ==
  ASSUME NEW S, IsFiniteSet(S), NEW T \in SUBSET (SUBSET S), T # {}
  PROVE  \E m \in T : \A s \in T : s \subseteq m => s = m
  <1> DEFINE R == StrictSubsetOrdering(S)
  <1>1. IsWellFoundedOn(R, SUBSET S)
    BY FS_StrictSubsetOrderingWellFounded, FS_FiniteSubsetsOfFinite
  <1> HIDE DEF R
  <1>2. PICK m \in T : \A s \in T : <<s, m>> \notin R
    BY <1>1, WFMin
  <1>3. ASSUME NEW s \in T, s \subseteq m, s # m PROVE <<s, m>> \in R
    BY <1>3 DEF R, StrictSubsetOrdering
  <1>4. \A s \in T : s \subseteq m => s = m
    BY <1>2, <1>3, Zenon
  <1>5. QED
    BY <1>4, Zenon

------------------------------------------------------------------------------
(* The recursion *)

Chosen(s) == CHOOSE x \in s : TRUE

Rest(s) == s \ {Chosen(s)}

Addends(f, g, s) == IF s = {} THEN 0 ELSE f[Chosen(s)] + g[Rest(s)]

\* g adds up the subsets of S that have at most n elements.
AddsUp(f, g, S, n) ==
  /\ g \in [SUBSET S -> Int]
  /\ \A s \in SUBSET S : Cardinality(s) <= n => g[s] = Addends(f, g, s)

Sums(f, S) == CHOOSE g : g = [s \in SUBSET S |-> Addends(f, g, s)]

\* The sum of the library is this recursion.
LEMMA SumIsRecursive ==
  ASSUME NEW f, NEW S
  PROVE  SumFunctionOnSet(f, S) = Sums(f, S)[S]
  BY Zenon DEF SumFunctionOnSet, FoldFunctionOnSet, MapThenFoldSet, Sums, Addends, Rest, Chosen

\* An element is chosen.
LEMMA ChosenIn == \A s : s # {} => Chosen(s) \in s
  BY Zenon DEF Chosen

\* A part of a finite set has a size, and is one element away from a smaller
\* one.
LEMMA Parts ==
  ASSUME NEW S, IsFiniteSet(S), NEW s \in SUBSET S
  PROVE  /\ IsFiniteSet(s) /\ Cardinality(s) \in Nat /\ (Cardinality(s) = 0 <=> s = {})
         /\ s # {} => /\ Chosen(s) \in S /\ Rest(s) \in SUBSET S /\ Rest(s) # s
                      /\ Rest(s) \subseteq s
                      /\ Cardinality(Rest(s)) = Cardinality(s) - 1
  <1>1. IsFiniteSet(s)
    BY FS_Subset
  <1>2. Cardinality(s) \in Nat /\ (Cardinality(s) = 0 <=> s = {})
    BY <1>1, FS_CardinalityType, FS_EmptySet
  <1>3. s # {} => Chosen(s) \in s
    BY ChosenIn
  <1>4. QED
    BY <1>1, <1>2, <1>3, FS_RemoveElement DEF Rest

\* The recursion has a solution, built up by the number of elements.
LEMMA SolutionExists ==
  ASSUME NEW S, IsFiniteSet(S), NEW f, \A x \in S : f[x] \in Int
  PROVE  \A n \in Nat : \E g : AddsUp(f, g, S, n)
  <1> DEFINE Bad == { n \in Nat : ~\E g : AddsUp(f, g, S, n) }
  <1> SUFFICES ASSUME Bad # {} PROVE FALSE
    OBVIOUS
  <1>1. PICK n \in Bad : \A m \in Bad : n <= m
    <2>1. Bad \in SUBSET Nat
      OBVIOUS
    <2> HIDE DEF Bad
    <2>2. QED
      BY <2>1, LeastNat
  <1>2. n # 0
    <2>1. AddsUp(f, [s \in SUBSET S |-> 0], S, 0)
      <3>1. ASSUME NEW s \in SUBSET S, Cardinality(s) <= 0
            PROVE  s = {}
        <4>1. Cardinality(s) \in Nat /\ (Cardinality(s) = 0 <=> s = {})
          BY Parts
        <4>2. QED
          BY <3>1, <4>1
      <3>2. QED
        BY <3>1 DEF AddsUp, Addends
    <2>2. QED
      BY <2>1
  <1>3. n \in Nat /\ n - 1 \in Nat /\ n - 1 \notin Bad
    BY <1>1, <1>2
  <1>4. PICK g : AddsUp(f, g, S, n - 1)
    BY <1>3
  <1> DEFINE h == [s \in SUBSET S |-> IF Cardinality(s) = n THEN Addends(f, g, s) ELSE g[s]]
  <1>5. AddsUp(f, h, S, n)
    <2>1. ASSUME NEW s \in SUBSET S
          PROVE  Addends(f, g, s) \in Int
      <3>1. s # {} => Chosen(s) \in S /\ Rest(s) \in SUBSET S
        BY Parts
      <3>2. QED
        BY <1>4, <3>1 DEF AddsUp, Addends
    <2>2. h \in [SUBSET S -> Int]
      BY <1>4, <2>1 DEF AddsUp
    <2>3. ASSUME NEW s \in SUBSET S, Cardinality(s) <= n
          PROVE  h[s] = Addends(f, h, s)
      <3>1. /\ Cardinality(s) \in Nat
            /\ s # {} => Rest(s) \in SUBSET S /\ Cardinality(Rest(s)) = Cardinality(s) - 1
        BY Parts
      <3>2. h[s] = Addends(f, g, s)
        <4>1. CASE Cardinality(s) = n
          BY <4>1
        <4>2. CASE Cardinality(s) # n
          <5>1. Cardinality(s) <= n - 1
            BY <1>3, <2>3, <3>1, <4>2
          <5>2. QED
            BY <1>4, <4>2, <5>1 DEF AddsUp
        <4>3. QED
          BY <4>1, <4>2
      <3>3. ASSUME s # {}
            PROVE  h[Rest(s)] = g[Rest(s)]
        <4>1. Rest(s) \in SUBSET S /\ Cardinality(Rest(s)) # n
          BY <1>3, <2>3, <3>1, <3>3
        <4>2. QED
          BY <4>1
      <3>4. QED
        BY <3>2, <3>3 DEF Addends
    <2>4. QED
      BY <2>2, <2>3 DEF AddsUp
  <1>6. QED
    BY <1>3, <1>5

\* So the sums of the subsets of S are integers that obey the recursion.
LEMMA SumsRecur ==
  ASSUME NEW S, IsFiniteSet(S), NEW f, \A x \in S : f[x] \in Int
  PROVE  /\ Sums(f, S) \in [SUBSET S -> Int]
         /\ \A s \in SUBSET S : Sums(f, S)[s] = Addends(f, Sums(f, S), s)
  <1>1. PICK g : AddsUp(f, g, S, Cardinality(S))
    BY SolutionExists, FS_CardinalityType
  <1>2. \A s \in SUBSET S : Cardinality(s) <= Cardinality(S)
    BY FS_Subset
  <1>3. g = [s \in SUBSET S |-> Addends(f, g, s)]
    BY <1>1, <1>2 DEF AddsUp
  <1>4. Sums(f, S) = [s \in SUBSET S |-> Addends(f, Sums(f, S), s)]
    BY <1>3, Zenon DEF Sums
  <1>5. ASSUME NEW s \in SUBSET S
        PROVE  Sums(f, S)[s] \in Int
    <2> DEFINE Bad == { r \in SUBSET S : Sums(f, S)[r] \notin Int }
    <2> SUFFICES ASSUME Bad # {} PROVE FALSE
      OBVIOUS
    <2>1. PICK m \in Bad : \A r \in Bad : r \subseteq m => r = m
      <3>1. Bad \in SUBSET (SUBSET S)
        OBVIOUS
      <3> HIDE DEF Bad
      <3>2. QED
        BY <3>1, MinimalSubset
    <2>2. Sums(f, S)[m] = Addends(f, Sums(f, S), m)
      BY <1>4
    <2>3. m # {}
      BY <2>2 DEF Addends
    <2>4. Rest(m) \in SUBSET S /\ Rest(m) # m /\ Rest(m) \subseteq m /\ Chosen(m) \in S
      BY <2>3, Parts
    <2>5. Sums(f, S)[Rest(m)] \in Int
      BY <2>1, <2>4
    <2>6. QED
      BY <2>2, <2>3, <2>4, <2>5 DEF Addends
  <1>6. QED
    BY <1>4, <1>5

\* The sum of a subset does not depend on the set the recursion starts from.
LEMMA SumsWithin ==
  ASSUME NEW S, IsFiniteSet(S), NEW T \in SUBSET S, NEW f, \A x \in S : f[x] \in Int
  PROVE  SumFunctionOnSet(f, T) = Sums(f, S)[T]
  <1>0. IsFiniteSet(T) /\ \A x \in T : f[x] \in Int
    BY FS_Subset
  <1> DEFINE Bad == { r \in SUBSET T : Sums(f, T)[r] # Sums(f, S)[r] }
  <1>1. SUFFICES ASSUME Bad # {} PROVE FALSE
    BY SumIsRecursive
  <1>2. PICK m \in Bad : \A r \in Bad : r \subseteq m => r = m
    <2>1. Bad \in SUBSET (SUBSET T)
      OBVIOUS
    <2> HIDE DEF Bad
    <2>2. QED
      BY <1>0, <1>1, <2>1, MinimalSubset
  <1>3. /\ Sums(f, T)[m] = Addends(f, Sums(f, T), m)
        /\ Sums(f, S)[m] = Addends(f, Sums(f, S), m)
    <2>1. m \in SUBSET T /\ m \in SUBSET S
      OBVIOUS
    <2>2. QED
      BY <1>0, <2>1, SumsRecur
  <1>4. m # {}
    BY <1>3 DEF Addends
  <1>5. Rest(m) \in SUBSET T /\ Rest(m) # m /\ Rest(m) \subseteq m
    BY <1>0, <1>4, Parts
  <1>6. Sums(f, T)[Rest(m)] = Sums(f, S)[Rest(m)]
    BY <1>2, <1>5
  <1>7. QED
    BY <1>3, <1>4, <1>6 DEF Addends

------------------------------------------------------------------------------
(* The sums *)

\* A sum is an integer, ...
LEMMA SumType ==
  ASSUME NEW S, IsFiniteSet(S), NEW f, \A x \in S : f[x] \in Int
  PROVE  SumFunctionOnSet(f, S) \in Int
  BY SumIsRecursive, SumsRecur

\* ... zero when there is nothing to add, ...
LEMMA SumEmpty ==
  ASSUME NEW f
  PROVE  SumFunctionOnSet(f, {}) = 0
  <1>1. IsFiniteSet({})
    BY FS_EmptySet
  <1>2. Sums(f, {})[{}] = Addends(f, Sums(f, {}), {})
    BY <1>1, SumsRecur
  <1>3. QED
    BY <1>2, SumIsRecursive DEF Addends

\* ... and an element and the sum of the others, whichever element it is.
LEMMA SumRemove ==
  ASSUME NEW S, IsFiniteSet(S), NEW f, \A x \in S : f[x] \in Int, NEW x \in S
  PROVE  SumFunctionOnSet(f, S) = f[x] + SumFunctionOnSet(f, S \ {x})
  <1> DEFINE g == Sums(f, S)
             Wrong(r) == \E y \in r : g[r] # f[y] + g[r \ {y}]
             Bad == { r \in SUBSET S : Wrong(r) }
  <1>0. /\ g \in [SUBSET S -> Int]
        /\ \A s \in SUBSET S : g[s] = Addends(f, g, s)
    BY SumsRecur
  <1>1. Bad = {}
    <2> SUFFICES ASSUME Bad # {} PROVE FALSE
      OBVIOUS
    <2>1. PICK m \in Bad : \A r \in Bad : r \subseteq m => r = m
      <3>1. Bad \in SUBSET (SUBSET S)
        OBVIOUS
      <3> HIDE DEF Bad
      <3>2. QED
        BY <3>1, MinimalSubset
    <2>2. PICK y \in m : g[m] # f[y] + g[m \ {y}]
      OBVIOUS
    <2>3. m \in SUBSET S /\ m # {}
      BY <2>2
    <2> DEFINE c == Chosen(m)
    <2>4. c \in m /\ Rest(m) = m \ {c}
      BY <2>3, ChosenIn DEF Rest
    <2>5. g[m] = f[c] + g[m \ {c}]
      BY <1>0, <2>3, <2>4 DEF Addends
    <2> HIDE DEF c, g
    <2>6. c # y
      BY <2>2, <2>5
    <2> DEFINE mc == m \ {c}
               my == m \ {y}
               mcy == m \ {c, y}
    <2>7. /\ mc \in SUBSET S /\ my \in SUBSET S /\ mcy \in SUBSET S
          /\ mc \subseteq m /\ mc # m /\ my \subseteq m /\ my # m
          /\ y \in mc /\ c \in my /\ mc \ {y} = mcy /\ my \ {c} = mcy
      BY <2>2, <2>3, <2>4, <2>6
    <2>8. mc \notin Bad /\ my \notin Bad
      BY <2>1, <2>7
    <2>9. g[mc] = f[y] + g[mcy] /\ g[my] = f[c] + g[mcy]
      BY <2>7, <2>8
    <2>10. g[mcy] \in Int /\ f[y] \in Int /\ f[c] \in Int
      BY <1>0, <2>2, <2>3, <2>4, <2>7
    <2>11. QED
      <3>1. g[m] = f[c] + g[mc] /\ g[m] # f[y] + g[my]
        BY <2>2, <2>5
      <3> HIDE DEF mc, my, mcy
      <3>2. QED
        BY <2>9, <2>10, <3>1
  <1>2. g[S] = f[x] + g[S \ {x}]
    BY <1>1
  <1>3. S \ {x} \in SUBSET S
    OBVIOUS
  <1>4. SumFunctionOnSet(f, S \ {x}) = g[S \ {x}] /\ SumFunctionOnSet(f, S) = g[S]
    BY <1>3, SumsWithin
  <1>5. QED
    BY <1>2, <1>4

\* A sum over a set with one element more.
LEMMA SumInsert ==
  ASSUME NEW S, IsFiniteSet(S), NEW x, x \notin S, NEW f, \A y \in S \cup {x} : f[y] \in Int
  PROVE  SumFunctionOnSet(f, S \cup {x}) = f[x] + SumFunctionOnSet(f, S)
  <1>1. IsFiniteSet(S \cup {x}) /\ (S \cup {x}) \ {x} = S /\ x \in S \cup {x}
    BY FS_AddElement
  <1> DEFINE T == S \cup {x}
  <1>2. SumFunctionOnSet(f, T) = f[x] + SumFunctionOnSet(f, T \ {x})
    <2>1. IsFiniteSet(T) /\ x \in T /\ \A y \in T : f[y] \in Int
      BY <1>1
    <2> HIDE DEF T
    <2>2. QED
      BY <2>1, SumRemove
  <1>3. QED
    BY <1>1, <1>2

\* Greater addends have a greater sum.
LEMMA SumMonotone ==
  ASSUME NEW S, IsFiniteSet(S), NEW f, NEW g,
         \A x \in S : f[x] \in Int /\ g[x] \in Int /\ f[x] <= g[x]
  PROVE  SumFunctionOnSet(f, S) <= SumFunctionOnSet(g, S)
  <1> DEFINE Bad == { r \in SUBSET S : ~(Sums(f, S)[r] <= Sums(g, S)[r]) }
  <1>0. /\ Sums(f, S) \in [SUBSET S -> Int] /\ Sums(g, S) \in [SUBSET S -> Int]
        /\ \A s \in SUBSET S : /\ Sums(f, S)[s] = Addends(f, Sums(f, S), s)
                               /\ Sums(g, S)[s] = Addends(g, Sums(g, S), s)
    BY SumsRecur
  <1>1. SUFFICES ASSUME Bad # {} PROVE FALSE
    BY SumIsRecursive
  <1>2. PICK m \in Bad : \A r \in Bad : r \subseteq m => r = m
    <2>1. Bad \in SUBSET (SUBSET S)
      OBVIOUS
    <2> HIDE DEF Bad
    <2>2. QED
      BY <1>1, <2>1, MinimalSubset
  <1>3. m \in SUBSET S /\ ~(Sums(f, S)[m] <= Sums(g, S)[m])
    OBVIOUS
  <1>4. /\ Sums(f, S)[m] = Addends(f, Sums(f, S), m)
        /\ Sums(g, S)[m] = Addends(g, Sums(g, S), m)
    BY <1>0, <1>3
  <1>5. m # {}
    BY <1>3, <1>4 DEF Addends
  <1>6. Chosen(m) \in S /\ Rest(m) \in SUBSET S /\ Rest(m) # m /\ Rest(m) \subseteq m
    BY <1>3, <1>5, Parts
  <1>7. Sums(f, S)[Rest(m)] <= Sums(g, S)[Rest(m)]
    BY <1>2, <1>6
  <1>8. /\ Sums(f, S)[Rest(m)] \in Int /\ Sums(g, S)[Rest(m)] \in Int
        /\ f[Chosen(m)] \in Int /\ g[Chosen(m)] \in Int /\ f[Chosen(m)] <= g[Chosen(m)]
    BY <1>0, <1>6
  <1>9. QED
    BY <1>3, <1>4, <1>5, <1>7, <1>8 DEF Addends

\* Equal addends have equal sums.
LEMMA SumSame ==
  ASSUME NEW S, IsFiniteSet(S), NEW f, NEW g, \A x \in S : f[x] \in Int /\ f[x] = g[x]
  PROVE  SumFunctionOnSet(f, S) = SumFunctionOnSet(g, S)
  <1>1. /\ SumFunctionOnSet(f, S) \in Int /\ SumFunctionOnSet(g, S) \in Int
        /\ SumFunctionOnSet(f, S) <= SumFunctionOnSet(g, S)
        /\ SumFunctionOnSet(g, S) <= SumFunctionOnSet(f, S)
    <2>1. \A x \in S : f[x] \in Int /\ g[x] \in Int /\ f[x] <= g[x] /\ g[x] <= f[x]
      OBVIOUS
    <2>2. QED
      BY <2>1, SumType, SumMonotone
  <1>2. QED
    BY <1>1

\* One addend changes.
LEMMA SumChange ==
  ASSUME NEW S, IsFiniteSet(S), NEW f, NEW g, NEW x \in S,
         \A y \in S : f[y] \in Int /\ g[y] \in Int, \A y \in S \ {x} : g[y] = f[y]
  PROVE  SumFunctionOnSet(g, S) = SumFunctionOnSet(f, S) + (g[x] - f[x])
  <1> DEFINE T == S \ {x}
  <1>1. IsFiniteSet(T) /\ \A y \in T : f[y] \in Int /\ f[y] = g[y]
    BY FS_RemoveElement
  <1>2. /\ SumFunctionOnSet(f, S) = f[x] + SumFunctionOnSet(f, T)
        /\ SumFunctionOnSet(g, S) = g[x] + SumFunctionOnSet(g, T)
    BY SumRemove
  <1> HIDE DEF T
  <1>3. SumFunctionOnSet(f, T) = SumFunctionOnSet(g, T) /\ SumFunctionOnSet(f, T) \in Int
    BY <1>1, SumSame, SumType
  <1>4. QED
    BY <1>2, <1>3

\* Natural numbers have a natural sum.
LEMMA SumNatural ==
  ASSUME NEW S, IsFiniteSet(S), NEW f, \A x \in S : f[x] \in Nat
  PROVE  SumFunctionOnSet(f, S) \in Nat
  <1> DEFINE Bad == { r \in SUBSET S : Sums(f, S)[r] \notin Nat }
  <1>0. /\ Sums(f, S) \in [SUBSET S -> Int]
        /\ \A s \in SUBSET S : Sums(f, S)[s] = Addends(f, Sums(f, S), s)
    <2>1. \A x \in S : f[x] \in Int
      OBVIOUS
    <2>2. QED
      BY <2>1, SumsRecur
  <1>1. SUFFICES ASSUME Bad # {} PROVE FALSE
    BY SumIsRecursive
  <1>2. PICK m \in Bad : \A r \in Bad : r \subseteq m => r = m
    <2>1. Bad \in SUBSET (SUBSET S)
      OBVIOUS
    <2> HIDE DEF Bad
    <2>2. QED
      BY <1>1, <2>1, MinimalSubset
  <1>3. m \in SUBSET S /\ Sums(f, S)[m] \notin Nat
    OBVIOUS
  <1>4. Sums(f, S)[m] = Addends(f, Sums(f, S), m)
    BY <1>0, <1>3
  <1>5. m # {}
    BY <1>3, <1>4 DEF Addends
  <1>6. Chosen(m) \in S /\ Rest(m) \in SUBSET S /\ Rest(m) # m /\ Rest(m) \subseteq m
    BY <1>3, <1>5, Parts
  <1>7. Sums(f, S)[Rest(m)] \in Nat /\ f[Chosen(m)] \in Nat
    BY <1>2, <1>6
  <1>8. QED
    BY <1>3, <1>4, <1>5, <1>7 DEF Addends
==============================================================================
