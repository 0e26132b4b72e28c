---------------------------- MODULE SumTheorems ----------------------------
(***************************************************************************)
(* Sums over finite sets: SumFunctionOnSet of the community modules, which *)
(* Node, Chain and Difficulty add up amounts, fees and times with.  The    *)
(* facts the proofs about those modules need, for every function into the  *)
(* integers, and what they need to know of division.                       *)
(***************************************************************************)
EXTENDS Functions, Integers, FiniteSetTheorems, WellFoundedInduction, TLAPS

(* A set of naturals with an element has a least one.                       *)
LEMMA LeastNatural ==
    ASSUME NEW T \in SUBSET Nat, T # {}
    PROVE  \E x \in T : \A y \in T : x <= y
<1> DEFINE R == OpToRel(<, Nat)
<1>1. IsWellFoundedOn(R, Nat)
  BY NatLessThanWellFounded
<1>2. \A y, z \in Nat : y < z => <<y, z>> \in R
  BY DEF OpToRel
<1> HIDE DEF R
<1>3. PICK x \in T : \A y \in T : ~ (<<y, x>> \in R)
  BY <1>1, WFMin
<1>4. ASSUME NEW y \in T PROVE x <= y
  <2>1. x \in Nat /\ y \in Nat
    OBVIOUS
  <2>2. y < x => <<y, x>> \in R
    BY <1>2, <2>1
  <2>3. <<y, x>> \notin R
    BY <1>3
  <2>4. ~ (y < x)
    BY <2>2, <2>3, Zenon
  <2>5. QED BY <2>1, <2>4
<1>5. QED BY <1>4

\* The element a sum takes from a set first.
FirstOf(s) == CHOOSE x \in s : TRUE

\* One step of the recursion by which a sum is defined.
OneStep(f, g, s) == IF s = {} THEN 0 ELSE f[FirstOf(s)] + g[s \ {FirstOf(s)}]

LEMMA SumByRecursion ==
    ASSUME NEW f, NEW S
    PROVE  SumFunctionOnSet(f, S) = (CHOOSE g : g = [ s \in SUBSET S |-> OneStep(f, g, s) ])[S]
BY DEF SumFunctionOnSet, FoldFunctionOnSet, MapThenFoldSet, OneStep, FirstOf

LEMMA FirstIn ==
    ASSUME NEW s, s # {}
    PROVE  FirstOf(s) \in s
BY DEF FirstOf

(* Taking the first element leaves a smaller set.                           *)
LEMMA WithoutFirst ==
    ASSUME NEW s, IsFiniteSet(s), s # {}
    PROVE  /\ IsFiniteSet(s \ {FirstOf(s)}) /\ Cardinality(s) \in Nat \ {0}
           /\ Cardinality(s \ {FirstOf(s)}) = Cardinality(s) - 1
<1>1. FirstOf(s) \in s
  BY FirstIn
<1>2. IsFiniteSet(s \ {FirstOf(s)}) /\ Cardinality(s \ {FirstOf(s)}) = Cardinality(s) - 1
  BY <1>1, FS_RemoveElement
<1>3. Cardinality(s) \in Nat /\ Cardinality(s) # 0
  BY FS_CardinalityType, FS_EmptySet
<1>4. QED BY <1>2, <1>3

\* The subsets of S with at most k elements.
SmallSubsets(S, k) == { s \in SUBSET S : Cardinality(s) <= k }

(* The recursion defines a sum of every set of few elements, hence of all.  *)
LEMMA SumUpTo ==
    ASSUME NEW f, NEW S, IsFiniteSet(S), NEW n \in Nat
    PROVE  \E g : \A s \in SmallSubsets(S, n) : g[s] = OneStep(f, g, s)
<1> DEFINE Defined(k) == \E g : g = [ s \in SmallSubsets(S, k) |-> OneStep(f, g, s) ]
           Bad == { k \in Nat : ~ Defined(k) }
<1>1. \A s \in SUBSET S : IsFiniteSet(s) /\ Cardinality(s) \in Nat
  BY FS_Subset, FS_CardinalityType
<1>2. Defined(0)
  <2> DEFINE g == [ s \in SmallSubsets(S, 0) |-> 0 ]
  <2>1. \A s \in SmallSubsets(S, 0) : s = {}
    BY <1>1, FS_EmptySet DEF SmallSubsets
  <2>2. \A s \in SmallSubsets(S, 0) : OneStep(f, g, s) = 0
    BY <2>1 DEF OneStep
  <2>3. g = [ s \in SmallSubsets(S, 0) |-> OneStep(f, g, s) ]
    BY <2>2
  <2>4. QED BY <2>3
<1>3. ASSUME NEW k \in Nat, Defined(k) PROVE Defined(k + 1)
  <2>1. PICK g : g = [ s \in SmallSubsets(S, k) |-> OneStep(f, g, s) ]
    BY <1>3
  <2> DEFINE h == [ s \in SmallSubsets(S, k + 1) |-> OneStep(f, g, s) ]
  <2>2. \A s \in SmallSubsets(S, k) : s \in SmallSubsets(S, k + 1) /\ h[s] = g[s]
    BY <1>1, <2>1 DEF SmallSubsets
  <2>3. ASSUME NEW s \in SmallSubsets(S, k + 1), s # {} PROVE s \ {FirstOf(s)} \in SmallSubsets(S, k)
    BY <1>1, <2>3, WithoutFirst DEF SmallSubsets
  <2> HIDE DEF h
  <2>4. \A s \in SmallSubsets(S, k + 1) : OneStep(f, g, s) = OneStep(f, h, s)
    BY <2>2, <2>3 DEF OneStep
  <2>5. h = [ s \in SmallSubsets(S, k + 1) |-> OneStep(f, h, s) ]
    BY <2>4 DEF h
  <2>6. QED BY <2>5
<1> HIDE DEF Defined
<1>4. Bad = {}
  <2> SUFFICES ASSUME Bad # {} PROVE FALSE
    OBVIOUS
  <2>1. PICK k \in Bad : \A j \in Bad : k <= j
    BY LeastNatural
  <2>2. k \in Nat /\ k # 0 /\ ~ Defined(k)
    BY <1>2, <2>1
  <2>3. k - 1 \in Nat /\ k - 1 \notin Bad
    BY <2>1, <2>2
  <2>4. Defined(k - 1 + 1)
    BY <1>3, <2>3
  <2>5. QED BY <2>2, <2>4
<1>5. Defined(n)
  BY <1>4
<1>6. PICK g : g = [ s \in SmallSubsets(S, n) |-> OneStep(f, g, s) ]
  BY <1>5 DEF Defined
<1>7. \A s \in SmallSubsets(S, n) : g[s] = OneStep(f, g, s)
  BY <1>6
<1>8. QED BY <1>7

\* A function of sets that obeys the recursion for every subset of S.
AddsUp(f, g, S) == \A s \in SUBSET S : g[s] = OneStep(f, g, s)

(* Two functions that obey the recursion agree where both are defined.      *)
LEMMA SumsAgree ==
    ASSUME NEW f, NEW S, NEW T, IsFiniteSet(S), IsFiniteSet(T),
           NEW g, AddsUp(f, g, S), NEW h, AddsUp(f, h, T),
           NEW u \in SUBSET (S \cap T)
    PROVE  g[u] = h[u]
<1> DEFINE Differ == { s \in SUBSET (S \cap T) : g[s] # h[s] }
           Sizes == { Cardinality(s) : s \in Differ }
<1>1. \A s \in SUBSET (S \cap T) : IsFiniteSet(s) /\ Cardinality(s) \in Nat
  BY FS_Subset, FS_CardinalityType
<1> SUFFICES ASSUME Differ # {} PROVE FALSE
  OBVIOUS
<1>2. Sizes \in SUBSET Nat /\ Sizes # {}
  BY <1>1
<1>3. PICK n \in Sizes : \A m \in Sizes : n <= m
  BY <1>2, LeastNatural
<1>4. PICK s \in Differ : n = Cardinality(s)
  BY <1>3
<1>5. s \in SUBSET S /\ s \in SUBSET T /\ g[s] = OneStep(f, g, s) /\ h[s] = OneStep(f, h, s)
  BY <1>4 DEF AddsUp
<1>6. s # {}
  BY <1>4, <1>5 DEF OneStep
<1>7. s \ {FirstOf(s)} \in SUBSET (S \cap T) /\ s \ {FirstOf(s)} \notin Differ
  <2>1. Cardinality(s \ {FirstOf(s)}) = n - 1 /\ n \in Nat
    BY <1>1, <1>4, <1>6, WithoutFirst
  <2>2. n - 1 \notin Sizes
    <3> HIDE DEF Sizes
    <3>1. QED BY <1>2, <1>3, <2>1
  <2>3. QED BY <1>4, <2>1, <2>2
<1>8. QED BY <1>4, <1>5, <1>6, <1>7 DEF OneStep

(* The sum of no elements is 0, and any other sum is that of its first      *)
(* element and the rest.                                                    *)
LEMMA SumUnfolds ==
    ASSUME NEW f, NEW S, IsFiniteSet(S)
    PROVE  /\ SumFunctionOnSet(f, {}) = 0
           /\ S # {} => SumFunctionOnSet(f, S)
                           = f[FirstOf(S)] + SumFunctionOnSet(f, S \ {FirstOf(S)})
<1> DEFINE Iter(s) == CHOOSE g : g = [ t \in SUBSET s |-> OneStep(f, g, t) ]
<1>1. ASSUME NEW s, IsFiniteSet(s)
      PROVE  Iter(s) = [ t \in SUBSET s |-> OneStep(f, Iter(s), t) ]
  <2>1. Cardinality(s) \in Nat /\ \A t \in SUBSET s : Cardinality(t) <= Cardinality(s)
    BY <1>1, FS_CardinalityType, FS_Subset
  <2>2. SmallSubsets(s, Cardinality(s)) = SUBSET s
    BY <2>1 DEF SmallSubsets
  <2>3. PICK g : \A t \in SmallSubsets(s, Cardinality(s)) : g[t] = OneStep(f, g, t)
    BY <1>1, <2>1, SumUpTo, Zenon
  <2> DEFINE h == [ t \in SUBSET s |-> g[t] ]
  <2>4. ASSUME NEW t \in SUBSET s PROVE OneStep(f, g, t) = OneStep(f, h, t)
    <3>1. t # {} => FirstOf(t) \in t /\ t \ {FirstOf(t)} \in SUBSET s
      BY FirstIn
    <3>2. QED BY <3>1 DEF OneStep
  <2>5. h = [ t \in SUBSET s |-> OneStep(f, h, t) ]
    BY <2>2, <2>3, <2>4
  <2>6. QED BY <2>5
<1>2. ASSUME NEW s, IsFiniteSet(s)
      PROVE  SumFunctionOnSet(f, s) = OneStep(f, Iter(s), s)
  <2>1. SumFunctionOnSet(f, s) = Iter(s)[s]
    BY SumByRecursion
  <2>2. Iter(s) = [ t \in SUBSET s |-> OneStep(f, Iter(s), t) ]
    BY <1>1, <1>2
  <2> HIDE DEF Iter
  <2>3. Iter(s)[s] = OneStep(f, Iter(s), s)
    BY <2>2
  <2>4. QED BY <2>1, <2>3
<1> HIDE DEF Iter
<1>3. SumFunctionOnSet(f, {}) = 0
  BY <1>2, FS_EmptySet DEF OneStep
<1>4. ASSUME S # {}
      PROVE  SumFunctionOnSet(f, S) = f[FirstOf(S)] + SumFunctionOnSet(f, S \ {FirstOf(S)})
  <2> DEFINE R == S \ {FirstOf(S)}
  <2>1. IsFiniteSet(R)
    BY <1>4, WithoutFirst
  <2>2. SumFunctionOnSet(f, S) = f[FirstOf(S)] + Iter(S)[R]
    BY <1>2, <1>4 DEF OneStep
  <2>3. Iter(S)[R] = Iter(R)[R]
    <3>1. R \in SUBSET (S \cap R)
      OBVIOUS
    <3>2. AddsUp(f, Iter(S), S) /\ AddsUp(f, Iter(R), R)
      BY <1>1, <2>1 DEF AddsUp
    <3> HIDE DEF R
    <3>3. \A g, h : AddsUp(f, g, S) /\ AddsUp(f, h, R) => g[R] = h[R]
      BY <2>1, <3>1, SumsAgree
    <3>4. QED BY <3>2, <3>3
  <2>4. Iter(R)[R] = SumFunctionOnSet(f, R)
    BY SumByRecursion DEF Iter
  <2>5. QED BY <2>2, <2>3, <2>4
<1>5. QED BY <1>3, <1>4

-----------------------------------------------------------------------------
(* Induction, with the set of what is proved in place of a predicate        *)

(* A set with 0 in it, and n + 1 with every n, holds all naturals.          *)
LEMMA NaturalInduction ==
    ASSUME NEW P, 0 \in P, \A n \in Nat : n \in P => n + 1 \in P
    PROVE  Nat \subseteq P
<1> SUFFICES ASSUME Nat \ P # {} PROVE FALSE
  OBVIOUS
<1>1. PICK n \in Nat \ P : \A m \in Nat \ P : n <= m
  BY LeastNatural
<1>2. n - 1 \in Nat /\ n - 1 \in P
  BY <1>1
<1>3. QED BY <1>1, <1>2

(* A set with every subset of S all of whose proper subsets it has holds    *)
(* all subsets of S.                                                        *)
LEMMA SubsetInduction ==
    ASSUME NEW S, IsFiniteSet(S), NEW P,
           \A s \in SUBSET S : (\A t \in SUBSET s : t # s => t \in P) => s \in P
    PROVE  SUBSET S \subseteq P
<1> DEFINE Sizes == { Cardinality(s) : s \in (SUBSET S) \ P }
<1>1. \A s \in SUBSET S : IsFiniteSet(s) /\ Cardinality(s) \in Nat
  BY FS_Subset, FS_CardinalityType
<1> SUFFICES ASSUME (SUBSET S) \ P # {} PROVE FALSE
  OBVIOUS
<1>2. PICK n \in Sizes : \A m \in Sizes : n <= m
  <2>1. Sizes \in SUBSET Nat /\ Sizes # {}
    BY <1>1
  <2> HIDE DEF Sizes
  <2>2. QED BY <2>1, LeastNatural
<1>3. PICK s \in (SUBSET S) \ P : n = Cardinality(s)
  BY <1>2
<1>4. ASSUME NEW t \in SUBSET s, t # s PROVE t \in P
  <2>1. Cardinality(t) < Cardinality(s)
    BY <1>1, <1>3, <1>4, FS_Subset
  <2>2. t \in SUBSET S /\ Cardinality(t) \in Nat /\ n \in Nat /\ Cardinality(t) < n
    BY <1>1, <1>3, <2>1
  <2>3. t \notin P => Cardinality(t) \in Sizes
    BY <2>2
  <2> HIDE DEF Sizes
  <2>4. QED BY <1>2, <2>2, <2>3
<1>5. QED BY <1>3, <1>4

-----------------------------------------------------------------------------
(* What a sum is worth                                                      *)

LEMMA SumOfNone ==
    \A f : SumFunctionOnSet(f, {}) = 0
BY SumUnfolds, FS_EmptySet

(* A sum of integers is an integer, and any of them may be taken first.     *)
LEMMA SumTakes ==
    ASSUME NEW S, IsFiniteSet(S), NEW f, \A x \in S : f[x] \in Int
    PROVE  /\ SumFunctionOnSet(f, S) \in Int
           /\ \A x \in S : SumFunctionOnSet(f, S) = f[x] + SumFunctionOnSet(f, S \ {x})
<1> DEFINE sum(s) == SumFunctionOnSet(f, s)
           Right(s) == sum(s) \in Int /\ \A x \in s : sum(s) = f[x] + sum(s \ {x})
           P == { s \in SUBSET S : Right(s) }
<1>1. ASSUME NEW s \in SUBSET S, \A t \in SUBSET s : t # s => t \in P
      PROVE  s \in P
  <2>1. IsFiniteSet(s)
    BY FS_Subset
  <2>2. CASE s = {}
    <3>1. sum(s) = 0
      BY <2>2, SumOfNone
    <3> HIDE DEF sum
    <3>2. QED BY <2>2, <3>1
  <2>3. CASE s # {}
    <3> DEFINE c == FirstOf(s)
    <3>1. c \in s /\ f[c] \in Int
      BY <2>3, FirstIn
    <3> HIDE DEF c
    <3>2. sum(s) = f[c] + sum(s \ {c})
      BY <2>1, <2>3, SumUnfolds DEF c
    <3> HIDE DEF sum
    <3>3. \A t \in SUBSET s : t # s => Right(t)
      BY <1>1
    <3>4. ASSUME NEW x \in s PROVE sum(s \ {x}) \in Int
      <4>1. s \ {x} \in SUBSET s /\ s \ {x} # s
        OBVIOUS
      <4>2. Right(s \ {x})
        BY <3>3, <4>1
      <4>3. QED BY <4>2
    <3>5. sum(s) \in Int
      BY <3>1, <3>2, <3>4
    <3>6. ASSUME NEW x \in s, x # c PROVE sum(s) = f[x] + sum(s \ {x})
      <4> DEFINE r == (s \ {x}) \ {c}
      <4>1. r = (s \ {c}) \ {x}
        OBVIOUS
      <4>2. sum(s \ {c}) = f[x] + sum(r)
        BY <3>1, <3>3, <3>6, <4>1
      <4>3. sum(s \ {x}) = f[c] + sum(r)
        BY <3>1, <3>3, <3>6
      <4>4. sum(r) \in Int /\ f[x] \in Int
        BY <3>1, <3>3, <3>6
      <4> HIDE DEF r
      <4>5. QED BY <3>1, <3>2, <4>2, <4>3, <4>4
    <3>7. QED BY <3>2, <3>5, <3>6
  <2>4. QED BY <2>2, <2>3
<1> HIDE DEF P
<1>2. S \in P
  BY <1>1, SubsetInduction
<1>3. QED BY <1>2 DEF P

(* Functions that agree on a set have the same sum over it.                 *)
LEMMA SameSum ==
    ASSUME NEW S, IsFiniteSet(S), NEW f, NEW g, \A x \in S : f[x] \in Int /\ f[x] = g[x]
    PROVE  SumFunctionOnSet(f, S) = SumFunctionOnSet(g, S)
<1> DEFINE P == { s \in SUBSET S : SumFunctionOnSet(f, s) = SumFunctionOnSet(g, s) }
<1>1. ASSUME NEW s \in SUBSET S, \A t \in SUBSET s : t # s => t \in P
      PROVE  s \in P
  <2>1. IsFiniteSet(s)
    BY FS_Subset
  <2>2. CASE s = {}
    BY <2>2, SumOfNone
  <2>3. ASSUME NEW x \in s PROVE SumFunctionOnSet(f, s) = SumFunctionOnSet(g, s)
    <3>1. SumFunctionOnSet(f, s) = f[x] + SumFunctionOnSet(f, s \ {x})
      BY <2>1, SumTakes
    <3>2. SumFunctionOnSet(g, s) = g[x] + SumFunctionOnSet(g, s \ {x})
      BY <2>1, SumTakes
    <3>3. s \ {x} \in SUBSET s /\ s \ {x} # s
      OBVIOUS
    <3>4. s \ {x} \in P
      BY <1>1, <3>3
    <3>5. QED BY <3>1, <3>2, <3>4
  <2>4. QED BY <2>2, <2>3
<1> HIDE DEF P
<1>2. S \in P
  BY <1>1, SubsetInduction
<1>3. QED BY <1>2 DEF P

(* The sum over two sets without a common element is the sum of their sums. *)
LEMMA SumOfUnion ==
    ASSUME NEW S, IsFiniteSet(S), NEW T, IsFiniteSet(T), S \cap T = {},
           NEW f, \A x \in S \cup T : f[x] \in Int
    PROVE  SumFunctionOnSet(f, S \cup T) = SumFunctionOnSet(f, S) + SumFunctionOnSet(f, T)
<1> DEFINE sum(s) == SumFunctionOnSet(f, s)
           P == { s \in SUBSET T : sum(S \cup s) = sum(S) + sum(s) }
<1>0. sum(S) \in Int
  BY SumTakes
<1>1. ASSUME NEW s \in SUBSET T, \A t \in SUBSET s : t # s => t \in P
      PROVE  s \in P
  <2>1. IsFiniteSet(s) /\ IsFiniteSet(S \cup s)
    BY FS_Subset, FS_Union
  <2>2. CASE s = {}
    <3>1. sum(s) = 0 /\ S \cup s = S
      BY <2>2, SumOfNone
    <3> HIDE DEF sum
    <3>2. QED BY <1>0, <3>1
  <2>3. ASSUME NEW x \in s PROVE sum(S \cup s) = sum(S) + sum(s)
    <3>1. sum(s) = f[x] + sum(s \ {x}) /\ f[x] \in Int
      BY <2>1, SumTakes
    <3>2. sum(S \cup s) = f[x] + sum((S \cup s) \ {x})
      BY <2>1, SumTakes
    <3>3. (S \cup s) \ {x} = S \cup (s \ {x})
      OBVIOUS
    <3>4. s \ {x} \in SUBSET s /\ s \ {x} # s /\ IsFiniteSet(s \ {x})
      BY <2>1, FS_Subset
    <3>5. sum(s \ {x}) \in Int
      BY <3>4, SumTakes
    <3>6. sum(S \cup (s \ {x})) = sum(S) + sum(s \ {x})
      BY <1>1, <3>4
    <3>7. sum(S \cup s) = f[x] + sum(S \cup (s \ {x}))
      BY <3>2, <3>3
    <3> HIDE DEF sum
    <3>8. QED BY <1>0, <3>1, <3>5, <3>6, <3>7
  <2>4. QED BY <2>2, <2>3
<1>2. T \in P
  <2> HIDE DEF P
  <2>1. QED BY <1>1, SubsetInduction
<1>3. QED BY <1>2

(* A function that is nowhere larger has no larger sum.                     *)
LEMMA SumsCompare ==
    ASSUME NEW S, IsFiniteSet(S), NEW f, NEW g,
           \A x \in S : f[x] \in Int /\ g[x] \in Int /\ f[x] <= g[x]
    PROVE  SumFunctionOnSet(f, S) <= SumFunctionOnSet(g, S)
<1> DEFINE sum(h, s) == SumFunctionOnSet(h, s)
           P == { s \in SUBSET S : sum(f, s) <= sum(g, s) }
<1>1. ASSUME NEW s \in SUBSET S, \A t \in SUBSET s : t # s => t \in P
      PROVE  s \in P
  <2>1. IsFiniteSet(s)
    BY FS_Subset
  <2>2. CASE s = {}
    <3>1. sum(f, s) = 0 /\ sum(g, s) = 0
      BY <2>2, SumOfNone
    <3> HIDE DEF sum
    <3>2. QED BY <3>1
  <2>3. ASSUME NEW x \in s PROVE sum(f, s) <= sum(g, s)
    <3>1. /\ sum(f, s) = f[x] + sum(f, s \ {x})
          /\ sum(g, s) = g[x] + sum(g, s \ {x})
      BY <2>1, SumTakes
    <3>2. s \ {x} \in SUBSET s /\ s \ {x} # s /\ IsFiniteSet(s \ {x})
      BY <2>1, FS_Subset
    <3>3. sum(f, s \ {x}) \in Int /\ sum(g, s \ {x}) \in Int
      BY <3>2, SumTakes
    <3>4. sum(f, s \ {x}) <= sum(g, s \ {x})
      BY <1>1, <3>2
    <3>5. f[x] \in Int /\ g[x] \in Int /\ f[x] <= g[x]
      OBVIOUS
    <3> HIDE DEF sum
    <3>6. QED BY <3>1, <3>3, <3>4, <3>5
  <2>4. QED BY <2>2, <2>3
<1> HIDE DEF P
<1>2. S \in P
  BY <1>1, SubsetInduction
<1>3. QED BY <1>2 DEF P

(* A sum of naturals is one, and no smaller than that over a subset.        *)
LEMMA SumOfNaturals ==
    ASSUME NEW S, IsFiniteSet(S), NEW f, \A x \in S : f[x] \in Nat
    PROVE  /\ SumFunctionOnSet(f, S) \in Nat
           /\ \A T \in SUBSET S : SumFunctionOnSet(f, T) <= SumFunctionOnSet(f, S)
<1> DEFINE sum(s) == SumFunctionOnSet(f, s)
           P == { s \in SUBSET S : sum(s) \in Nat }
<1>1. ASSUME NEW s \in SUBSET S, \A t \in SUBSET s : t # s => t \in P
      PROVE  s \in P
  <2>1. IsFiniteSet(s)
    BY FS_Subset
  <2>2. CASE s = {}
    BY <2>2, SumOfNone
  <2>3. ASSUME NEW x \in s PROVE sum(s) \in Nat
    <3>1. sum(s) = f[x] + sum(s \ {x}) /\ f[x] \in Nat
      BY <2>1, SumTakes
    <3>2. s \ {x} \in SUBSET s /\ s \ {x} # s
      OBVIOUS
    <3>3. sum(s \ {x}) \in Nat
      BY <1>1, <3>2
    <3> HIDE DEF sum
    <3>4. QED BY <3>1, <3>3
  <2>4. QED BY <2>2, <2>3
<1>2. SUBSET S \subseteq P
  <2> HIDE DEF P
  <2>1. QED BY <1>1, SubsetInduction
<1>3. ASSUME NEW T \in SUBSET S PROVE sum(T) <= sum(S)
  <2>1. IsFiniteSet(T) /\ IsFiniteSet(S \ T) /\ T \cap (S \ T) = {} /\ T \cup (S \ T) = S
    BY FS_Subset
  <2>2. sum(T \cup (S \ T)) = sum(T) + sum(S \ T)
    BY <2>1, SumOfUnion
  <2>3. sum(S) = sum(T) + sum(S \ T)
    BY <2>1, <2>2
  <2>4. S \ T \in P /\ T \in P
    BY <1>2
  <2>5. sum(S \ T) \in Nat /\ sum(T) \in Nat
    BY <2>4
  <2> HIDE DEF sum
  <2>6. QED BY <2>3, <2>5
<1>4. S \in P
  BY <1>2
<1>5. QED BY <1>3, <1>4

(* A sum of naturals is zero just when each of them is.                     *)
LEMMA SumIsZero ==
    ASSUME NEW S, IsFiniteSet(S), NEW f, \A x \in S : f[x] \in Nat
    PROVE  SumFunctionOnSet(f, S) = 0 <=> \A x \in S : f[x] = 0
<1> DEFINE sum(s) == SumFunctionOnSet(f, s)
           P == { s \in SUBSET S : (\A x \in s : f[x] = 0) => sum(s) = 0 }
<1>1. ASSUME NEW s \in SUBSET S, \A t \in SUBSET s : t # s => t \in P
      PROVE  s \in P
  <2> SUFFICES ASSUME \A x \in s : f[x] = 0 PROVE sum(s) = 0
    OBVIOUS
  <2>1. IsFiniteSet(s)
    BY FS_Subset
  <2>2. CASE s = {}
    BY <2>2, SumOfNone
  <2>3. ASSUME NEW x \in s PROVE sum(s) = 0
    <3>1. \A y \in s : f[y] \in Int
      OBVIOUS
    <3>2. sum(s) = f[x] + sum(s \ {x})
      BY <2>1, <3>1, SumTakes
    <3>3. sum(s \ {x}) = 0
      <4>1. s \ {x} \in SUBSET s /\ s \ {x} # s
        OBVIOUS
      <4>2. s \ {x} \in P
        BY <1>1, <4>1
      <4>3. QED BY <4>2
    <3>4. f[x] = 0
      OBVIOUS
    <3> HIDE DEF sum
    <3>5. QED BY <3>2, <3>3, <3>4
  <2>4. QED BY <2>2, <2>3
<1>2. S \in P
  <2> HIDE DEF P
  <2>1. QED BY <1>1, SubsetInduction
<1>3. ASSUME sum(S) = 0, NEW x \in S PROVE f[x] = 0
  <2>1. \A y \in S : f[y] \in Int
    OBVIOUS
  <2>2. sum(S) = f[x] + sum(S \ {x})
    BY <2>1, SumTakes
  <2>3. sum(S \ {x}) \in Nat
    <3>1. IsFiniteSet(S \ {x}) /\ \A y \in S \ {x} : f[y] \in Nat
      BY FS_Subset
    <3>2. QED BY <3>1, SumOfNaturals
  <2>4. f[x] \in Nat
    OBVIOUS
  <2> HIDE DEF sum
  <2>5. QED BY <1>3, <2>2, <2>3, <2>4
<1>4. QED BY <1>2, <1>3

(* The sum over the union of a family of sets without common elements is    *)
(* the sum of the sums over its members; with common elements, which count  *)
(* once in the union, it is at most that.                                   *)
LEMMA SumOfFamily ==
    ASSUME NEW I, IsFiniteSet(I), NEW F, \A i \in I : IsFiniteSet(F[i]),
           NEW f, \A i \in I : \A x \in F[i] : f[x] \in Nat,
           NEW m, \A i \in I : m[i] = SumFunctionOnSet(f, F[i]),
           NEW U, U = UNION { F[i] : i \in I }
    PROVE  /\ IsFiniteSet(U) /\ SumFunctionOnSet(f, U) \in Nat /\ SumFunctionOnSet(m, I) \in Nat
           /\ SumFunctionOnSet(f, U) <= SumFunctionOnSet(m, I)
           /\ (\A i, j \in I : i # j => F[i] \cap F[j] = {}) =>
                  SumFunctionOnSet(f, U) = SumFunctionOnSet(m, I)
<1> DEFINE sum(s) == SumFunctionOnSet(f, s)
           union(J) == UNION { F[i] : i \in J }
           Disjoint(J) == \A i, j \in J : i # j => F[i] \cap F[j] = {}
           total(J) == SumFunctionOnSet(m, J)
           Right(J) == /\ IsFiniteSet(union(J))
                       /\ sum(union(J)) <= total(J)
                       /\ Disjoint(J) => sum(union(J)) = total(J)
           P == { J \in SUBSET I : Right(J) }
<1>a. \A i \in I : m[i] \in Nat
  BY SumOfNaturals
<1>b. \A J \in SUBSET I : IsFiniteSet(J) /\ total(J) \in Nat
  <2> SUFFICES ASSUME NEW J \in SUBSET I PROVE IsFiniteSet(J) /\ total(J) \in Nat
    OBVIOUS
  <2>1. IsFiniteSet(J)
    BY FS_Subset
  <2>2. \A i \in J : m[i] \in Nat
    BY <1>a
  <2>3. QED BY <2>1, <2>2, SumOfNaturals
<1>c. \A s \in SUBSET union(I) : IsFiniteSet(s) => sum(s) \in Nat
  BY SumOfNaturals
<1>1. ASSUME NEW J \in SUBSET I, \A K \in SUBSET J : K # J => K \in P
      PROVE  Right(J)
  <2>2. CASE J = {}
    <3>1. union(J) = {}
      BY <2>2
    <3>2. IsFiniteSet(union(J)) /\ sum(union(J)) = 0 /\ total(J) = 0
      BY <2>2, <3>1, SumOfNone, FS_EmptySet
    <3> HIDE DEF union, sum, total
    <3>3. QED BY <3>2
  <2>3. ASSUME NEW i \in J PROVE Right(J)
    <3> DEFINE K == J \ {i}
               V == union(K)
    <3>1. K \in SUBSET J /\ K # J /\ IsFiniteSet(F[i]) /\ i \in I /\ K \in SUBSET I
      OBVIOUS
    <3>2. K \in P
      BY <1>1, <3>1
    <3>3. IsFiniteSet(V) /\ sum(V) <= total(K) /\ (Disjoint(K) => sum(V) = total(K))
      BY <3>2
    <3>4. total(J) = m[i] + total(K) /\ m[i] = sum(F[i])
      <4>1. \A k \in J : m[k] \in Int
        BY <1>a
      <4>2. IsFiniteSet(J)
        BY <1>b
      <4>3. m[i] = sum(F[i])
        OBVIOUS
      <4>4. QED BY <4>1, <4>2, <4>3, SumTakes
    <3>5. union(J) = V \cup F[i] /\ V \subseteq union(I) /\ F[i] \subseteq union(I)
      OBVIOUS
    <3>6. (Disjoint(J) => Disjoint(K)) /\ (Disjoint(J) => F[i] \cap V = {})
      OBVIOUS
    <3> DEFINE R == V \ F[i]
    <3>7. /\ R \subseteq union(I) /\ R \in SUBSET V /\ F[i] \cap R = {} /\ union(J) = F[i] \cup R
          /\ F[i] \cap V = {} => R = V
      BY <3>5
    <3>8. IsFiniteSet(R) /\ IsFiniteSet(union(J))
      <4> HIDE DEF R, V, union
      <4>1. QED BY <3>1, <3>3, <3>7, FS_Subset, FS_Union
    <3>9. \A x \in union(I) : f[x] \in Nat
      OBVIOUS
    <3> HIDE DEF R, V, union
    <3>10. sum(R) <= sum(V)
      BY <3>3, <3>5, <3>7, <3>9, SumOfNaturals
    <3>11. sum(F[i] \cup R) = sum(F[i]) + sum(R)
      <4>1. \A x \in F[i] \cup R : f[x] \in Int
        BY <3>5, <3>7, <3>9
      <4>2. QED BY <3>1, <3>7, <3>8, <4>1, SumOfUnion
    <3>12. sum(R) \in Nat /\ sum(V) \in Nat /\ sum(F[i]) \in Nat /\ total(K) \in Nat
      BY <1>b, <1>c, <3>1, <3>3, <3>5, <3>7, <3>8
    <3>13. sum(union(J)) <= total(J)
      <4> HIDE DEF sum, total, K
      <4>1. QED BY <3>3, <3>4, <3>7, <3>10, <3>11, <3>12
    <3>14. Disjoint(J) => sum(union(J)) = total(J)
      <4>1. ASSUME Disjoint(J) PROVE sum(union(J)) = sum(F[i]) + total(K)
        BY <4>1, <3>3, <3>6, <3>7, <3>11
      <4> HIDE DEF Disjoint, sum, total, K
      <4>2. QED BY <3>4, <4>1
    <3>15. QED BY <3>8, <3>13, <3>14
  <2>4. QED BY <2>2, <2>3
<1>2. I \in P
  <2> HIDE DEF Right
  <2>1. ASSUME NEW J \in SUBSET I, \A K \in SUBSET J : K # J => K \in P PROVE J \in P
    BY <1>1, <2>1
  <2> HIDE DEF P
  <2>2. QED BY <2>1, SubsetInduction
<1>3. /\ IsFiniteSet(union(I)) /\ sum(union(I)) <= total(I)
      /\ Disjoint(I) => sum(union(I)) = total(I)
  BY <1>2
<1>4. sum(union(I)) \in Nat /\ total(I) \in Nat
  BY <1>b, <1>c, <1>3
<1>5. union(I) = U
  OBVIOUS
<1>6. QED BY <1>3, <1>4, <1>5


(* The sum of the sums of two functions.                                    *)
LEMMA SumOfPlus ==
    ASSUME NEW S, IsFiniteSet(S), NEW f, NEW g, NEW h,
           \A x \in S : f[x] \in Int /\ g[x] \in Int /\ h[x] = f[x] + g[x]
    PROVE  SumFunctionOnSet(h, S) = SumFunctionOnSet(f, S) + SumFunctionOnSet(g, S)
<1> DEFINE sum(k, s) == SumFunctionOnSet(k, s)
           P == { s \in SUBSET S : sum(h, s) = sum(f, s) + sum(g, s) }
<1>1. ASSUME NEW s \in SUBSET S, \A t \in SUBSET s : t # s => t \in P
      PROVE  s \in P
  <2>1. IsFiniteSet(s)
    BY FS_Subset
  <2>2. CASE s = {}
    <3>1. sum(f, s) = 0 /\ sum(g, s) = 0 /\ sum(h, s) = 0
      BY <2>2, SumOfNone
    <3> HIDE DEF sum
    <3>2. QED BY <3>1
  <2>3. ASSUME NEW x \in s PROVE sum(h, s) = sum(f, s) + sum(g, s)
    <3>1. \A y \in s : f[y] \in Int /\ g[y] \in Int /\ h[y] \in Int
      OBVIOUS
    <3>2. /\ sum(f, s) = f[x] + sum(f, s \ {x})
          /\ sum(g, s) = g[x] + sum(g, s \ {x})
          /\ sum(h, s) = h[x] + sum(h, s \ {x})
      BY <2>1, <3>1, SumTakes
    <3>3. s \ {x} \in SUBSET s /\ s \ {x} # s /\ IsFiniteSet(s \ {x})
      BY <2>1, FS_Subset
    <3>4. sum(f, s \ {x}) \in Int /\ sum(g, s \ {x}) \in Int
      BY <3>1, <3>3, SumTakes
    <3>5. sum(h, s \ {x}) = sum(f, s \ {x}) + sum(g, s \ {x})
      BY <1>1, <3>3
    <3>6. f[x] \in Int /\ g[x] \in Int /\ h[x] = f[x] + g[x]
      OBVIOUS
    <3> HIDE DEF sum
    <3>7. QED BY <3>2, <3>4, <3>5, <3>6
  <2>4. QED BY <2>2, <2>3
<1> HIDE DEF P
<1>2. S \in P
  BY <1>1, SubsetInduction
<1>3. QED BY <1>2 DEF P

\* The values of a function at the elements of a set.
Image(m, I) == { m[i] : i \in I }

(* A sum may be taken over the values of a function that takes none twice,  *)
(* or over what it takes them at.                                           *)
LEMMA SumOverImage ==
    ASSUME NEW I, IsFiniteSet(I), NEW m, \A i, j \in I : m[i] = m[j] => i = j,
           NEW f, NEW g, \A i \in I : g[i] \in Nat /\ f[m[i]] = g[i]
    PROVE  /\ IsFiniteSet(Image(m, I))
           /\ SumFunctionOnSet(f, Image(m, I)) = SumFunctionOnSet(g, I)
<1> DEFINE F == [ i \in I |-> {m[i]} ]
           parts == [ i \in I |-> SumFunctionOnSet(f, F[i]) ]
           whole == UNION { F[i] : i \in I }
<1>1. whole = Image(m, I)
  BY DEF Image
<1>2. \A i \in I : IsFiniteSet(F[i])
  BY FS_Singleton
<1>3. \A i \in I : \A x \in F[i] : f[x] \in Nat
  OBVIOUS
<1>4. \A i, j \in I : i # j => F[i] \cap F[j] = {}
  OBVIOUS
<1>5. IsFiniteSet(whole) /\ SumFunctionOnSet(f, whole) = SumFunctionOnSet(parts, I)
  <2>1. \A i \in I : parts[i] = SumFunctionOnSet(f, F[i])
    OBVIOUS
  <2>2. whole = UNION { F[i] : i \in I }
    OBVIOUS
  <2> HIDE DEF F, parts, whole
  <2>3. QED BY <1>2, <1>3, <1>4, <2>1, <2>2, SumOfFamily
<1>6. ASSUME NEW i \in I PROVE parts[i] = g[i]
  <2>1. IsFiniteSet({m[i]}) /\ m[i] \in {m[i]} /\ {m[i]} \ {m[i]} = {}
    BY FS_Singleton
  <2>. \A x \in {m[i]} : f[x] \in Int
    OBVIOUS
  <2>2. SumFunctionOnSet(f, {m[i]}) = f[m[i]] + SumFunctionOnSet(f, {m[i]} \ {m[i]})
    BY <2>1, SumTakes
  <2>3. SumFunctionOnSet(f, {m[i]}) = f[m[i]] + 0
    BY <2>1, <2>2, SumOfNone
  <2>4. QED BY <2>3
<1>7. \A i \in I : parts[i] \in Int /\ parts[i] = g[i]
  BY <1>6
<1>8. SumFunctionOnSet(parts, I) = SumFunctionOnSet(g, I)
  <2> HIDE DEF parts
  <2>1. QED BY <1>7, SameSum
<1>9. QED BY <1>1, <1>5, <1>8

-----------------------------------------------------------------------------
(* Division *)

LEMMA Division ==
    ASSUME NEW a \in Int, NEW b \in Nat \ {0}
    PROVE  /\ a \div b \in Int /\ a % b \in 0 .. b - 1
           /\ a = b * (a \div b) + (a % b)
OBVIOUS

(* A product is monotonic in a factor.                                      *)
LEMMA Products ==
    ASSUME NEW a \in Nat, NEW x \in Int, NEW y \in Int, x <= y
    PROVE  a * x \in Int /\ a * y \in Int /\ a * x <= a * y
<1> DEFINE d == y - x
<1>1. d \in Nat /\ y = x + d
  OBVIOUS
<1>2. a * d \in Nat /\ a * x \in Int
  BY <1>1
<1>3. a * y = a * x + a * d
  BY <1>1
<1> HIDE DEF d
<1>4. QED BY <1>2, <1>3

(* A multiple is smaller than the next one.                                 *)
LEMMA Multiples ==
    ASSUME NEW b \in Nat \ {0}, NEW p \in Int, NEW q \in Int, p < q
    PROVE  b * p \in Int /\ b * q \in Int /\ b * p + b <= b * q
<1>1. b * (p + 1) <= b * q /\ b * q \in Int
  <2> DEFINE next == p + 1
  <2>1. next \in Int /\ next <= q
    OBVIOUS
  <2> HIDE DEF next
  <2>2. b * next <= b * q /\ b * q \in Int
    BY <2>1, Products
  <2>3. QED BY <2>2 DEF next
<1>2. b * (p + 1) = b * p + b /\ b * p \in Int
  OBVIOUS
<1>3. QED BY <1>1, <1>2

(* A quotient is bounded as the dividend is.                                *)
LEMMA Quotients ==
    ASSUME NEW a \in Int, NEW b \in Nat \ {0}, NEW q \in Int
    PROVE  /\ a <= b * q => a \div b <= q
           /\ a < b * q => a \div b < q
           /\ b * q <= a => q <= a \div b
<1> DEFINE p == a \div b
           r == a % b
<1>1. p \in Int /\ r \in 0 .. b - 1 /\ a = b * p + r
  BY Division
<1> HIDE DEF p, r
<1>2. b * p \in Int /\ b * q \in Int
  BY <1>1
<1>3. q < p => b * q + b <= b * p
  BY <1>1, Multiples
<1>4. p < q => b * p + b <= b * q
  BY <1>1, Multiples
<1>5. p = q => b * p = b * q
  OBVIOUS
<1>6. /\ a <= b * q => p <= q
      /\ a < b * q => p < q
      /\ b * q <= a => q <= p
  BY <1>1, <1>2, <1>3, <1>4, <1>5
<1>7. QED BY <1>6 DEF p

(* Quotient and remainder are what is put together from them.               *)
LEMMA QuotientOf ==
    ASSUME NEW b \in Nat \ {0}, NEW q \in Int, NEW r \in 0 .. b - 1,
           NEW a, a = b * q + r
    PROVE  a \in Int /\ a \div b = q /\ a % b = r
<1>1. b * q \in Int /\ b * (q + 1) = b * q + b
  OBVIOUS
<1>2. a \in Int
  BY <1>1
<1>3. a \div b \in Int
  BY <1>2, Division
<1>4. q <= a \div b
  BY <1>1, <1>2, Quotients
<1>5. a \div b < q + 1
  <2> DEFINE next == q + 1
  <2>1. next \in Int /\ a < b * next
    BY <1>1
  <2> HIDE DEF next
  <2>2. a \div b < next
    BY <1>2, <2>1, Quotients
  <2>3. QED BY <2>2 DEF next
<1>6. a \div b = q
  BY <1>3, <1>4, <1>5
<1>7. a = b * q + (a % b) /\ a % b \in 0 .. b - 1
  BY <1>2, <1>6, Division
<1>8. QED BY <1>1, <1>2, <1>6, <1>7

(* Dividing a product by a factor gives the other.                          *)
LEMMA QuotientOfProduct ==
    ASSUME NEW b \in Nat \ {0}, NEW q \in Int
    PROVE  (b * q) \div b = q /\ (q * b) \div b = q
<1>1. b * q = b * q + 0 /\ q * b = b * q + 0 /\ 0 \in 0 .. b - 1
  OBVIOUS
<1>2. QED BY <1>1, QuotientOf
=============================================================================
