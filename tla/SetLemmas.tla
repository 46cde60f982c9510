------------------------------- MODULE SetLemmas -------------------------------
(***************************************************************************)
(* What the proofs of several components need of finite sets and of        *)
(* naturals: induction over subsets, least and greatest elements, and the  *)
(* sums that the models take with the folds of the community modules.      *)
(***************************************************************************)
EXTENDS Integers, FiniteSets, FiniteSetsExt, FiniteSetTheorems, WellFoundedInduction, TLAPS

\* A set of naturals has a least element.
LEMMA LeastNat ==
    ASSUME NEW U, U \subseteq Nat, U # {}
    PROVE  \E n \in U : \A m \in U : n =< m
<1>1. PICK n \in U : \A m \in U : <<m, n>> \notin OpToRel(<, Nat)
  BY WFMin, NatLessThanWellFounded
<1>2. ASSUME NEW m \in U
      PROVE  n =< m
  <2>1. m \in Nat /\ n \in Nat
    OBVIOUS
  <2>2. <<m, n>> \notin OpToRel(<, Nat)
    BY <1>1
  <2>3. ~(m < n)
    BY <2>1, <2>2 DEF OpToRel
  <2> QED
    BY <2>1, <2>3
<1> QED
  BY <1>2

\* What holds of a set whenever it holds of its proper subsets holds of every
\* subset of a finite set.
LEMMA SubsetInduction ==
  ASSUME NEW S, IsFiniteSet(S), NEW Good,
         \A v \in SUBSET S : (\A u \in SUBSET v : u # v => u \in Good) => v \in Good
  PROVE  \A v \in SUBSET S : v \in Good
<1> DEFINE R == StrictSubsetOrdering(S)
           Bad == (SUBSET S) \ Good
<1>1. IsWellFoundedOn(R, SUBSET S)
  BY FS_StrictSubsetOrderingWellFounded, FS_FiniteSubsetsOfFinite
<1>2. \A u, v \in SUBSET S : u \subseteq v /\ u # v => <<u, v>> \in R
  BY DEF StrictSubsetOrdering
<1>3. Bad \subseteq SUBSET S /\ \A v \in SUBSET S : v \in Bad <=> v \notin Good
  OBVIOUS
<1> HIDE DEF R, Bad
<1>4. ASSUME Bad # {}
      PROVE  FALSE
  <2>1. PICK v \in Bad : \A u \in Bad : ~(<<u, v>> \in R)
    BY <1>1, <1>3, <1>4, WFMin
  <2>2. ASSUME NEW u \in SUBSET v, u # v
        PROVE  u \in Good
    <3>1. u \in SUBSET S /\ v \in SUBSET S /\ u \subseteq v
      BY <1>3
    <3>2. <<u, v>> \in R
      BY <1>2, <2>2, <3>1
    <3>3. QED
      BY <1>3, <2>1, <3>1, <3>2
  <2>3. QED
    BY <1>3, <2>1, <2>2
<1>5. QED
  BY <1>3, <1>4

\* A finite set of integers has a greatest element, which Max chooses.
HasMax(S) == \E x \in S : \A y \in S : x >= y

LEMMA MaxExists ==
  ASSUME NEW S, IsFiniteSet(S), S # {}, S \subseteq Int
  PROVE  HasMax(S)
<1> DEFINE Good == {v \in SUBSET S : v # {} => HasMax(v)}
<1>1. ASSUME NEW v \in SUBSET S, \A u \in SUBSET v : u # v => u \in Good
      PROVE  v \in Good
  <2> SUFFICES ASSUME v # {}
               PROVE  HasMax(v)
    OBVIOUS
  <2>1. PICK x \in v : TRUE
    OBVIOUS
  <2>2. CASE v \ {x} = {}
    BY <2>1, <2>2 DEF HasMax
  <2>3. CASE v \ {x} # {}
    <3>1. HasMax(v \ {x})
      BY <1>1, <2>1, <2>3
    <3>2. PICK m \in v \ {x} : \A y \in v \ {x} : m >= y
      BY <3>1 DEF HasMax
    <3>3. m \in Int /\ x \in Int /\ \A y \in v : y \in Int
      BY <2>1, <3>2
    <3>4. CASE m >= x
      BY <3>2, <3>3, <3>4 DEF HasMax
    <3>5. CASE ~(m >= x)
      <4>1. \A y \in v : x >= y
        BY <2>1, <3>2, <3>3, <3>5
      <4>2. QED
        BY <2>1, <4>1 DEF HasMax
    <3>6. QED
      BY <3>4, <3>5
  <2>4. QED
    BY <2>2, <2>3
<1> HIDE DEF Good
<1>2. S \in Good
  BY <1>1, SubsetInduction
<1>3. QED
  BY <1>2 DEF Good

LEMMA MaxIsMax ==
  ASSUME NEW S, IsFiniteSet(S), S # {}, S \subseteq Int
  PROVE  Max(S) \in S /\ \A y \in S : Max(S) >= y
<1>1. \E x \in S : \A y \in S : x >= y
  BY MaxExists DEF HasMax
<1>2. QED
  BY <1>1, Zenon DEF Max

(***************************************************************************)
(* Sums.  The models add stakes, swept amounts and weights up with folds;  *)
(* the proofs need what one element more or less does to such a sum.       *)
(***************************************************************************)
SumOver(f, S) == MapThenSumSet(LAMBDA x : f[x], S)

\* The folds recurse over the subsets of S, taking a chosen element out.
Picked(s) == CHOOSE x \in s : TRUE
SolvesFold(f, D, g) ==
    g = [s \in D |-> IF s = {} THEN 0 ELSE f[Picked(s)] + g[s \ {Picked(s)}]]
FoldTable(f, S) == CHOOSE g : SolvesFold(f, SUBSET S, g)

LEMMA SumIsInTable ==
  ASSUME NEW f, NEW S
  PROVE  SumOver(f, S) = FoldTable(f, S)[S]
  BY DEF SumOver, FoldTable, SolvesFold, MapThenSumSet, MapThenFoldSet, Picked

LEMMA PickedIn ==
  ASSUME NEW s, s # {}
  PROVE  Picked(s) \in s
  BY DEF Picked

LEMMA SolutionsAgree ==
  ASSUME NEW f, NEW S, IsFiniteSet(S), NEW U, NEW g, NEW h,
         SolvesFold(f, SUBSET S, g), SolvesFold(f, SUBSET U, h), NEW s \in SUBSET S, s \subseteq U
  PROVE  g[s] = h[s]
<1> DEFINE Good == {v \in SUBSET S : v \subseteq U => g[v] = h[v]}
<1>1. ASSUME NEW v \in SUBSET S, \A u \in SUBSET v : u # v => u \in Good
      PROVE  v \in Good
  <2> SUFFICES ASSUME v \subseteq U
               PROVE  g[v] = h[v]
    OBVIOUS
  <2>1. CASE v = {}
    BY <2>1 DEF SolvesFold
  <2>2. CASE v # {}
    <3> DEFINE w == v \ {Picked(v)}
    <3>1. w \in SUBSET v /\ w # v
      BY <2>2, PickedIn
    <3>2. w \subseteq U /\ g[w] = h[w]
      BY <1>1, <3>1
    <3>3. g[v] = f[Picked(v)] + g[w]
      BY <2>2 DEF SolvesFold
    <3>4. h[v] = f[Picked(v)] + h[w]
      BY <2>2 DEF SolvesFold
    <3>5. QED
      BY <3>2, <3>3, <3>4
  <2>3. QED
    BY <2>1, <2>2
<1> HIDE DEF Good
<1>2. s \in Good
  BY <1>1, SubsetInduction
<1>3. QED
  BY <1>2 DEF Good

LEMMA FoldTableSolves ==
  ASSUME NEW f, NEW S, IsFiniteSet(S)
  PROVE  SolvesFold(f, SUBSET S, FoldTable(f, S))
<1> DEFINE Good == {v \in SUBSET S : SolvesFold(f, SUBSET v, FoldTable(f, v))}
<1>1. ASSUME NEW v \in SUBSET S, \A u \in SUBSET v : u # v => u \in Good
      PROVE  v \in Good
  <2> DEFINE rest(s) == s \ {Picked(s)}
             h == [s \in SUBSET v |-> IF s = {} THEN 0
                       ELSE f[Picked(s)] + FoldTable(f, rest(s))[rest(s)]]
  <2>1. ASSUME NEW s \in SUBSET v, s # {}
        PROVE  h[rest(s)] = FoldTable(f, rest(s))[rest(s)]
    <3> DEFINE w == rest(s)
    <3>1. w \in SUBSET v /\ w # v /\ SolvesFold(f, SUBSET w, FoldTable(f, w)) /\ IsFiniteSet(w)
      BY <1>1, <2>1, PickedIn, FS_Subset
    <3>2. CASE w = {}
      BY <3>1, <3>2 DEF SolvesFold
    <3>3. CASE w # {}
      <4>1. rest(w) \in SUBSET w /\ rest(w) # w /\ rest(w) \in SUBSET v /\ rest(w) # v
        BY <3>1, <3>3, PickedIn
      <4>2. SolvesFold(f, SUBSET rest(w), FoldTable(f, rest(w)))
        BY <1>1, <4>1
      <4>3. FoldTable(f, w)[rest(w)] = FoldTable(f, rest(w))[rest(w)]
        <5>1. rest(w) \in SUBSET w /\ rest(w) \subseteq rest(w)
          BY <4>1
        <5> HIDE DEF w, rest
        <5>2. QED
          BY <3>1, <4>2, <5>1, SolutionsAgree
      <4>4. FoldTable(f, w)[w] = f[Picked(w)] + FoldTable(f, w)[rest(w)]
        <5>1. SolvesFold(f, SUBSET w, FoldTable(f, w))
          BY <3>1
        <5>2. QED
          BY <3>3, <5>1 DEF SolvesFold
      <4>5. h[w] = f[Picked(w)] + FoldTable(f, rest(w))[rest(w)]
        BY <3>1, <3>3
      <4>6. QED
        BY <4>3, <4>4, <4>5
    <3>4. QED
      BY <3>2, <3>3
  <2>2. SolvesFold(f, SUBSET v, h)
    BY <2>1 DEF SolvesFold
  <2> HIDE DEF h
  <2>3. QED
    BY <2>2 DEF FoldTable
<1> HIDE DEF Good
<1>2. S \in Good
  BY <1>1, SubsetInduction
<1>3. QED
  BY <1>2 DEF Good

\* The two equations of a sum.
LEMMA SumEmpty ==
  ASSUME NEW f
  PROVE  SumOver(f, {}) = 0
<1>1. SolvesFold(f, SUBSET {}, FoldTable(f, {}))
  BY FoldTableSolves, FS_EmptySet
<1>2. QED
  BY <1>1, SumIsInTable DEF SolvesFold

LEMMA SumPicked ==
  ASSUME NEW f, NEW S, IsFiniteSet(S), S # {}
  PROVE  SumOver(f, S) = f[Picked(S)] + SumOver(f, S \ {Picked(S)})
<1> DEFINE T == S \ {Picked(S)}
<1>1. SolvesFold(f, SUBSET S, FoldTable(f, S)) /\ SolvesFold(f, SUBSET T, FoldTable(f, T))
  BY FoldTableSolves, FS_Subset
<1>2. FoldTable(f, S)[S] = f[Picked(S)] + FoldTable(f, S)[T]
  <2>1. SolvesFold(f, SUBSET S, FoldTable(f, S))
    BY <1>1
  <2>2. QED
    BY <2>1 DEF SolvesFold
<1>3. FoldTable(f, S)[T] = FoldTable(f, T)[T]
  <2>1. T \in SUBSET S /\ T \subseteq T
    OBVIOUS
  <2> HIDE DEF T
  <2>2. QED
    BY <1>1, <2>1, SolutionsAgree
<1>4. QED
  BY <1>2, <1>3, SumIsInTable

LEMMA SumType ==
  ASSUME NEW f, NEW S, IsFiniteSet(S), \A x \in S : f[x] \in Int
  PROVE  SumOver(f, S) \in Int
<1> DEFINE Good == {v \in SUBSET S : SumOver(f, v) \in Int}
<1>1. ASSUME NEW v \in SUBSET S, \A u \in SUBSET v : u # v => u \in Good
      PROVE  v \in Good
  <2>1. IsFiniteSet(v)
    BY FS_Subset
  <2>2. CASE v # {}
    <3>1. Picked(v) \in v /\ SumOver(f, v \ {Picked(v)}) \in Int
      BY <1>1, <2>2, PickedIn
    <3>2. QED
      BY <2>1, <2>2, <3>1, SumPicked
  <2>3. QED
    BY <2>2, SumEmpty
<1> HIDE DEF Good
<1>2. S \in Good
  BY <1>1, SubsetInduction
<1>3. QED
  BY <1>2 DEF Good

\* Equal terms, equal sums.
LEMMA SumSame ==
  ASSUME NEW f, NEW g, NEW S, IsFiniteSet(S), \A x \in S : f[x] = g[x]
  PROVE  SumOver(f, S) = SumOver(g, S)
<1> DEFINE Good == {v \in SUBSET S : SumOver(f, v) = SumOver(g, v)}
<1>1. ASSUME NEW v \in SUBSET S, \A u \in SUBSET v : u # v => u \in Good
      PROVE  v \in Good
  <2>1. IsFiniteSet(v)
    BY FS_Subset
  <2>2. CASE v # {}
    <3>1. Picked(v) \in v /\ SumOver(f, v \ {Picked(v)}) = SumOver(g, v \ {Picked(v)})
      BY <1>1, <2>2, PickedIn
    <3>2. QED
      BY <2>1, <2>2, <3>1, SumPicked
  <2>3. QED
    BY <2>2, SumEmpty
<1> HIDE DEF Good
<1>2. S \in Good
  BY <1>1, SubsetInduction
<1>3. QED
  BY <1>2 DEF Good

\* One element more adds its term, whichever element the fold takes first.
LEMMA SumAdd ==
  ASSUME NEW f, NEW U, IsFiniteSet(U), \A y \in U : f[y] \in Int,
         NEW S \in SUBSET U, NEW x \in U \ S
  PROVE  SumOver(f, S \cup {x}) = SumOver(f, S) + f[x]
<1> DEFINE Adds(v, y) == SumOver(f, v \cup {y}) = SumOver(f, v) + f[y]
           Good == {v \in SUBSET U : \A y \in U \ v : Adds(v, y)}
<1>1. ASSUME NEW v \in SUBSET U, \A u \in SUBSET v : u # v => u \in Good
      PROVE  v \in Good
  <2> SUFFICES ASSUME NEW y \in U \ v
               PROVE  Adds(v, y)
    OBVIOUS
  <2> DEFINE w == v \cup {y}
             c == Picked(w)
  <2>1. w \in SUBSET U /\ w # {} /\ IsFiniteSet(w)
    BY FS_Subset
  <2>2. c \in w /\ SumOver(f, w) = f[c] + SumOver(f, w \ {c})
    BY <2>1, PickedIn, SumPicked
  <2> HIDE DEF c
  <2>3. SumOver(f, v) \in Int /\ f[y] \in Int /\ f[c] \in Int
    BY <2>1, <2>2, SumType, FS_Subset
  <2>4. CASE c = y
    <3>1. w \ {c} = v
      BY <2>4
    <3>2. SumOver(f, w \ {c}) = SumOver(f, v) /\ f[c] = f[y]
      BY <2>4, <3>1
    <3>3. QED
      BY <2>2, <2>3, <3>2
  <2>5. CASE c # y
    <3> DEFINE u == v \ {c}
    <3>1. /\ u \in SUBSET v /\ u # v /\ c \in U \ u /\ y \in U \ u
          /\ w \ {c} = u \cup {y} /\ v = u \cup {c}
      BY <2>1, <2>2, <2>5
    <3>2. Adds(u, y) /\ Adds(u, c)
      BY <1>1, <3>1
    <3>3. SumOver(f, u) \in Int
      BY <3>1, SumType, FS_Subset
    <3>4. SumOver(f, w \ {c}) = SumOver(f, u) + f[y] /\ SumOver(f, v) = SumOver(f, u) + f[c]
      BY <3>1, <3>2
    <3>5. QED
      BY <2>2, <2>3, <3>3, <3>4
  <2>6. QED
    BY <2>4, <2>5
<1> HIDE DEF Good
<1>2. S \in Good
  BY <1>1, SubsetInduction, SMTT(20)
<1>3. QED
  BY <1>2 DEF Good

LEMMA SumRemove ==
  ASSUME NEW f, NEW S, IsFiniteSet(S), \A y \in S : f[y] \in Int, NEW x \in S
  PROVE  SumOver(f, S) = SumOver(f, S \ {x}) + f[x]
<1>1. (S \ {x}) \cup {x} = S
  OBVIOUS
<1>2. SumOver(f, (S \ {x}) \cup {x}) = SumOver(f, S \ {x}) + f[x]
  BY SumAdd
<1>3. QED
  BY <1>1, <1>2

LEMMA OneMore ==
  ASSUME NEW n \in Nat, NEW m \in Nat
  PROVE  n * m \in Nat /\ (n + 1) * m = n * m + m
  OBVIOUS

LEMMA MoreTimes ==
  ASSUME NEW n \in Nat, NEW k \in Nat, n <= k, NEW m \in Nat
  PROVE  n * m <= k * m
<1>1. k = n + (k - n) /\ k - n \in Nat
  OBVIOUS
<1>2. (n + (k - n)) * m = n * m + (k - n) * m
  OBVIOUS
<1>3. n * m \in Nat /\ (k - n) * m \in Nat
  BY <1>1, OneMore
<1>4. QED
  BY <1>1, <1>2, <1>3

\* A sum of naturals grows with the set, and is at most as many times the largest
\* term as there are terms.
LEMMA SumBounds ==
  ASSUME NEW f, NEW S, IsFiniteSet(S), NEW m \in Nat, \A x \in S : f[x] \in 0 .. m
  PROVE  SumOver(f, S) \in Nat /\ SumOver(f, S) <= Cardinality(S) * m
<1> DEFINE Good == {v \in SUBSET S : SumOver(f, v) \in Nat /\ SumOver(f, v) <= Cardinality(v) * m}
<1>1. ASSUME NEW v \in SUBSET S, \A u \in SUBSET v : u # v => u \in Good
      PROVE  v \in Good
  <2>1. IsFiniteSet(v)
    BY FS_Subset
  <2>2. CASE v # {}
    <3> DEFINE u == v \ {Picked(v)}
    <3>1. Picked(v) \in v /\ SumOver(f, u) \in Nat /\ SumOver(f, u) <= Cardinality(u) * m
      BY <1>1, <2>2, PickedIn
    <3>2. f[Picked(v)] \in 0 .. m /\ SumOver(f, v) = f[Picked(v)] + SumOver(f, u)
      BY <2>1, <2>2, <3>1, SumPicked
    <3>3. Cardinality(u) \in Nat /\ Cardinality(v) = Cardinality(u) + 1
      <4>1. Cardinality(v) \in Nat /\ IsFiniteSet(u) /\ Cardinality(u) = Cardinality(v) - 1
        BY <2>1, <3>1, FS_RemoveElement, FS_CardinalityType
      <4>2. Cardinality(u) \in Nat
        BY <4>1, FS_CardinalityType
      <4> HIDE DEF u
      <4>3. QED
        BY <4>1, <4>2
    <3> HIDE DEF u
    <3>4. (Cardinality(u) + 1) * m = Cardinality(u) * m + m
      BY <3>3, OneMore
    <3>5. Cardinality(u) * m \in Nat
      BY <3>3, OneMore
    <3>6. QED
      BY <3>1, <3>2, <3>3, <3>4, <3>5
  <2>3. CASE v = {}
    BY <2>3, SumEmpty, FS_EmptySet
  <2>4. QED
    BY <2>2, <2>3
<1> HIDE DEF Good
<1>2. S \in Good
  BY <1>1, SubsetInduction
<1>3. QED
  BY <1>2 DEF Good

LEMMA SumGrows ==
  ASSUME NEW f, NEW S, IsFiniteSet(S), \A x \in S : f[x] \in Nat, NEW T \in SUBSET S
  PROVE  SumOver(f, T) <= SumOver(f, S)
<1> DEFINE Good == {v \in SUBSET S : \A t \in SUBSET v : SumOver(f, t) <= SumOver(f, v)}
<1>1. ASSUME NEW v \in SUBSET S, \A u \in SUBSET v : u # v => u \in Good
      PROVE  v \in Good
  <2> SUFFICES ASSUME NEW t \in SUBSET v, t # v
               PROVE  SumOver(f, t) <= SumOver(f, v)
    BY SumType, FS_Subset
  <2>1. PICK x \in v : x \notin t
    OBVIOUS
  <2>2. v \ {x} \in SUBSET v /\ v \ {x} # v /\ t \in SUBSET (v \ {x})
    BY <2>1
  <2>3. SumOver(f, t) <= SumOver(f, v \ {x})
    BY <1>1, <2>2
  <2>4. IsFiniteSet(v) /\ SumOver(f, v) = SumOver(f, v \ {x}) + f[x]
    BY SumRemove, FS_Subset
  <2>5. SumOver(f, t) \in Int /\ SumOver(f, v \ {x}) \in Int /\ f[x] \in Nat
    BY SumType, FS_Subset
  <2>6. QED
    BY <2>3, <2>4, <2>5
<1> HIDE DEF Good
<1>2. S \in Good
  BY <1>1, SubsetInduction
<1>3. SumOver(f, S) \in Int
  BY SumType
<1>4. QED
  BY <1>2 DEF Good

(***************************************************************************)
(* Counting a finite set.                                                  *)
(***************************************************************************)
LEMMA CountNat ==
  ASSUME NEW S, IsFiniteSet(S), NEW T \in SUBSET S
  PROVE  IsFiniteSet(T) /\ Cardinality(T) \in Nat /\ Cardinality(T) <= Cardinality(S)
  BY FS_Subset, FS_CardinalityType

LEMMA CountLess ==
  ASSUME NEW S, IsFiniteSet(S), NEW x \in S
  PROVE  Cardinality(S \ {x}) \in Nat /\ Cardinality(S \ {x}) = Cardinality(S) - 1
<1>1. Cardinality(S) \in Nat /\ IsFiniteSet(S \ {x}) /\ Cardinality(S \ {x}) = Cardinality(S) - 1
  BY FS_RemoveElement, FS_CardinalityType
<1>2. Cardinality(S \ {x}) \in Nat
  BY <1>1, FS_CardinalityType
<1>3. QED
  BY <1>1, <1>2

LEMMA CountMore ==
  ASSUME NEW S, IsFiniteSet(S), NEW x, NEW T \in SUBSET (S \cup {x})
  PROVE  Cardinality(T) \in Nat /\ Cardinality(T) <= Cardinality(S) + 1
<1> DEFINE U == S \cup {x}
<1>1. /\ Cardinality(S) \in Nat /\ IsFiniteSet(U)
      /\ Cardinality(U) = IF x \in S THEN Cardinality(S) ELSE Cardinality(S) + 1
  BY FS_AddElement, FS_CardinalityType
<1>2. T \in SUBSET U
  OBVIOUS
<1> HIDE DEF U
<1>3. Cardinality(T) \in Nat /\ Cardinality(T) <= Cardinality(U)
  BY <1>1, <1>2, CountNat
<1>4. QED
  BY <1>1, <1>3

LEMMA OneAtMost ==
  ASSUME NEW S, IsFiniteSet(S), ~(Cardinality(S) > 1), NEW x \in S, NEW y \in S
  PROVE  x = y
<1>1. SUFFICES ASSUME x # y
               PROVE  FALSE
  OBVIOUS
<1>2. Cardinality(S) \in Nat /\ Cardinality(S \ {x}) = Cardinality(S) - 1 /\ IsFiniteSet(S \ {x})
  BY FS_CardinalityType, CountLess, FS_RemoveElement
<1>3. Cardinality(S \ {x}) = 0
  <2>1. Cardinality(S \ {x}) \in Nat
    BY CountLess
  <2>2. QED
    BY <1>2, <2>1
<1>4. QED
  BY <1>1, <1>2, <1>3, FS_EmptySet
=============================================================================
