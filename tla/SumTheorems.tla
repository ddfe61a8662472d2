---------------------------- MODULE SumTheorems ----------------------------
(***************************************************************************)
(* Sums over finite sets: MapThenSumSet takes the elements in whatever     *)
(* order CHOOSE yields, and the sum is the same for every order. The sum   *)
(* of f over S is stated for functions f, and induction over finite sets   *)
(* for a family of sets, so that they can be cited by name.                *)
(***************************************************************************)
EXTENDS Integers, FiniteSets, FiniteSetsExt, FiniteSetTheorems, TLAPS

Sum(f, S) == MapThenSumSet(LAMBDA x : f[x], S)

-----------------------------------------------------------------------------
(* Induction. *)

\* A set of natural numbers has a least element.
LEMMA LowestNat ==
  ASSUME NEW S \in SUBSET Nat, S # {}
  PROVE  \E k \in S : \A l \in S : k <= l
<1> DEFINE less == {p \in Nat \X Nat : p[1] < p[2]}
<1>1. IsWellFoundedOn(less, Nat)
  BY NatLessThanWellFounded DEF OpToRel
<1>2. PICK k \in S : \A l \in S : <<l, k>> \notin less
  BY <1>1, WFMin, Zenon
<1>3. ASSUME NEW l \in S PROVE k <= l
  <2>1. l \in Nat /\ k \in Nat
    OBVIOUS
  <2>2. <<l, k>> \in Nat \X Nat /\ <<l, k>>[1] = l /\ <<l, k>>[2] = k
    BY <2>1
  <2>3. ~(l < k)
    BY <1>2, <2>2, Zenon
  <2> QED
    BY <2>1, <2>3
<1> QED
  BY <1>3

\* The cardinality of a finite set and of the set without one of its elements.
LEMMA OneLess ==
  ASSUME NEW U, IsFiniteSet(U), NEW T \in SUBSET U, NEW x \in T
  PROVE  /\ Cardinality(T) \in Nat /\ Cardinality(T \ {x}) \in Nat
         /\ Cardinality(T \ {x}) < Cardinality(T)
<1>1. IsFiniteSet(T) /\ IsFiniteSet(T \ {x})
  BY FS_Subset
<1>2. Cardinality(T) \in Nat /\ Cardinality(T \ {x}) \in Nat
  BY <1>1, FS_CardinalityType
<1>3. Cardinality(T \ {x}) = Cardinality(T) - 1
  BY <1>1, FS_RemoveElement
<1>. QED  BY <1>2, <1>3

\* A nonempty family of finite sets has a member from which nothing can be
\* taken away that leaves a member.
LEMMA SmallestMember ==
  ASSUME NEW U, IsFiniteSet(U), NEW Bad \in SUBSET SUBSET U, Bad # {}
  PROVE  \E T \in Bad : \A x \in T : T \ {x} \notin Bad
<1>. DEFINE sizes == {Cardinality(T) : T \in Bad}
<1>1. sizes \in SUBSET Nat /\ sizes # {}
  <2>1. \A T \in Bad : Cardinality(T) \in Nat
    BY FS_Subset, FS_CardinalityType
  <2>. QED  BY <2>1
<1>2. PICK T \in Bad : \A S \in Bad : Cardinality(T) <= Cardinality(S)
  <2>1. PICK k \in sizes : \A l \in sizes : k <= l
    BY <1>1, LowestNat
  <2>. QED  BY <2>1
<1>3. ASSUME NEW x \in T
      PROVE  T \ {x} \notin Bad
  <2>1. Cardinality(T) \in Nat /\ Cardinality(T \ {x}) \in Nat /\ Cardinality(T \ {x}) < Cardinality(T)
    BY OneLess
  <2>. QED  BY <1>2, <2>1
<1>. QED  BY <1>3

\* A family that has the empty set, and with a set each set of one more
\* element, has all subsets.
LEMMA InductionOverSets ==
  ASSUME NEW U, IsFiniteSet(U), NEW Good \in SUBSET SUBSET U, {} \in Good,
         \A T \in Good : \A x \in U \ T : T \cup {x} \in Good
  PROVE  Good = SUBSET U
<1>. DEFINE Bad == (SUBSET U) \ Good
<1>1. SUFFICES ASSUME Bad # {} PROVE FALSE
  OBVIOUS
<1>2. PICK T \in Bad : \A x \in T : T \ {x} \notin Bad
  <2>. HIDE DEF Bad
  <2>1. Bad \in SUBSET SUBSET U
    BY DEF Bad
  <2>. QED  BY <1>1, <2>1, SmallestMember
<1>3. PICK x \in T : TRUE
  OBVIOUS
<1>4. T \ {x} \in Good /\ x \in U \ (T \ {x}) /\ (T \ {x}) \cup {x} = T
  BY <1>2, <1>3
<1>. QED  BY <1>4

-----------------------------------------------------------------------------
(* The recursion of MapThenSumSet. *)

\* g adds up f over the subsets of U, whichever element is taken first.
AddsUp(g, f, U) ==
  /\ g \in [SUBSET U -> Int]
  /\ g[{}] = 0
  /\ \A S \in SUBSET U : \A x \in S : g[S] = f[x] + g[S \ {x}]

\* g is what the recursive definition asks for.
Recursion(g, f, U) ==
  g = [S \in SUBSET U |->
         IF S = {} THEN 0
         ELSE f[CHOOSE x \in S : TRUE] + g[S \ {CHOOSE x \in S : TRUE}]]

LEMMA SumIsRecursion ==
  ASSUME NEW f, NEW U
  PROVE  Sum(f, U) = (CHOOSE g : Recursion(g, f, U))[U]
BY DEF Sum, MapThenSumSet, MapThenFoldSet, Recursion

LEMMA AdderExists ==
  ASSUME NEW U, IsFiniteSet(U), NEW f, \A x \in U : f[x] \in Int
  PROVE  \E g : AddsUp(g, f, U)
<1>. DEFINE Good == {T \in SUBSET U : \E g : AddsUp(g, f, T)}
<1>1. {} \in Good
  <2>1. AddsUp([S \in SUBSET {} |-> 0], f, {})
    BY DEF AddsUp
  <2>. QED  BY <2>1
<1>2. ASSUME NEW T \in Good, NEW x \in U \ T
      PROVE  T \cup {x} \in Good
  <2>1. PICK g : AddsUp(g, f, T)
    OBVIOUS
  <2>. DEFINE h == [S \in SUBSET (T \cup {x}) |-> IF x \in S THEN f[x] + g[S \ {x}] ELSE g[S]]
  <2>2. ASSUME NEW S \in SUBSET (T \cup {x})
        PROVE  S \ {x} \in SUBSET T /\ (x \notin S => S \in SUBSET T)
    OBVIOUS
  <2>3. h \in [SUBSET (T \cup {x}) -> Int] /\ h[{}] = 0
    BY <2>1, <2>2 DEF AddsUp
  <2>4. ASSUME NEW S \in SUBSET (T \cup {x}), NEW y \in S
        PROVE  h[S] = f[y] + h[S \ {y}]
    <3>0. S \ {y} \in SUBSET (T \cup {x})
      OBVIOUS
    <3>1. CASE y = x
      BY <2>2, <3>0, <3>1
    <3>2. CASE y # x /\ x \in S
      <4>1. S \ {x} \in SUBSET T /\ y \in S \ {x} /\ (S \ {x}) \ {y} = (S \ {y}) \ {x}
        BY <2>2, <3>2
      <4>2. g[S \ {x}] = f[y] + g[(S \ {y}) \ {x}]
        <5>1. \A R \in SUBSET T : \A z \in R : g[R] = f[z] + g[R \ {z}]
          BY <2>1 DEF AddsUp
        <5>2. g[S \ {x}] = f[y] + g[(S \ {x}) \ {y}]
          BY <4>1, <5>1, Zenon
        <5>. QED  BY <4>1, <5>2, Zenon
      <4>3. h[S] = f[x] + g[S \ {x}] /\ h[S \ {y}] = f[x] + g[(S \ {y}) \ {x}]
        BY <3>0, <3>2
      <4>4. f[x] \in Int /\ f[y] \in Int /\ g[(S \ {y}) \ {x}] \in Int
        <5>1. (S \ {y}) \ {x} \in SUBSET T /\ y \in U
          BY <4>1, <2>4
        <5>. QED  BY <2>1, <5>1 DEF AddsUp
      <4>. QED  BY <4>2, <4>3, <4>4
    <3>3. CASE x \notin S
      <4>1. S \in SUBSET T /\ S \ {y} \in SUBSET T /\ x \notin S \ {y}
        BY <2>2, <3>3
      <4>2. g[S] = f[y] + g[S \ {y}]
        BY <2>1, <4>1 DEF AddsUp
      <4>. QED  BY <3>0, <3>3, <4>1, <4>2
    <3>. QED  BY <3>1, <3>2, <3>3
  <2>. HIDE DEF h
  <2>5. AddsUp(h, f, T \cup {x})
    BY <2>3, <2>4 DEF AddsUp
  <2>. QED  BY <2>5
<1>3. Good = SUBSET U
  <2>. HIDE DEF Good
  <2>1. Good \in SUBSET SUBSET U
    BY DEF Good
  <2>. QED  BY <1>1, <1>2, <2>1, InductionOverSets
<1>. QED  BY <1>3

LEMMA AdderRecurs ==
  ASSUME NEW U, NEW f, NEW g, AddsUp(g, f, U)
  PROVE  Recursion(g, f, U)
<1>1. ASSUME NEW S \in SUBSET U
      PROVE  g[S] = IF S = {} THEN 0
                    ELSE f[CHOOSE x \in S : TRUE] + g[S \ {CHOOSE x \in S : TRUE}]
  <2>1. CASE S = {}
    BY <2>1 DEF AddsUp
  <2>2. CASE S # {}
    <3>1. (CHOOSE x \in S : TRUE) \in S
      BY <2>2
    <3>. QED  BY <2>2, <3>1 DEF AddsUp
  <2>. QED  BY <2>1, <2>2
<1>2. g \in [SUBSET U -> Int]
  BY DEF AddsUp
<1>. QED  BY <1>1, <1>2 DEF Recursion

LEMMA RecursionUnique ==
  ASSUME NEW U, IsFiniteSet(U), NEW f, NEW g, NEW h, Recursion(g, f, U), Recursion(h, f, U)
  PROVE  g = h
<1>. DEFINE Bad == {S \in SUBSET U : g[S] # h[S]}
<1>1. ASSUME Bad # {} PROVE FALSE
  <2>1. PICK S \in Bad : \A x \in S : S \ {x} \notin Bad
    <3>. HIDE DEF Bad
    <3>1. Bad \in SUBSET SUBSET U
      BY DEF Bad
    <3>. QED  BY <1>1, <3>1, SmallestMember
  <2>2. S # {}
    BY DEF Recursion
  <2>. DEFINE c == CHOOSE x \in S : TRUE
  <2>3. c \in S
    BY <2>2
  <2>4. g[S] = f[c] + g[S \ {c}] /\ h[S] = f[c] + h[S \ {c}]
    BY <2>2 DEF Recursion
  <2>5. g[S \ {c}] = h[S \ {c}]
    BY <2>1, <2>3
  <2>. QED  BY <2>4, <2>5
<1>2. \A S \in SUBSET U : g[S] = h[S]
  BY <1>1
<1>. QED  BY <1>2 DEF Recursion

-----------------------------------------------------------------------------
(* Sums. *)

\* What adds up over the subsets of U is the sum, over U and over each of them.
LEMMA SumIsAdder ==
  ASSUME NEW U, IsFiniteSet(U), NEW f, NEW g, AddsUp(g, f, U), NEW S \in SUBSET U
  PROVE  Sum(f, S) = g[S]
<1>. DEFINE h == [T \in SUBSET S |-> g[T]]
<1>1. AddsUp(h, f, S)
  BY DEF AddsUp
<1>2. Recursion(h, f, S) /\ IsFiniteSet(S)
  BY <1>1, AdderRecurs, FS_Subset
<1>. HIDE DEF h
<1>3. Recursion(CHOOSE r : Recursion(r, f, S), f, S)
  BY <1>2
<1>4. (CHOOSE r : Recursion(r, f, S)) = h
  BY <1>2, <1>3, RecursionUnique
<1>. QED  BY <1>4, SumIsRecursion DEF h

\* Nothing adds up to 0, and an element taken out takes its value with it.
LEMMA SumFacts ==
  ASSUME NEW U, IsFiniteSet(U), NEW f, \A x \in U : f[x] \in Int
  PROVE  /\ Sum(f, {}) = 0
         /\ \A S \in SUBSET U : Sum(f, S) \in Int
         /\ \A S \in SUBSET U : \A x \in S : Sum(f, S) = f[x] + Sum(f, S \ {x})
<1>1. PICK g : AddsUp(g, f, U)
  BY AdderExists
<1>2. \A S \in SUBSET U : Sum(f, S) = g[S]
  BY <1>1, SumIsAdder
<1>3. \A S \in SUBSET U : \A x \in S : S \ {x} \in SUBSET U
  OBVIOUS
<1>. QED  BY <1>1, <1>2, <1>3 DEF AddsUp

LEMMA SumAdd ==
  ASSUME NEW S, IsFiniteSet(S), NEW x, x \notin S, NEW f, \A y \in S \cup {x} : f[y] \in Int
  PROVE  Sum(f, S \cup {x}) = Sum(f, S) + f[x] /\ Sum(f, S) \in Int
<1>1. IsFiniteSet(S \cup {x})
  BY FS_AddElement
<1>2. (S \cup {x}) \ {x} = S /\ S \in SUBSET (S \cup {x})
  OBVIOUS
<1>3. Sum(f, S \cup {x}) = f[x] + Sum(f, S) /\ Sum(f, S) \in Int
  BY <1>1, <1>2, SumFacts
<1>. QED  BY <1>3

\* Only the values on S count.
LEMMA SumSame ==
  ASSUME NEW S, IsFiniteSet(S), NEW f, NEW g, \A x \in S : f[x] \in Int /\ g[x] = f[x]
  PROVE  Sum(f, S) = Sum(g, S)
<1>1. PICK a : AddsUp(a, f, S)
  BY AdderExists
<1>2. AddsUp(a, g, S)
  BY <1>1 DEF AddsUp
<1>. QED  BY <1>1, <1>2, SumIsAdder

\* The sum over two sets that are apart.
LEMMA SumApart ==
  ASSUME NEW S, NEW T, IsFiniteSet(S), IsFiniteSet(T), S \cap T = {},
         NEW f, \A x \in S \cup T : f[x] \in Int
  PROVE  /\ Sum(f, S \cup T) = Sum(f, S) + Sum(f, T)
         /\ Sum(f, S) \in Int /\ Sum(f, T) \in Int
<1>. DEFINE U == S \cup T
            Good == {R \in SUBSET T : Sum(f, S \cup R) = Sum(f, S) + Sum(f, R)}
<1>1. IsFiniteSet(U)
  BY FS_Union
<1>2. /\ Sum(f, {}) = 0
      /\ \A R \in SUBSET U : Sum(f, R) \in Int
  BY <1>1, SumFacts
<1>3. {} \in Good
  <2>1. S \cup {} = S /\ S \in SUBSET U
    OBVIOUS
  <2>. QED  BY <1>2, <2>1
<1>4. ASSUME NEW R \in Good, NEW x \in T \ R
      PROVE  R \cup {x} \in Good
  <2>1. IsFiniteSet(S \cup R) /\ IsFiniteSet(R) /\ x \notin S \cup R /\ x \notin R
    BY FS_Subset, FS_Union
  <2>2. (S \cup R) \cup {x} = S \cup (R \cup {x})
    OBVIOUS
  <2>3. Sum(f, (S \cup R) \cup {x}) = Sum(f, S \cup R) + f[x]
    BY <2>1, SumAdd
  <2>4. Sum(f, R \cup {x}) = Sum(f, R) + f[x]
    BY <2>1, SumAdd
  <2>5. Sum(f, S) \in Int /\ Sum(f, R) \in Int /\ f[x] \in Int
    BY <1>2
  <2>6. Sum(f, S \cup R) = Sum(f, S) + Sum(f, R) /\ R \cup {x} \in SUBSET T
    OBVIOUS
  <2>. HIDE DEF Good
  <2>7. Sum(f, S \cup (R \cup {x})) = Sum(f, S) + Sum(f, R \cup {x})
    <3>1. Sum(f, S \cup (R \cup {x})) = (Sum(f, S) + Sum(f, R)) + f[x]
      BY <2>2, <2>3, <2>6
    <3>. QED  BY <2>4, <2>5, <3>1
  <2>. QED  BY <2>6, <2>7 DEF Good
<1>5. Good = SUBSET T
  <2>. HIDE DEF Good
  <2>1. Good \in SUBSET SUBSET T
    BY DEF Good
  <2>. QED  BY <1>3, <1>4, <2>1, InductionOverSets
<1>6. S \in SUBSET U /\ T \in SUBSET U /\ T \in Good
  BY <1>5
<1>. QED  BY <1>2, <1>6

\* The sum of values that are all the same.
LEMMA SumConstant ==
  ASSUME NEW S, IsFiniteSet(S), NEW m \in Int, NEW f, \A x \in S : f[x] = m
  PROVE  Sum(f, S) = m * Cardinality(S) /\ Cardinality(S) \in Nat
<1>. DEFINE Good == {R \in SUBSET S : Sum(f, R) = m * Cardinality(R)}
<1>1. {} \in Good
  <2>1. Sum(f, {}) = 0 /\ Cardinality({}) = 0
    BY SumFacts, FS_EmptySet
  <2>. QED  BY <2>1
<1>2. ASSUME NEW R \in Good, NEW x \in S \ R
      PROVE  R \cup {x} \in Good
  <2>1. IsFiniteSet(R) /\ x \notin R
    BY FS_Subset
  <2>2. Sum(f, R \cup {x}) = Sum(f, R) + m
    <3>1. f[x] = m /\ \A y \in R \cup {x} : f[y] \in Int
      OBVIOUS
    <3>. QED  BY <2>1, <3>1, SumAdd
  <2>3. Cardinality(R \cup {x}) = Cardinality(R) + 1 /\ Cardinality(R) \in Nat
    BY <2>1, FS_AddElement, FS_CardinalityType
  <2>4. Sum(f, R) = m * Cardinality(R) /\ R \cup {x} \in SUBSET S
    OBVIOUS
  <2>5. \A n \in Nat : m * n + m = m * (n + 1)
    OBVIOUS
  <2>. HIDE DEF Good
  <2>6. Sum(f, R \cup {x}) = m * Cardinality(R \cup {x})
    BY <2>2, <2>3, <2>4, <2>5
  <2>. QED  BY <2>4, <2>6 DEF Good
<1>3. Good = SUBSET S
  <2>. HIDE DEF Good
  <2>1. Good \in SUBSET SUBSET S
    BY DEF Good
  <2>. QED  BY <1>1, <1>2, <2>1, InductionOverSets
<1>. QED  BY <1>3, FS_CardinalityType

\* Values of 1 or more add up to the number of elements or more, and to just
\* that number only if they are all 1.
LEMMA SumAtLeast ==
  ASSUME NEW S, IsFiniteSet(S), NEW f, \A x \in S : f[x] \in Nat \ {0}
  PROVE  /\ Cardinality(S) \in Nat /\ Sum(f, S) \in Nat /\ Cardinality(S) <= Sum(f, S)
         /\ Cardinality(S) = Sum(f, S) => \A x \in S : f[x] = 1
         /\ Sum(f, S) = 0 => S = {}
<1>. DEFINE Good == {R \in SUBSET S : Cardinality(R) <= Sum(f, R)}
<1>1. /\ Sum(f, {}) = 0
      /\ \A R \in SUBSET S : Sum(f, R) \in Int /\ IsFiniteSet(R) /\ Cardinality(R) \in Nat
      /\ \A R \in SUBSET S : \A x \in R : Sum(f, R) = f[x] + Sum(f, R \ {x})
  BY SumFacts, FS_Subset, FS_CardinalityType
<1>2. {} \in Good
  BY <1>1, FS_EmptySet
<1>3. ASSUME NEW R \in Good, NEW x \in S \ R
      PROVE  R \cup {x} \in Good
  <2>1. R \in SUBSET S /\ R \cup {x} \in SUBSET S /\ Cardinality(R) <= Sum(f, R) /\ x \notin R
    OBVIOUS
  <2>2. Sum(f, R \cup {x}) = Sum(f, R) + f[x] /\ Sum(f, R) \in Int
    BY <1>1, <2>1, SumAdd
  <2>3. Cardinality(R \cup {x}) = Cardinality(R) + 1 /\ Cardinality(R) \in Nat
    BY <1>1, <2>1, FS_AddElement
  <2>4. f[x] \in Nat /\ f[x] >= 1
    OBVIOUS
  <2>. HIDE DEF Good
  <2>. QED  BY <2>1, <2>2, <2>3, <2>4 DEF Good
<1>4. Good = SUBSET S
  <2>. HIDE DEF Good
  <2>1. Good \in SUBSET SUBSET S
    BY DEF Good
  <2>. QED  BY <1>2, <1>3, <2>1, InductionOverSets
<1>5. \A R \in SUBSET S : Cardinality(R) <= Sum(f, R)
  BY <1>4
<1>6. ASSUME NEW x \in S, Cardinality(S) = Sum(f, S)
      PROVE  f[x] = 1
  <2>1. Sum(f, S) = f[x] + Sum(f, S \ {x}) /\ Cardinality(S \ {x}) <= Sum(f, S \ {x})
    BY <1>1, <1>5
  <2>2. Cardinality(S \ {x}) = Cardinality(S) - 1
    BY FS_RemoveElement
  <2>3. Sum(f, S \ {x}) \in Int /\ Cardinality(S) \in Nat /\ f[x] \in Nat /\ f[x] # 0
    BY <1>1
  <2>. QED  BY <1>6, <2>1, <2>2, <2>3
<1>7. Cardinality(S) \in Nat /\ Sum(f, S) \in Int /\ Cardinality(S) <= Sum(f, S)
  BY <1>1, <1>5
<1>8. Cardinality(S) = 0 => S = {}
  BY FS_EmptySet
<1>. QED  BY <1>6, <1>7, <1>8

=============================================================================
