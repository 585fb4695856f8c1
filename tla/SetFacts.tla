------------------------------ MODULE SetFacts ------------------------------
(***************************************************************************)
(* Facts about finite sets, least and greatest elements, sums over sets,   *)
(* ranks and division that the proofs about the components share.          *)
(***************************************************************************)
EXTENDS Integers, FiniteSets, FiniteSetsExt, Functions, TLAPS, WellFoundedInduction,
        FiniteSetTheorems

-----------------------------------------------------------------------------
(* Least and greatest elements *)

\* A non-empty set of natural numbers has a least element.
LEMMA NatMin ==
    ASSUME NEW S, S \subseteq Nat, S # {}
    PROVE  Min(S) \in S /\ \A y \in S : Min(S) <= y
<1>. DEFINE Less == {ss \in Nat \X Nat : ss[1] < ss[2]}
<1>1. IsWellFoundedOn(Less, Nat)
  BY NatLessThanWellFounded DEF OpToRel
<1>2. \E x \in S : \A y \in S : x <= y
  <2>. HIDE DEF Less
  <2>1. PICK x \in S : \A y \in S : ~(<<y, x>> \in Less)
    BY <1>1, WFMin
  <2>2. ASSUME NEW y \in S PROVE x <= y
    <3>1. ~(<<y, x>> \in Less)
      BY <2>1
    <3>2. y < x => <<y, x>> \in Less
      BY x \in Nat, y \in Nat DEF Less
    <3>. QED BY <3>1, <3>2, x \in Nat, y \in Nat
  <2>. QED BY <2>2
<1>. QED BY <1>2 DEF Min

\* A non-empty set of natural numbers up to n has a greatest element.
LEMMA NatMax ==
    ASSUME NEW n \in Nat, NEW S, S \subseteq 0 .. n, S # {}
    PROVE  Max(S) \in S /\ \A y \in S : Max(S) >= y
<1>. DEFINE D == {n - x : x \in S}
<1>1. D \subseteq Nat /\ D # {}
  <2>1. PICK x : x \in S
    OBVIOUS
  <2>2. n - x \in D
    BY <2>1
  <2>3. ASSUME NEW y \in S PROVE n - y \in Nat
    BY y \in 0 .. n
  <2>. QED BY <2>2, <2>3
<1>2. Min(D) \in D /\ \A y \in D : Min(D) <= y
  BY <1>1, NatMin
<1>3. PICK x \in S : Min(D) = n - x
  BY <1>2
<1>4. ASSUME NEW y \in S PROVE x >= y
  <2>1. n - x <= n - y
    BY <1>2, <1>3, n - y \in D
  <2>. QED BY <2>1, x \in 0 .. n, y \in 0 .. n
<1>. QED BY <1>3, <1>4 DEF Max

-----------------------------------------------------------------------------
(* Induction over the subsets of a finite set, as a fact about a set of sets *)

\* A set of subsets of S that contains T whenever it contains every proper
\* subset of T contains S.
LEMMA SubsetInduction ==
    ASSUME NEW S, IsFiniteSet(S), NEW Q,
           \A T \in SUBSET S : (\A U \in SUBSET T : U # T => U \in Q) => T \in Q
    PROVE  S \in Q
<1>. DEFINE Bad == {T \in SUBSET S : T \notin Q}
            R == StrictSubsetOrdering(S)
<1>. SUFFICES ASSUME Bad # {} PROVE FALSE
  OBVIOUS
<1>1. IsWellFoundedOn(R, SUBSET S)
  <2>1. FiniteSubsetsOf(S) = SUBSET S
    BY FS_FiniteSubsetsOfFinite
  <2>2. IsWellFoundedOn(StrictSubsetOrdering(S), FiniteSubsetsOf(S))
    BY FS_StrictSubsetOrderingWellFounded
  <2>. QED BY <2>1, <2>2
<1>2. PICK T \in Bad : \A U \in Bad : ~(<<U, T>> \in R)
  <2>. HIDE DEF R, Bad
  <2>1. Bad \subseteq SUBSET S
    BY DEF Bad
  <2>. QED BY <1>1, <2>1, WFMin
<1>3. ASSUME NEW U \in SUBSET T, U # T PROVE U \in Q
  <2>1. <<U, T>> \in R
    BY <1>3 DEF StrictSubsetOrdering
  <2>. QED BY <1>2, <2>1
<1>. QED BY <1>3

\* A finite non-empty set of integers has a greatest element.
LEMMA FiniteMax ==
    ASSUME NEW S, IsFiniteSet(S), S \subseteq Int, S # {}
    PROVE  Max(S) \in S /\ \A y \in S : Max(S) >= y
<1>. DEFINE Has == {T \in SUBSET S : T # {} => \E x \in T : \A y \in T : x >= y}
<1>1. ASSUME NEW T \in SUBSET S, \A U \in SUBSET T : U # T => U \in Has, T # {}
      PROVE  \E x \in T : \A y \in T : x >= y
  <2>1. PICK a : a \in T
    BY <1>1
  <2>2. CASE T = {a}
    BY <2>1, <2>2
  <2>3. CASE T # {a}
    <3>0. PICK b \in T : b # a
      BY <2>1, <2>3
    <3>1. T \ {a} \in Has /\ T \ {a} # {}
      BY <1>1, <2>1, <3>0
    <3>2. PICK x \in T \ {a} : \A y \in T \ {a} : x >= y
      BY <3>1
    <3>3. a \in Int /\ x \in Int
      BY <2>1
    <3>4. CASE x >= a
      <4>1. \A y \in T : x >= y
        BY <3>2, <3>4
      <4>. QED BY <4>1
    <3>5. CASE ~(x >= a)
      <4>1. ASSUME NEW y \in T PROVE a >= y
        BY <3>2, <3>3, <3>5, y \in Int
      <4>. QED BY <2>1, <4>1
    <3>. QED BY <3>4, <3>5
  <2>. QED BY <2>2, <2>3
<1>2. \A T \in SUBSET S : (\A U \in SUBSET T : U # T => U \in Has) => T \in Has
  BY <1>1
<1>. HIDE DEF Has
<1>3. S \in Has
  BY <1>2, SubsetInduction
<1>. QED BY <1>3 DEF Has, Max

\* A finite non-empty set of integers has a least element.
LEMMA FiniteMin ==
    ASSUME NEW S, IsFiniteSet(S), S \subseteq Int, S # {}
    PROVE  Min(S) \in S /\ \A y \in S : Min(S) <= y
<1>. DEFINE Has == {T \in SUBSET S : T # {} => \E x \in T : \A y \in T : x <= y}
<1>1. ASSUME NEW T \in SUBSET S, \A U \in SUBSET T : U # T => U \in Has, T # {}
      PROVE  \E x \in T : \A y \in T : x <= y
  <2>1. PICK a : a \in T
    BY <1>1
  <2>2. CASE T = {a}
    BY <2>1, <2>2
  <2>3. CASE T # {a}
    <3>0. PICK b \in T : b # a
      BY <2>1, <2>3
    <3>1. T \ {a} \in Has /\ T \ {a} # {}
      BY <1>1, <2>1, <3>0
    <3>2. PICK x \in T \ {a} : \A y \in T \ {a} : x <= y
      BY <3>1
    <3>3. a \in Int /\ x \in Int
      BY <2>1
    <3>4. CASE x <= a
      <4>1. \A y \in T : x <= y
        BY <3>2, <3>4
      <4>. QED BY <4>1
    <3>5. CASE ~(x <= a)
      <4>1. ASSUME NEW y \in T PROVE a <= y
        BY <3>2, <3>3, <3>5, y \in Int
      <4>. QED BY <2>1, <4>1
    <3>. QED BY <3>4, <3>5
  <2>. QED BY <2>2, <2>3
<1>2. \A T \in SUBSET S : (\A U \in SUBSET T : U # T => U \in Has) => T \in Has
  BY <1>1
<1>. HIDE DEF Has
<1>3. S \in Has
  BY <1>2, SubsetInduction
<1>. QED BY <1>3 DEF Has, Min

\* The greater of two numbers.
LEMMA PairMax ==
    ASSUME NEW a \in Int, NEW b \in Int
    PROVE  /\ Max({a, b}) \in {a, b} /\ Max({a, b}) >= a /\ Max({a, b}) >= b
           /\ Max({a, b}) = IF a > b THEN a ELSE b
<1>1. \E x \in {a, b} : \A y \in {a, b} : x >= y
  <2>1. CASE a >= b
    BY <2>1
  <2>2. CASE ~(a >= b)
    BY <2>2
  <2>. QED BY <2>1, <2>2
<1>2. Max({a, b}) \in {a, b} /\ \A y \in {a, b} : Max({a, b}) >= y
  BY <1>1 DEF Max
<1>. QED BY <1>2

-----------------------------------------------------------------------------
(* Sums *)

\* The sum of f[x] for x in S, as MapThenSumSet computes it: element by element,
\* in the order CHOOSE takes them.
SumOn(f, S) == MapThenSumSet(LAMBDA x : f[x], S)

Unfold(f, S, g) ==
    [s \in SUBSET S |-> IF s = {} THEN 0
                        ELSE LET x == CHOOSE y \in s : TRUE IN f[x] + g[s \ {x}]]

SumTable(f, S) == CHOOSE g : g = Unfold(f, S, g)

\* The sum is an entry of the table that the recursion fills.
LEMMA SumOnTable ==
    ASSUME NEW f, NEW S
    PROVE  SumOn(f, S) = SumTable(f, S)[S]
BY DEF SumOn, MapThenSumSet, MapThenFoldSet, SumTable, Unfold

\* Two tables for a finite set are the same.
LEMMA TableIsUnique ==
    ASSUME NEW f, NEW S, IsFiniteSet(S), NEW g, NEW h,
           g = Unfold(f, S, g), h = Unfold(f, S, h)
    PROVE  g = h
<1>1. ASSUME NEW T \in SUBSET S,
             \A U \in SUBSET T : U # T => g[U] = h[U]
      PROVE  g[T] = h[T]
  <2>1. CASE T = {}
    BY <2>1 DEF Unfold
  <2>2. CASE T # {}
    <3>. DEFINE x == CHOOSE y \in T : TRUE
    <3>1. x \in T
      BY <2>2
    <3>2. g[T \ {x}] = h[T \ {x}]
      BY <1>1, <3>1
    <3>3. g[T] = f[x] + g[T \ {x}]
      BY <2>2 DEF Unfold
    <3>4. h[T] = f[x] + h[T \ {x}]
      BY <2>2 DEF Unfold
    <3>. QED BY <3>2, <3>3, <3>4
  <2>. QED BY <2>1, <2>2
<1>2. ASSUME NEW T \in SUBSET S PROVE g[T] = h[T]
  <2>. DEFINE Same == {U \in SUBSET S : g[U] = h[U]}
  <2>1. IsFiniteSet(T)
    BY FS_Subset
  <2>2. \A V \in SUBSET T : (\A U \in SUBSET V : U # V => U \in Same) => V \in Same
    BY <1>1
  <2>. HIDE DEF Same
  <2>3. T \in Same
    BY <2>1, <2>2, SubsetInduction
  <2>. QED BY <2>3 DEF Same
<1>. QED BY <1>2 DEF Unfold

\* A table for S holds one for each of its subsets.
LEMMA TableOfSubset ==
    ASSUME NEW f, NEW S, NEW g, g = Unfold(f, S, g), NEW T \in SUBSET S
    PROVE  LET h == [s \in SUBSET T |-> g[s]] IN h = Unfold(f, T, h)
<1>. DEFINE h == [s \in SUBSET T |-> g[s]]
<1>1. ASSUME NEW s \in SUBSET T PROVE h[s] = Unfold(f, T, h)[s]
  <2>1. g[s] = Unfold(f, S, g)[s]
    OBVIOUS
  <2>2. CASE s = {}
    BY <2>1, <2>2 DEF Unfold
  <2>3. CASE s # {}
    <3>. DEFINE x == CHOOSE y \in s : TRUE
    <3>1. g[s] = f[x] + g[s \ {x}]
      BY <2>1, <2>3 DEF Unfold
    <3>2. Unfold(f, T, h)[s] = f[x] + h[s \ {x}]
      BY <2>3 DEF Unfold
    <3>3. h[s \ {x}] = g[s \ {x}]
      OBVIOUS
    <3>. QED BY <3>1, <3>2, <3>3
  <2>. QED BY <2>2, <2>3
<1>2. h = [s \in SUBSET T |-> h[s]] /\ Unfold(f, T, h) = [s \in SUBSET T |-> Unfold(f, T, h)[s]]
  BY DEF Unfold
<1>. HIDE DEF h
<1>3. h = Unfold(f, T, h)
  BY <1>1, <1>2
<1>. QED BY <1>3 DEF h

\* A finite set has a table: the recursion is well-founded.
LEMMA TableExists ==
    ASSUME NEW f, NEW S, IsFiniteSet(S)
    PROVE  SumTable(f, S) = Unfold(f, S, SumTable(f, S))
<1>. DEFINE Has == {T \in SUBSET S : \E g : g = Unfold(f, T, g)}
<1>1. ASSUME NEW T \in SUBSET S, \A U \in SUBSET T : U # T => U \in Has
      PROVE  \E g : g = Unfold(f, T, g)
  <2>. DEFINE tab(u) == SumTable(f, u)[u]
              h == [s \in SUBSET T |->
                      IF s = {} THEN 0
                      ELSE LET x == CHOOSE y \in s : TRUE IN f[x] + tab(s \ {x})]
  <2>1. ASSUME NEW U \in SUBSET T, U # T
        PROVE  SumTable(f, U) = Unfold(f, U, SumTable(f, U))
    BY <1>1, <2>1 DEF SumTable
  <2>2. ASSUME NEW u \in SUBSET T, u # T PROVE h[u] = tab(u)
    <3>1. CASE u = {}
      <4>1. SumTable(f, u)[u] = 0
        BY <2>1, <2>2, <3>1 DEF Unfold
      <4>. QED BY <3>1, <4>1
    <3>2. CASE u # {}
      <4>. DEFINE x == CHOOSE y \in u : TRUE
                  v == u \ {x}
                  r == [s \in SUBSET v |-> SumTable(f, u)[s]]
      <4>1. x \in u /\ v \in SUBSET u /\ v \in SUBSET T /\ v # T
        BY <3>2
      <4>2. h[u] = f[x] + tab(v)
        BY <3>2
      <4>3. tab(u) = f[x] + SumTable(f, u)[v]
        <5>1. SumTable(f, u) = Unfold(f, u, SumTable(f, u))
          BY <2>1, <2>2
        <5>2. Unfold(f, u, SumTable(f, u))[u] = f[x] + SumTable(f, u)[v]
          BY <3>2 DEF Unfold
        <5>. HIDE DEF x, v
        <5>. QED BY <5>1, <5>2
      <4>4. r = Unfold(f, v, r)
        <5>1. SumTable(f, u) = Unfold(f, u, SumTable(f, u))
          BY <2>1, <2>2
        <5>. HIDE DEF x, v
        <5>. QED BY <4>1, <5>1, TableOfSubset
      <4>5. SumTable(f, v) = Unfold(f, v, SumTable(f, v))
        BY <2>1, <4>1
      <4>6. IsFiniteSet(v)
        BY <4>1, FS_Subset
      <4>. HIDE DEF x, v, h, tab
      <4>7. r = SumTable(f, v)
        <5>. HIDE DEF r
        <5>. QED BY <4>4, <4>5, <4>6, TableIsUnique
      <4>8. SumTable(f, u)[v] = SumTable(f, v)[v]
        BY <4>7
      <4>. QED BY <4>2, <4>3, <4>8 DEF tab
    <3>. QED BY <3>1, <3>2
  <2>3. ASSUME NEW s \in SUBSET T PROVE h[s] = Unfold(f, T, h)[s]
    <3>1. CASE s = {}
      BY <3>1 DEF Unfold
    <3>2. CASE s # {}
      <4>. DEFINE x == CHOOSE y \in s : TRUE
      <4>1. x \in s /\ s \ {x} \in SUBSET T /\ s \ {x} # T
        BY <3>2
      <4>2. h[s] = f[x] + tab(s \ {x})
        BY <3>2
      <4>3. Unfold(f, T, h)[s] = f[x] + h[s \ {x}]
        BY <3>2 DEF Unfold
      <4>4. h[s \ {x}] = tab(s \ {x})
        BY <2>2, <4>1
      <4>. HIDE DEF h, x, tab
      <4>. QED BY <4>2, <4>3, <4>4
    <3>. QED BY <3>1, <3>2
  <2>4. /\ h = [s \in SUBSET T |-> h[s]]
        /\ Unfold(f, T, h) = [s \in SUBSET T |-> Unfold(f, T, h)[s]]
    BY DEF Unfold
  <2>. HIDE DEF h
  <2>5. h = Unfold(f, T, h)
    BY <2>3, <2>4
  <2>. QED BY <2>5
<1>2. \A T \in SUBSET S : (\A U \in SUBSET T : U # T => U \in Has) => T \in Has
  BY <1>1
<1>. HIDE DEF Has
<1>3. S \in Has
  BY <1>2, SubsetInduction
<1>. QED BY <1>3 DEF Has, SumTable

\* Nothing sums to 0.
LEMMA SumOfNothing == \A f : SumOn(f, {}) = 0
<1>. SUFFICES ASSUME NEW f PROVE SumOn(f, {}) = 0
  OBVIOUS
<1>1. SumTable(f, {}) = Unfold(f, {}, SumTable(f, {}))
  BY TableExists, FS_EmptySet
<1>2. Unfold(f, {}, SumTable(f, {}))[{}] = 0
  BY DEF Unfold
<1>. QED BY <1>1, <1>2, SumOnTable

\* The table's entry for a subset is the subset's sum.
LEMMA SumOfSubset ==
    ASSUME NEW f, NEW S, IsFiniteSet(S), NEW T \in SUBSET S
    PROVE  SumTable(f, S)[T] = SumOn(f, T)
<1>. DEFINE r == [s \in SUBSET T |-> SumTable(f, S)[s]]
<1>1. IsFiniteSet(T)
  BY FS_Subset
<1>2. r = Unfold(f, T, r)
  BY TableExists, TableOfSubset, SMTT(60)
<1>3. SumTable(f, T) = Unfold(f, T, SumTable(f, T))
  BY <1>1, TableExists
<1>4. r = SumTable(f, T)
  <2>. HIDE DEF r
  <2>. QED BY <1>1, <1>2, <1>3, TableIsUnique
<1>5. SumTable(f, S)[T] = SumTable(f, T)[T]
  BY <1>4
<1>. QED BY <1>5, SumOnTable

\* A sum is its chosen element's value and the sum of the rest.
LEMMA SumStep ==
    ASSUME NEW f, NEW S, IsFiniteSet(S), S # {}
    PROVE  LET x == CHOOSE y \in S : TRUE IN SumOn(f, S) = f[x] + SumOn(f, S \ {x})
<1>. DEFINE x == CHOOSE y \in S : TRUE
<1>1. SumTable(f, S) = Unfold(f, S, SumTable(f, S))
  BY TableExists
<1>2. Unfold(f, S, SumTable(f, S))[S] = f[x] + SumTable(f, S)[S \ {x}]
  BY DEF Unfold
<1>3. S \ {x} \in SUBSET S
  OBVIOUS
<1>. HIDE DEF x
<1>4. SumTable(f, S)[S \ {x}] = SumOn(f, S \ {x})
  BY <1>3, SumOfSubset
<1>5. SumOn(f, S) = f[x] + SumOn(f, S \ {x})
  BY <1>1, <1>2, <1>4, SumOnTable
<1>. QED BY <1>5 DEF x

\* A sum of natural numbers is one.
LEMMA SumType ==
    ASSUME NEW f, NEW S, IsFiniteSet(S), \A x \in S : f[x] \in Nat
    PROVE  SumOn(f, S) \in Nat
<1>. DEFINE Typed == {T \in SUBSET S : SumOn(f, T) \in Nat}
<1>1. ASSUME NEW T \in SUBSET S, \A U \in SUBSET T : U # T => U \in Typed
      PROVE  T \in Typed
  <2>1. CASE T = {}
    BY <2>1, SumOfNothing
  <2>2. CASE T # {}
    <3>. DEFINE x == CHOOSE y \in T : TRUE
    <3>1. x \in T /\ f[x] \in Nat
      BY <2>2
    <3>2. SumOn(f, T \ {x}) \in Nat
      BY <1>1, <3>1
    <3>3. IsFiniteSet(T)
      BY FS_Subset
    <3>4. SumOn(f, T) = f[x] + SumOn(f, T \ {x})
      BY <2>2, <3>3, SumStep
    <3>. HIDE DEF x
    <3>. QED BY <3>1, <3>2, <3>4
  <2>. QED BY <2>1, <2>2
<1>2. \A T \in SUBSET S : (\A U \in SUBSET T : U # T => U \in Typed) => T \in Typed
  BY <1>1
<1>. HIDE DEF Typed
<1>3. S \in Typed
  BY <1>2, SubsetInduction
<1>. QED BY <1>3 DEF Typed

\* The order does not matter: any element can be taken out.
LEMMA SumRemove ==
    ASSUME NEW f, NEW S, IsFiniteSet(S), \A x \in S : f[x] \in Nat, NEW a \in S
    PROVE  SumOn(f, S) = f[a] + SumOn(f, S \ {a})
<1>. DEFINE Free == {T \in SUBSET S : \A x \in T : SumOn(f, T) = f[x] + SumOn(f, T \ {x})}
<1>1. ASSUME NEW T \in SUBSET S, \A U \in SUBSET T : U # T => U \in Free,
             NEW x \in T
      PROVE  SumOn(f, T) = f[x] + SumOn(f, T \ {x})
  <2>. DEFINE c == CHOOSE y \in T : TRUE
  <2>1. c \in T
    OBVIOUS
  <2>2. IsFiniteSet(T)
    BY FS_Subset
  <2>3. SumOn(f, T) = f[c] + SumOn(f, T \ {c})
    BY <2>2, SumStep
  <2>. HIDE DEF c
  <2>4. CASE x = c
    BY <2>3, <2>4
  <2>5. CASE x # c
    <3>. DEFINE rest == (T \ {c}) \ {x}
    <3>1. SumOn(f, T \ {c}) = f[x] + SumOn(f, rest)
      BY <1>1, <2>1, <2>5
    <3>2. SumOn(f, T \ {x}) = f[c] + SumOn(f, rest)
      <4>1. T \ {x} \in Free /\ c \in T \ {x}
        BY <1>1, <2>1, <2>5
      <4>2. (T \ {x}) \ {c} = rest
        OBVIOUS
      <4>. QED BY <4>1, <4>2
    <3>3. SumOn(f, rest) \in Nat
      <4>1. IsFiniteSet(rest)
        BY <2>2, FS_Subset
      <4>2. \A y \in rest : f[y] \in Nat
        OBVIOUS
      <4>. HIDE DEF rest
      <4>. QED BY <4>1, <4>2, SumType
    <3>4. f[x] \in Nat /\ f[c] \in Nat
      BY <2>1
    <3>. HIDE DEF rest
    <3>. QED BY <2>3, <3>1, <3>2, <3>3, <3>4
  <2>. QED BY <2>4, <2>5
<1>2. \A T \in SUBSET S : (\A U \in SUBSET T : U # T => U \in Free) => T \in Free
  BY <1>1
<1>. HIDE DEF Free
<1>3. S \in Free
  BY <1>2, SubsetInduction
<1>. QED BY <1>3 DEF Free

\* A part sums to no more than the whole.
LEMMA SumMonotone ==
    ASSUME NEW f, NEW S, IsFiniteSet(S), \A x \in S : f[x] \in Nat, NEW T \in SUBSET S
    PROVE  SumOn(f, T) <= SumOn(f, S)
<1>. DEFINE Above == {U \in SUBSET S : T \subseteq U => SumOn(f, T) <= SumOn(f, U)}
<1>1. ASSUME NEW U \in SUBSET S, \A V \in SUBSET U : V # U => V \in Above,
             T \subseteq U
      PROVE  SumOn(f, T) <= SumOn(f, U)
  <2>1. IsFiniteSet(U) /\ \A x \in U : f[x] \in Nat
    BY FS_Subset
  <2>2. IsFiniteSet(T) /\ \A x \in T : f[x] \in Nat
    BY FS_Subset
  <2>3. SumOn(f, T) \in Nat
    BY <2>2, SumType
  <2>4. CASE T = U
    BY <2>3, <2>4
  <2>5. CASE T # U
    <3>1. PICK x \in U : x \notin T
      BY <1>1, <2>5
    <3>2. SumOn(f, T) <= SumOn(f, U \ {x})
      BY <1>1, <3>1
    <3>3. SumOn(f, U) = f[x] + SumOn(f, U \ {x})
      BY <2>1, SumRemove
    <3>4. IsFiniteSet(U \ {x})
      BY <2>1, FS_RemoveElement
    <3>5. SumOn(f, U \ {x}) \in Nat
      BY <2>1, <3>4, SumType
    <3>6. f[x] \in Nat
      BY <2>1
    <3>. QED BY <2>3, <3>2, <3>3, <3>5, <3>6
  <2>. QED BY <2>4, <2>5
<1>2. \A U \in SUBSET S : (\A V \in SUBSET U : V # U => V \in Above) => U \in Above
  BY <1>1
<1>. HIDE DEF Above
<1>3. S \in Above
  BY <1>2, SubsetInduction
<1>. QED BY <1>3 DEF Above

\* The library's sum of a function over a set of indices is the same sum.
LEMMA SumFunctionIsSum == \A f, S : SumFunctionOnSet(f, S) = SumOn(f, S)
BY DEF SumFunctionOnSet, FoldFunctionOnSet, MapThenFoldSet, SumOn, MapThenSumSet

\* A sum depends on the values in the set only.
LEMMA SumSame ==
    ASSUME NEW f, NEW g, NEW S, IsFiniteSet(S), \A x \in S : f[x] = g[x]
    PROVE  SumOn(f, S) = SumOn(g, S)
<1>. DEFINE Same == {T \in SUBSET S : SumOn(f, T) = SumOn(g, T)}
<1>1. ASSUME NEW T \in SUBSET S, \A U \in SUBSET T : U # T => U \in Same
      PROVE  SumOn(f, T) = SumOn(g, T)
  <2>1. CASE T = {}
    BY <2>1, SumOfNothing
  <2>2. CASE T # {}
    <3>. DEFINE x == CHOOSE y \in T : TRUE
    <3>1. x \in T /\ IsFiniteSet(T)
      BY <2>2, FS_Subset
    <3>2. SumOn(f, T) = f[x] + SumOn(f, T \ {x}) /\ SumOn(g, T) = g[x] + SumOn(g, T \ {x})
      BY <2>2, <3>1, SumStep
    <3>. HIDE DEF x
    <3>3. SumOn(f, T \ {x}) = SumOn(g, T \ {x}) /\ f[x] = g[x]
      BY <1>1, <3>1
    <3>. QED BY <3>2, <3>3
  <2>. QED BY <2>1, <2>2
<1>2. \A T \in SUBSET S : (\A U \in SUBSET T : U # T => U \in Same) => T \in Same
  BY <1>1
<1>. HIDE DEF Same
<1>3. S \in Same
  BY <1>2, SubsetInduction
<1>. QED BY <1>3 DEF Same

\* Equal values sum to their number times the value.
LEMMA SumOfEqual ==
    ASSUME NEW v \in Nat, NEW f, NEW S, IsFiniteSet(S), \A x \in S : f[x] = v
    PROVE  SumOn(f, S) = Cardinality(S) * v
<1>. DEFINE Even == {T \in SUBSET S : SumOn(f, T) = Cardinality(T) * v}
<1>1. ASSUME NEW T \in SUBSET S, \A U \in SUBSET T : U # T => U \in Even
      PROVE  SumOn(f, T) = Cardinality(T) * v
  <2>1. CASE T = {}
    BY <2>1, SumOfNothing, FS_EmptySet
  <2>2. CASE T # {}
    <3>. DEFINE x == CHOOSE y \in T : TRUE
    <3>1. x \in T /\ IsFiniteSet(T)
      BY <2>2, FS_Subset
    <3>2. SumOn(f, T) = f[x] + SumOn(f, T \ {x})
      BY <2>2, <3>1, SumStep
    <3>. HIDE DEF x
    <3>3. SumOn(f, T \ {x}) = Cardinality(T \ {x}) * v /\ f[x] = v
      BY <1>1, <3>1
    <3>4. IsFiniteSet(T \ {x}) /\ Cardinality(T \ {x}) = Cardinality(T) - 1
      BY <3>1, FS_RemoveElement
    <3>5. PICK n \in Nat : n = Cardinality(T \ {x})
      BY <3>4, FS_CardinalityType
    <3>6. Cardinality(T) \in Nat
      BY <3>1, FS_CardinalityType
    <3>7. Cardinality(T) = n + 1
      BY <3>4, <3>5, <3>6
    <3>8. SumOn(f, T) = v + n * v
      BY <3>2, <3>3, <3>5
    <3>. QED BY <3>7, <3>8
  <2>. QED BY <2>1, <2>2
<1>2. \A T \in SUBSET S : (\A U \in SUBSET T : U # T => U \in Even) => T \in Even
  BY <1>1
<1>. HIDE DEF Even
<1>3. S \in Even
  BY <1>2, SubsetInduction
<1>. QED BY <1>3 DEF Even

\* Multiples of a number sum to one.
LEMMA SumOfMultiples ==
    ASSUME NEW v \in Nat, NEW f, NEW S, IsFiniteSet(S), \A x \in S : f[x] \in {0, v}
    PROVE  \E j \in Nat : SumOn(f, S) = v * j
<1>. DEFINE Whole == {T \in SUBSET S : \E j \in Nat : SumOn(f, T) = v * j}
<1>1. ASSUME NEW T \in SUBSET S, \A U \in SUBSET T : U # T => U \in Whole
      PROVE  \E j \in Nat : SumOn(f, T) = v * j
  <2>1. CASE T = {}
    <3>1. SumOn(f, T) = v * 0
      BY <2>1, SumOfNothing
    <3>. QED BY <3>1
  <2>2. CASE T # {}
    <3>. DEFINE x == CHOOSE y \in T : TRUE
    <3>1. x \in T /\ IsFiniteSet(T)
      BY <2>2, FS_Subset
    <3>2. SumOn(f, T) = f[x] + SumOn(f, T \ {x})
      BY <2>2, <3>1, SumStep
    <3>. HIDE DEF x
    <3>3. PICK j \in Nat : SumOn(f, T \ {x}) = v * j
      BY <1>1, <3>1
    <3>4. CASE f[x] = v
      <4>1. SumOn(f, T) = v + v * j
        BY <3>2, <3>3, <3>4
      <4>2. SumOn(f, T) = v * (j + 1) /\ j + 1 \in Nat
        BY <4>1
      <4>. QED BY <4>2
    <3>5. CASE f[x] = 0
      <4>1. SumOn(f, T) = 0 + v * j /\ v * j \in Nat
        BY <3>2, <3>3, <3>5
      <4>. QED BY <4>1
    <3>. QED BY <3>1, <3>4, <3>5
  <2>. QED BY <2>1, <2>2
<1>2. \A T \in SUBSET S : (\A U \in SUBSET T : U # T => U \in Whole) => T \in Whole
  BY <1>1
<1>. HIDE DEF Whole
<1>3. S \in Whole
  BY <1>2, SubsetInduction
<1>. QED BY <1>3 DEF Whole

-----------------------------------------------------------------------------
(* Elements in order *)

\* The place of b in S, from the least element on.
Rank(S, b) == Cardinality({x \in S : x <= b})

\* A greater element has a higher rank.
LEMMA RankGrows ==
    ASSUME NEW S, IsFiniteSet(S), S \subseteq Int, NEW a \in S, NEW b \in S, a < b
    PROVE  Rank(S, a) < Rank(S, b)
<1>. DEFINE A == {x \in S : x <= a}
            B == {x \in S : x <= b}
<1>1. A \in SUBSET B /\ b \in B /\ b \notin A /\ B \subseteq S
  <2>1. a \in Int /\ b \in Int
    OBVIOUS
  <2>2. ASSUME NEW x \in A PROVE x \in B
    <3>1. x \in S /\ x <= a
      OBVIOUS
    <3>2. x \in Int
      BY <3>1
    <3>3. x <= b
      BY <2>1, <3>1, <3>2
    <3>. QED BY <3>1, <3>3
  <2>3. b \in B /\ b \notin A
    BY <2>1
  <2>. QED BY <2>2, <2>3
<1>. HIDE DEF A, B
<1>2. IsFiniteSet(B)
  BY <1>1, FS_Subset
<1>3. Cardinality(A) <= Cardinality(B) /\ Cardinality(A) # Cardinality(B) /\ IsFiniteSet(A)
  BY <1>1, <1>2, FS_Subset
<1>4. Cardinality(A) \in Nat /\ Cardinality(B) \in Nat
  BY <1>2, <1>3, FS_CardinalityType
<1>5. Cardinality(A) < Cardinality(B)
  BY <1>3, <1>4
<1>. QED BY <1>5 DEF Rank, A, B

\* Every place is taken.
LEMMA RanksAreTaken ==
    ASSUME NEW S, IsFiniteSet(S), S \subseteq Int
    PROVE  /\ \A b \in S : Rank(S, b) \in 1 .. Cardinality(S)
           /\ \A i \in 1 .. Cardinality(S) : \E b \in S : Rank(S, b) = i
<1>1. ASSUME NEW b \in S PROVE Rank(S, b) \in 1 .. Cardinality(S)
  <2>. DEFINE B == {x \in S : x <= b}
  <2>1. b \in B /\ B \in SUBSET S
    BY b \in Int
  <2>. HIDE DEF B
  <2>2. IsFiniteSet(B) /\ Cardinality(B) <= Cardinality(S)
    BY <2>1, FS_Subset
  <2>3. Cardinality(B) \in Nat /\ Cardinality(B) # 0 /\ Cardinality(S) \in Nat
    BY <2>1, <2>2, FS_CardinalityType, FS_EmptySet
  <2>4. Cardinality(B) \in 1 .. Cardinality(S)
    BY <2>2, <2>3
  <2>. QED BY <2>4 DEF Rank, B
<1>2. PICK n \in Nat : n = Cardinality(S)
  BY FS_CardinalityType
<1>3. PICK f : f = [b \in S |-> Rank(S, b)]
  OBVIOUS
<1>4. f \in [S -> 1 .. n]
  BY <1>1, <1>2, <1>3
<1>5. ASSUME NEW a \in S, NEW b \in S, f[a] = f[b] PROVE a = b
  <2>1. Rank(S, a) = Rank(S, b) /\ Rank(S, a) \in Int
    BY <1>1, <1>2, <1>3, <1>5
  <2>2. a < b => Rank(S, a) < Rank(S, b)
    BY RankGrows
  <2>3. b < a => Rank(S, b) < Rank(S, a)
    BY RankGrows
  <2>. QED BY <2>1, <2>2, <2>3, a \in Int, b \in Int
<1>6. f \in Injection(S, 1 .. n)
  BY <1>4, <1>5 DEF Injection, IsInjective
<1>7. IsFiniteSet(1 .. n) /\ Cardinality(1 .. n) = n
  BY FS_Interval
<1>8. f \in Surjection(S, 1 .. n)
  BY <1>2, <1>6, <1>7, FS_Injection
<1>9. \A i \in 1 .. n : \E b \in S : f[b] = i
  BY <1>8 DEF Surjection
<1>. QED BY <1>1, <1>2, <1>3, <1>9

-----------------------------------------------------------------------------
(* Division *)

\* A product is divided by its factor without a rest.
LEMMA ExactDivision ==
    ASSUME NEW n \in Int, n > 0, NEW q \in Int
    PROVE  (n * q) \div n = q
BY Z3

\* A number without a rest is a multiple.
LEMMA ExactMultiple ==
    ASSUME NEW n \in Int, n > 0, NEW a \in Int, a % n = 0
    PROVE  a = n * (a \div n) /\ a \div n \in Int
BY Z3

=============================================================================
