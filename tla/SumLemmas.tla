------------------------------ MODULE SumLemmas ------------------------------
(***************************************************************************)
(* Lemmas about sums over finite sets, as the models form them with the    *)
(* operators of Functions and FiniteSetsExt, and about induction: a set of *)
(* counterexamples that is not empty has a least one.                      *)
(***************************************************************************)
EXTENDS Integers, FiniteSetsExt, Functions, FiniteSetTheorems, WellFoundedInduction, TLAPS

\* A set of natural numbers that is not empty has a least element.
LEMMA Least ==
    ASSUME NEW T \in SUBSET Nat, T # {}
    PROVE  \E x \in T : \A y \in T : x <= y
  <1>1. PICK x \in T : \A y \in T : <<y, x>> \notin OpToRel(<, Nat)
      BY NatLessThanWellFounded, WFMin, Zenon
  <1>2. \A y \in T : ~(y < x)
      BY <1>1 DEF OpToRel
  <1> QED BY <1>2

\* The least of some numbers.
LEMMA MinIs ==
    ASSUME NEW S \in SUBSET Int, NEW m \in S, \A y \in S : m <= y
    PROVE  Min(S) = m
  <1>1. \E x \in S : \A y \in S : x <= y
      OBVIOUS
  <1>2. Min(S) \in S /\ \A y \in S : Min(S) <= y
      BY <1>1, Zenon DEF Min
  <1>3. Min(S) <= m /\ m <= Min(S) /\ Min(S) \in Int /\ m \in Int
      BY <1>2
  <1> QED BY ONLY <1>3

\* The greatest of some numbers.
LEMMA MaxIs ==
    ASSUME NEW S \in SUBSET Int, NEW m \in S, \A y \in S : m >= y
    PROVE  Max(S) = m
  <1>1. \E x \in S : \A y \in S : x >= y
      OBVIOUS
  <1>2. Max(S) \in S /\ \A y \in S : Max(S) >= y
      BY <1>1, Zenon DEF Max
  <1>3. Max(S) >= m /\ m >= Max(S) /\ Max(S) \in Int /\ m \in Int
      BY <1>2
  <1> QED BY ONLY <1>3

\* Of some subsets of a finite set one has none that is one element less.
LEMMA LeastSubset ==
    ASSUME NEW S, IsFiniteSet(S), NEW B \in SUBSET (SUBSET S), B # {}
    PROVE  \E s \in B : \A x \in s : s \ {x} \notin B
  <1> DEFINE sizes == {Cardinality(s) : s \in B}
  <1>1. \A s \in B : IsFiniteSet(s) /\ Cardinality(s) \in Nat
      BY FS_Subset, FS_CardinalityType
  <1>2. PICK n \in sizes : \A k \in sizes : n <= k
    <2>1. sizes \in SUBSET Nat /\ sizes # {}
        BY <1>1
    <2> HIDE DEF sizes
    <2> QED BY <2>1, Least
  <1>3. PICK s \in B : n = Cardinality(s)
      BY <1>2
  <1>4. ASSUME NEW x \in s PROVE s \ {x} \notin B
    <2>1. Cardinality(s \ {x}) = Cardinality(s) - 1
        BY <1>1, <1>4, FS_RemoveElement
    <2> QED BY <1>1, <1>2, <1>3, <2>1
  <1> QED BY <1>3, <1>4

\* A function that is defined by steps along 0..N exists.
Steps(g, first, step, N) == g[0] = first /\ \A n \in 1..N : g[n] = step[<<n, g[n - 1]>>]

LEMMA Recursion ==
    ASSUME NEW X, NEW N \in Nat, NEW first \in X, NEW step \in [(1..N) \X X -> X]
    PROVE  \E g \in [0..N -> X] : Steps(g, first, step, N)
  <1> DEFINE has(k) == \E g \in [0..k -> X] : Steps(g, first, step, k)
             bad == {k \in 0..N : ~has(k)}
  <1>1. has(0)
    <2> DEFINE g == [n \in 0..0 |-> first]
    <2>1. g \in [0..0 -> X] /\ g[0] = first /\ 1..0 = {}
        OBVIOUS
    <2> HIDE DEF g
    <2>2. Steps(g, first, step, 0)
        BY <2>1 DEF Steps
    <2> QED BY <2>1, <2>2
  <1>2. ASSUME NEW k \in 0..(N - 1), has(k) PROVE has(k + 1)
    <2>1. PICK g \in [0..k -> X] : g[0] = first /\ \A n \in 1..k : g[n] = step[<<n, g[n - 1]>>]
        BY <1>2 DEF Steps
    <2> DEFINE h == [n \in 0..(k + 1) |-> IF n = k + 1 THEN step[<<n, g[k]>>] ELSE g[n]]
    <2>2. /\ \A n \in 0..k : n \in 0..(k + 1) /\ h[n] = g[n]
          /\ h[k + 1] = step[<<k + 1, g[k]>>]
        OBVIOUS
    <2>3. step[<<k + 1, g[k]>>] \in X
      <3>1. g[k] \in X /\ k + 1 \in 1..N
          OBVIOUS
      <3> QED BY <3>1
    <2>4. h \in [0..(k + 1) -> X]
        BY <2>3
    <2> HIDE DEF h
    <2>5. ASSUME NEW n \in 1..(k + 1) PROVE h[n] = step[<<n, h[n - 1]>>]
      <3>1. n - 1 \in 0..k /\ h[n - 1] = g[n - 1]
          BY <2>2
      <3>2. CASE n = k + 1
          BY <2>2, <3>1, <3>2
      <3>3. CASE n # k + 1
        <4>1. n \in 1..k
            BY <3>3
        <4> QED BY <2>1, <2>2, <3>1, <4>1
      <3> QED BY <3>2, <3>3
    <2>6. h[0] = first
        BY <2>1, <2>2
    <2>7. Steps(h, first, step, k + 1)
        BY <2>5, <2>6 DEF Steps
    <2> QED BY <2>4, <2>7
  <1> HIDE DEF has
  <1>3. bad = {}
    <2> SUFFICES ASSUME bad # {} PROVE FALSE
        OBVIOUS
    <2>1. bad \in SUBSET Nat
        OBVIOUS
    <2>2. PICK k \in bad : \A j \in bad : k <= j
        BY <2>1, Least
    <2>3. k # 0 /\ k \in 0..N /\ k - 1 \in 0..(N - 1) /\ k - 1 \notin bad /\ (k - 1) + 1 = k
        BY <1>1, <2>2
    <2> QED BY <1>2, <2>2, <2>3
  <1>4. has(N)
      BY <1>3
  <1> QED BY <1>4 DEF has

-----------------------------------------------------------------------------
\* The recursive function that a sum is defined by.

Chosen(s) == CHOOSE x \in s : TRUE

Summand(f, g, s) == IF s = {} THEN 0 ELSE f[Chosen(s)] + g[s \ {Chosen(s)}]

SumsOf(f, S) == CHOOSE g : g = [s \in SUBSET S |-> Summand(f, g, s)]

LEMMA SumIsOne == \A f, S : SumFunctionOnSet(f, S) = SumsOf(f, S)[S]
    BY Zenon DEF SumFunctionOnSet, FoldFunctionOnSet, MapThenFoldSet, SumsOf, Summand, Chosen

LEMMA ChosenIn == ASSUME NEW s, s # {} PROVE Chosen(s) \in s
    BY DEF Chosen

LEMMA SumsAre ==
    ASSUME NEW f, NEW S, IsFiniteSet(S)
    PROVE  \A s \in SUBSET S : SumsOf(f, S)[s] = Summand(f, SumsOf(f, S), s)
  <1> DEFINE upTo(n) == {s \in SUBSET S : Cardinality(s) <= n}
             has(n) == \E g : g = [s \in upTo(n) |-> Summand(f, g, s)]
             bad == {n \in Nat : ~has(n)}
  <1>1. \A s \in SUBSET S : /\ IsFiniteSet(s) /\ Cardinality(s) \in Nat
                            /\ Cardinality(s) <= Cardinality(S)
                            /\ Cardinality(s) = 0 <=> s = {}
      BY FS_Subset, FS_CardinalityType, FS_EmptySet
  <1>2. has(0)
    <2> DEFINE g == [s \in upTo(0) |-> 0]
    <2>1. \A s \in upTo(0) : s = {}
        BY <1>1
    <2>2. g = [s \in upTo(0) |-> Summand(f, g, s)]
        BY <2>1 DEF Summand
    <2> QED BY <2>2
  <1>3. ASSUME NEW n \in Nat, has(n) PROVE has(n + 1)
    <2>1. PICK g : g = [s \in upTo(n) |-> Summand(f, g, s)]
        BY <1>3
    <2> DEFINE h == [s \in upTo(n + 1) |-> Summand(f, g, s)]
    <2>2. \A s \in upTo(n) : s \in upTo(n + 1) /\ g[s] = Summand(f, g, s)
        BY <1>1, <2>1
    <2>3. \A s \in upTo(n) : h[s] = g[s]
        BY <2>2
    <2>4. ASSUME NEW s \in upTo(n + 1), s # {} PROVE s \ {Chosen(s)} \in upTo(n)
      <3>1. Cardinality(s \ {Chosen(s)}) = Cardinality(s) - 1
          BY <1>1, <2>4, ChosenIn, FS_RemoveElement
      <3> QED BY <1>1, <3>1
    <2>5. \A s \in upTo(n + 1) : Summand(f, g, s) = Summand(f, h, s)
      <3> HIDE DEF h, upTo
      <3> QED BY <2>3, <2>4 DEF Summand
    <2>6. h = [s \in upTo(n + 1) |-> Summand(f, h, s)]
      <3>1. h = [s \in upTo(n + 1) |-> Summand(f, g, s)]
          OBVIOUS
      <3> HIDE DEF h, upTo
      <3> QED BY <2>5, <3>1
    <2> HIDE DEF h
    <2> QED BY <2>6
  <1> HIDE DEF has
  <1>4. bad = {}
    <2> SUFFICES ASSUME bad # {} PROVE FALSE
        OBVIOUS
    <2>1. PICK n \in bad : \A k \in bad : n <= k
        BY Least
    <2>2. n # 0 /\ n \in Nat
        BY <1>2, <2>1
    <2>3. n - 1 \in Nat /\ n - 1 \notin bad /\ (n - 1) + 1 = n
        BY <2>1, <2>2
    <2> QED BY <1>3, <2>1, <2>3
  <1>5. has(Cardinality(S))
      BY <1>4, FS_CardinalityType
  <1>6. upTo(Cardinality(S)) = SUBSET S
      BY <1>1
  <1>7. \E g : g = [s \in SUBSET S |-> Summand(f, g, s)]
      BY <1>5, <1>6, Zenon DEF has
  <1> DEFINE g == SumsOf(f, S)
  <1>8. g = [s \in SUBSET S |-> Summand(f, g, s)]
      BY <1>7 DEF SumsOf
  <1> HIDE DEF g
  <1>9. \A s \in SUBSET S : g[s] = Summand(f, g, s)
      BY <1>8
  <1> QED BY <1>9 DEF g

\* A sum is the same as part of a larger one.
LEMMA SumsAgree ==
    ASSUME NEW f, NEW S, IsFiniteSet(S), NEW T \in SUBSET S, NEW s \in SUBSET T
    PROVE  SumsOf(f, T)[s] = SumsOf(f, S)[s]
  <1> DEFINE g == SumsOf(f, T)
             h == SumsOf(f, S)
             bad == {r \in SUBSET T : g[r] # h[r]}
  <1>1. IsFiniteSet(T)
      BY FS_Subset
  <1>3. \A r \in SUBSET T : g[r] = Summand(f, g, r) /\ h[r] = Summand(f, h, r)
    <2>1. \A r \in SUBSET T : r \in SUBSET S
        OBVIOUS
    <2> QED BY <1>1, <2>1, SumsAre
  <1> HIDE DEF g, h
  <1>4. bad = {}
    <2> SUFFICES ASSUME bad # {} PROVE FALSE
        OBVIOUS
    <2>1. PICK r \in bad : \A x \in r : r \ {x} \notin bad
        BY <1>1, LeastSubset
    <2>2. r # {}
        BY <1>3, <2>1 DEF Summand
    <2>3. g[r \ {Chosen(r)}] = h[r \ {Chosen(r)}]
        BY <2>1, <2>2, ChosenIn
    <2> QED BY <1>3, <2>1, <2>2, <2>3 DEF Summand
  <1> QED BY <1>4 DEF g, h

-----------------------------------------------------------------------------
\* What a sum is.

LEMMA SumEmpty == \A f : SumFunctionOnSet(f, {}) = 0
  <1> SUFFICES ASSUME NEW f PROVE SumFunctionOnSet(f, {}) = 0
      OBVIOUS
  <1>1. SumsOf(f, {})[{}] = Summand(f, SumsOf(f, {}), {})
      BY FS_EmptySet, SumsAre
  <1>2. SumsOf(f, {})[{}] = 0
      BY <1>1 DEF Summand
  <1> QED BY <1>2, SumIsOne

LEMMA SumChosen ==
    ASSUME NEW f, NEW S, IsFiniteSet(S), S # {}
    PROVE  SumFunctionOnSet(f, S) = f[Chosen(S)] + SumFunctionOnSet(f, S \ {Chosen(S)})
  <1> DEFINE T == S \ {Chosen(S)}
  <1>1. SumsOf(f, S)[S] = Summand(f, SumsOf(f, S), S)
      BY SumsAre
  <1>2. T \in SUBSET S
      OBVIOUS
  <1> HIDE DEF T
  <1>3. SumsOf(f, S)[T] = SumsOf(f, T)[T]
      BY <1>2, SumsAgree
  <1> QED BY <1>1, <1>3, SumIsOne DEF Summand, T

\* Sums of integers are integers, and of natural numbers natural numbers.
LEMMA SumTypes ==
    ASSUME NEW S, IsFiniteSet(S), NEW f, \A x \in S : f[x] \in Int
    PROVE  /\ SumFunctionOnSet(f, S) \in Int
           /\ (\A x \in S : f[x] \in Nat) => SumFunctionOnSet(f, S) \in Nat
  <1> DEFINE sum(s) == SumFunctionOnSet(f, s)
             fits(s) == sum(s) \in Int /\ ((\A x \in s : f[x] >= 0) => sum(s) >= 0)
             bad == {s \in SUBSET S : ~fits(s)}
  <1>1. ASSUME NEW s \in SUBSET S, s # {}, fits(s \ {Chosen(s)}) PROVE fits(s)
    <2>1. sum(s) = f[Chosen(s)] + sum(s \ {Chosen(s)})
        BY <1>1, FS_Subset, SumChosen
    <2>2. f[Chosen(s)] \in Int
        BY <1>1, ChosenIn
    <2>3. ASSUME \A x \in s : f[x] >= 0
          PROVE  f[Chosen(s)] >= 0 /\ \A x \in s \ {Chosen(s)} : f[x] >= 0
        BY <1>1, <2>3, ChosenIn
    <2> HIDE DEF sum
    <2> QED BY <1>1, <2>1, <2>2, <2>3
  <1>2. fits({})
      BY SumEmpty
  <1> HIDE DEF fits
  <1>3. bad = {}
    <2> SUFFICES ASSUME bad # {} PROVE FALSE
        OBVIOUS
    <2>1. PICK s \in bad : \A x \in s : s \ {x} \notin bad
        BY LeastSubset
    <2>2. s # {} /\ s \in SUBSET S /\ s \ {Chosen(s)} \in SUBSET S
        BY <1>2, <2>1
    <2>3. fits(s \ {Chosen(s)})
        BY <2>1, <2>2, ChosenIn
    <2> QED BY <1>1, <2>1, <2>2, <2>3
  <1>4. fits(S)
      BY <1>3
  <1> QED BY <1>4 DEF fits

\* The order in which a sum is formed does not matter.
LEMMA SumRemove ==
    ASSUME NEW S, IsFiniteSet(S), NEW f, \A y \in S : f[y] \in Int, NEW x \in S
    PROVE  SumFunctionOnSet(f, S) = f[x] + SumFunctionOnSet(f, S \ {x})
  <1> DEFINE sum(s) == SumFunctionOnSet(f, s)
             fits(s) == \A y \in s : sum(s) = f[y] + sum(s \ {y})
             bad == {s \in SUBSET S : ~fits(s)}
  <1>1. \A s \in SUBSET S : IsFiniteSet(s) /\ sum(s) \in Int
      BY FS_Subset, SumTypes
  <1>2. ASSUME NEW s \in SUBSET S, \A y \in s : fits(s \ {y}) PROVE fits(s)
    <2> SUFFICES ASSUME NEW y \in s PROVE sum(s) = f[y] + sum(s \ {y})
        OBVIOUS
    <2> DEFINE c == Chosen(s)
    <2>1. c \in s /\ sum(s) = f[c] + sum(s \ {c})
        BY <1>1, ChosenIn, SumChosen
    <2>2. CASE y # c
      <3>1. y \in s \ {c} /\ c \in s \ {y} /\ (s \ {c}) \ {y} = (s \ {y}) \ {c}
          BY <2>1, <2>2
      <3> DEFINE r == (s \ {y}) \ {c}
      <3>2. sum(s \ {c}) = f[y] + sum(r) /\ sum(s \ {y}) = f[c] + sum(r)
        <4>1. fits(s \ {c}) /\ fits(s \ {y})
            BY <1>2, <2>1
        <4> HIDE DEF sum
        <4> QED BY <3>1, <4>1
      <3>3. f[c] \in Int /\ f[y] \in Int /\ sum(r) \in Int
        <4>1. r \in SUBSET S
            OBVIOUS
        <4> QED BY <1>1, <2>1, <4>1
      <3> HIDE DEF sum, c, r
      <3> QED BY ONLY <2>1, <3>2, <3>3
    <2> QED BY <2>1, <2>2
  <1> HIDE DEF fits
  <1>3. bad = {}
    <2> SUFFICES ASSUME bad # {} PROVE FALSE
        OBVIOUS
    <2>1. PICK s \in bad : \A y \in s : s \ {y} \notin bad
        BY LeastSubset
    <2>2. s \in SUBSET S /\ \A y \in s : s \ {y} \in SUBSET S
        BY <2>1
    <2> QED BY <1>2, <2>1, <2>2
  <1>4. fits(S)
      BY <1>3
  <1> QED BY <1>4 DEF fits

\* An element more adds its value.
LEMMA SumAdd ==
    ASSUME NEW S, IsFiniteSet(S), NEW x, x \notin S, NEW f, \A y \in S \cup {x} : f[y] \in Int
    PROVE  SumFunctionOnSet(f, S \cup {x}) = f[x] + SumFunctionOnSet(f, S)
  <1>1. IsFiniteSet(S \cup {x}) /\ x \in S \cup {x} /\ (S \cup {x}) \ {x} = S
      BY FS_AddElement
  <1> QED BY <1>1, SumRemove

\* Only the values at the elements count.
LEMMA SumSame ==
    ASSUME NEW S, IsFiniteSet(S), NEW f, NEW g, \A y \in S : f[y] = g[y]
    PROVE  SumFunctionOnSet(f, S) = SumFunctionOnSet(g, S)
  <1> DEFINE bad == {s \in SUBSET S : SumFunctionOnSet(f, s) # SumFunctionOnSet(g, s)}
  <1>1. bad = {}
    <2> SUFFICES ASSUME bad # {} PROVE FALSE
        OBVIOUS
    <2>1. PICK s \in bad : \A y \in s : s \ {y} \notin bad
        BY LeastSubset
    <2>2. s \in SUBSET S /\ IsFiniteSet(s) /\ s # {}
        BY <2>1, FS_Subset, SumEmpty
    <2> DEFINE c == Chosen(s)
    <2>3. c \in s
        BY <2>2, ChosenIn
    <2>4. SumFunctionOnSet(f, s \ {c}) = SumFunctionOnSet(g, s \ {c})
      <3>1. s \ {c} \in SUBSET S
          BY <2>2
      <3> QED BY <2>1, <2>3, <3>1
    <2>5. /\ SumFunctionOnSet(f, s) = f[c] + SumFunctionOnSet(f, s \ {c})
          /\ SumFunctionOnSet(g, s) = g[c] + SumFunctionOnSet(g, s \ {c})
        BY <2>2, SumChosen
    <2>6. f[c] = g[c]
        BY <2>2, <2>3
    <2> QED BY <2>1, <2>4, <2>5, <2>6
  <1> QED BY <1>1

\* What holds between the multiples of two values everywhere holds between
\* those of the sums.
LEMMA SumCompare ==
    ASSUME NEW S, IsFiniteSet(S), NEW f, NEW g, NEW a \in Int, NEW b \in Int,
           \A y \in S : f[y] \in Int /\ g[y] \in Int /\ f[y] * a <= g[y] * b
    PROVE  SumFunctionOnSet(f, S) * a <= SumFunctionOnSet(g, S) * b
  <1> DEFINE F(s) == SumFunctionOnSet(f, s)
             G(s) == SumFunctionOnSet(g, s)
             bad == {s \in SUBSET S : ~(F(s) * a <= G(s) * b)}
  <1>1. \A s \in SUBSET S : IsFiniteSet(s) /\ F(s) \in Int /\ G(s) \in Int
      BY FS_Subset, SumTypes
  <1>2. F({}) = 0 /\ G({}) = 0
      BY SumEmpty
  <1>3. bad = {}
    <2> SUFFICES ASSUME bad # {} PROVE FALSE
        OBVIOUS
    <2>1. PICK s \in bad : \A y \in s : s \ {y} \notin bad
        BY LeastSubset
    <2>2. s \in SUBSET S /\ s # {}
        BY <1>2, <2>1
    <2> DEFINE c == Chosen(s)
               r == s \ {c}
    <2>3. c \in s /\ r \in SUBSET S
        BY <2>2, ChosenIn
    <2>4. F(s) = f[c] + F(r) /\ G(s) = g[c] + G(r)
        BY <1>1, <2>2, SumChosen
    <2>5. F(r) * a <= G(r) * b
        BY <2>1, <2>3
    <2>6. F(r) \in Int /\ G(r) \in Int /\ f[c] \in Int /\ g[c] \in Int /\ f[c] * a <= g[c] * b
        BY <1>1, <2>2, <2>3
    <2>7. ~(F(s) * a <= G(s) * b)
        BY <2>1
    <2> HIDE DEF F, G, c, r, bad
    <2>8. (f[c] + F(r)) * a = f[c] * a + F(r) * a /\ (g[c] + G(r)) * b = g[c] * b + G(r) * b
        BY ONLY <2>6, a \in Int, b \in Int
    <2>9. f[c] * a \in Int /\ F(r) * a \in Int /\ g[c] * b \in Int /\ G(r) * b \in Int
        BY ONLY <2>6, a \in Int, b \in Int
    <2> QED BY ONLY <2>4, <2>5, <2>6, <2>7, <2>8, <2>9
  <1> QED BY <1>3

\* Of finitely many values one is the greatest, and one is the least.
LEMMA HasGreatest ==
    ASSUME NEW S, IsFiniteSet(S), S # {}, NEW f, \A y \in S : f[y] \in Int
    PROVE  \E x \in S : \A y \in S : f[y] <= f[x]
  <1> DEFINE has(s) == \E x \in s : \A y \in s : f[y] <= f[x]
             bad == {s \in SUBSET S : s # {} /\ ~has(s)}
  <1>1. ASSUME NEW s \in SUBSET S, NEW x \in s, s \ {x} = {} \/ has(s \ {x}) PROVE has(s)
    <2>1. f[x] \in Int /\ \A y \in s : f[y] \in Int
        BY <1>1
    <2>2. CASE s \ {x} = {}
      <3>1. \A y \in s : y = x
          BY <2>2
      <3> QED BY <2>1, <3>1
    <2>3. CASE has(s \ {x})
      <3>1. PICK z \in s \ {x} : \A y \in s \ {x} : f[y] <= f[z]
          BY <2>3
      <3>2. \A y \in s : y = x \/ f[y] <= f[z]
          BY <3>1
      <3>3. CASE f[x] <= f[z]
          BY <3>1, <3>2, <3>3
      <3>4. CASE ~(f[x] <= f[z])
        <4>1. \A y \in s : f[y] <= f[x]
            BY <2>1, <3>1, <3>2, <3>4
        <4> QED BY <4>1
      <3> QED BY <3>3, <3>4
    <2> QED BY <1>1, <2>2, <2>3
  <1> HIDE DEF has
  <1>2. bad = {}
    <2> SUFFICES ASSUME bad # {} PROVE FALSE
        OBVIOUS
    <2>1. PICK s \in bad : \A x \in s : s \ {x} \notin bad
        BY LeastSubset
    <2>2. PICK x \in s : TRUE
        BY <2>1
    <2>3. s \ {x} \in SUBSET S /\ s \ {x} \notin bad
        BY <2>1, <2>2
    <2> QED BY <1>1, <2>1, <2>2, <2>3
  <1> QED BY <1>2 DEF has

LEMMA HasLeast ==
    ASSUME NEW S, IsFiniteSet(S), S # {}, NEW f, \A y \in S : f[y] \in Int
    PROVE  \E x \in S : \A y \in S : f[x] <= f[y]
  <1> DEFINE g == [y \in S |-> 0 - f[y]]
  <1>1. \A y \in S : g[y] \in Int /\ g[y] = 0 - f[y]
      OBVIOUS
  <1> HIDE DEF g
  <1>2. PICK x \in S : \A y \in S : g[y] <= g[x]
      BY <1>1, HasGreatest
  <1> QED BY <1>1, <1>2

\* A number more adds to the sum of a sequence.
LEMMA SumAppend ==
    ASSUME NEW n \in Nat, NEW f \in [1..n -> Int], NEW g \in [1..(n + 1) -> Int],
           \A k \in 1..n : g[k] = f[k]
    PROVE  SumFunction(g) = SumFunction(f) + g[n + 1] /\ SumFunction(f) \in Int
  <1>1. IsFiniteSet(1..n) /\ 1..(n + 1) = (1..n) \cup {n + 1} /\ n + 1 \notin 1..n
    <2>1. IsFiniteSet(1..n)
        BY FS_Interval
    <2>2. \A k : k \in 1..(n + 1) <=> k \in 1..n \/ k = n + 1
        OBVIOUS
    <2>3. 1..(n + 1) = (1..n) \cup {n + 1}
        BY <2>2
    <2> QED BY <2>1, <2>3
  <1>2. \A k \in (1..n) \cup {n + 1} : g[k] \in Int
      BY <1>1
  <1>3. SumFunctionOnSet(g, (1..n) \cup {n + 1}) = g[n + 1] + SumFunctionOnSet(g, 1..n)
      BY ONLY <1>1, <1>2, SumAdd
  <1>4. SumFunctionOnSet(g, 1..n) = SumFunctionOnSet(f, 1..n)
      BY <1>1, SumSame
  <1>5. SumFunctionOnSet(f, 1..n) \in Int
      BY <1>1, SumTypes
  <1>6. SumFunction(g) = SumFunctionOnSet(g, (1..n) \cup {n + 1})
      BY <1>1 DEF SumFunction
  <1>7. SumFunction(f) = SumFunctionOnSet(f, 1..n)
      BY DEF SumFunction
  <1>8. g[n + 1] \in Int
      BY <1>2
  <1> QED BY ONLY <1>3, <1>4, <1>5, <1>6, <1>7, <1>8

\* The sum of two functions' values is that of their sums.
LEMMA SumPlus ==
    ASSUME NEW S, IsFiniteSet(S), NEW f, NEW g, NEW h,
           \A y \in S : f[y] \in Int /\ g[y] \in Int /\ h[y] = f[y] + g[y]
    PROVE  SumFunctionOnSet(h, S) = SumFunctionOnSet(f, S) + SumFunctionOnSet(g, S)
  <1> DEFINE F(s) == SumFunctionOnSet(f, s)
             G(s) == SumFunctionOnSet(g, s)
             H(s) == SumFunctionOnSet(h, s)
             bad == {s \in SUBSET S : H(s) # F(s) + G(s)}
  <1>1. \A s \in SUBSET S : IsFiniteSet(s) /\ F(s) \in Int /\ G(s) \in Int /\ H(s) \in Int
      BY FS_Subset, SumTypes
  <1>2. F({}) = 0 /\ G({}) = 0 /\ H({}) = 0
      BY SumEmpty
  <1>3. bad = {}
    <2> SUFFICES ASSUME bad # {} PROVE FALSE
        OBVIOUS
    <2>1. PICK s \in bad : \A y \in s : s \ {y} \notin bad
        BY LeastSubset
    <2>2. s \in SUBSET S /\ s # {}
      <3>1. H({}) = F({}) + G({})
        <4> HIDE DEF F, G, H
        <4> QED BY ONLY <1>2
      <3> HIDE DEF F, G, H
      <3> QED BY <2>1, <3>1
    <2> DEFINE c == Chosen(s)
               r == s \ {c}
    <2>3. c \in s /\ r \in SUBSET S
        BY <2>2, ChosenIn
    <2>4. F(s) = f[c] + F(r) /\ G(s) = g[c] + G(r) /\ H(s) = h[c] + H(r)
        BY <1>1, <2>2, SumChosen
    <2>5. H(r) = F(r) + G(r)
        BY <2>1, <2>3
    <2>6. F(r) \in Int /\ G(r) \in Int /\ f[c] \in Int /\ g[c] \in Int /\ h[c] = f[c] + g[c]
        BY <1>1, <2>2, <2>3
    <2>7. H(s) # F(s) + G(s)
        BY <2>1
    <2> HIDE DEF F, G, H, c, r, bad
    <2> QED BY ONLY <2>4, <2>5, <2>6, <2>7
  <1> QED BY <1>3

\* Zeros add nothing.
LEMMA SumZeros ==
    ASSUME NEW S, IsFiniteSet(S), NEW T \in SUBSET S, NEW f, \A y \in S : f[y] \in Int,
           \A y \in S \ T : f[y] = 0
    PROVE  SumFunctionOnSet(f, S) = SumFunctionOnSet(f, T)
  <1> DEFINE F(s) == SumFunctionOnSet(f, s)
             bad == {s \in SUBSET S : F(s) # F(s \cap T)}
  <1>1. \A s \in SUBSET S : IsFiniteSet(s) /\ F(s) \in Int
      BY FS_Subset, SumTypes
  <1>2. bad = {}
    <2> SUFFICES ASSUME bad # {} PROVE FALSE
        OBVIOUS
    <2>1. PICK s \in bad : \A y \in s : s \ {y} \notin bad
        BY LeastSubset
    <2>2. s \in SUBSET S /\ s # {} /\ F(s) # F(s \cap T)
      <3>1. {} \cap T = {}
          OBVIOUS
      <3> QED BY <2>1, <3>1
    <2>3. PICK c \in s : TRUE
        BY <2>2
    <2> DEFINE r == s \ {c}
    <2>4. r \in SUBSET S /\ F(r) = F(r \cap T)
        BY <2>1, <2>2, <2>3
    <2>5. F(s) = f[c] + F(r)
        BY <1>1, <2>2, <2>3, SumRemove
    <2>6. f[c] \in Int /\ F(r) \in Int
        BY <1>1, <2>2, <2>3, <2>4
    <2>7. CASE c \in T
      <3>1. s \cap T \in SUBSET S /\ c \in s \cap T /\ (s \cap T) \ {c} = r \cap T
          BY <2>2, <2>3, <2>7
      <3>2. F(s \cap T) = f[c] + F((s \cap T) \ {c})
          BY <1>1, <3>1, SumRemove
      <3> QED BY <2>2, <2>4, <2>5, <3>1, <3>2
    <2>8. CASE c \notin T
      <3>1. s \cap T = r \cap T /\ f[c] = 0
          BY <2>2, <2>3, <2>8
      <3>2. F(s \cap T) = F(r \cap T)
          BY <3>1
      <3> HIDE DEF F, r
      <3> QED BY ONLY <2>2, <2>4, <2>5, <2>6, <3>1, <3>2
    <2> QED BY <2>7, <2>8
  <1>3. S \cap T = T
      OBVIOUS
  <1> QED BY <1>2, <1>3

\* Ones count.
LEMMA SumOnes ==
    ASSUME NEW S, IsFiniteSet(S), NEW f, \A y \in S : f[y] = 1
    PROVE  SumFunctionOnSet(f, S) = Cardinality(S)
  <1> DEFINE F(s) == SumFunctionOnSet(f, s)
             bad == {s \in SUBSET S : F(s) # Cardinality(s)}
  <1>1. \A s \in SUBSET S : IsFiniteSet(s) /\ Cardinality(s) \in Nat
      BY FS_Subset, FS_CardinalityType
  <1>2. bad = {}
    <2> SUFFICES ASSUME bad # {} PROVE FALSE
        OBVIOUS
    <2>1. PICK s \in bad : \A y \in s : s \ {y} \notin bad
        BY LeastSubset
    <2>2. s \in SUBSET S /\ s # {} /\ F(s) # Cardinality(s)
        BY <2>1, SumEmpty, FS_EmptySet
    <2>3. PICK c \in s : TRUE
        BY <2>2
    <2> DEFINE r == s \ {c}
    <2>4. r \in SUBSET S /\ F(r) = Cardinality(r) /\ f[c] = 1
        BY <2>1, <2>2, <2>3
    <2>5. F(s) = f[c] + F(r)
        BY <1>1, <2>2, <2>3, SumRemove
    <2>6. Cardinality(r) = Cardinality(s) - 1
        BY <1>1, <2>2, <2>3, FS_RemoveElement
    <2> QED BY <1>1, <2>2, <2>4, <2>5, <2>6
  <1> QED BY <1>2
=============================================================================
