---------------------------- MODULE FrontEndProofs ----------------------------
(***************************************************************************)
(* Proofs that the graphs of a tab are complete and on one scale, that     *)
(* they show the CPUs selected and that a comparison of settings shows     *)
(* what differs, for any reports, any tabs opened in any order and any     *)
(* delay of the callbacks.                                                 *)
(***************************************************************************)
EXTENDS FrontEnd, SequenceTheorems, SumLemmas

-----------------------------------------------------------------------------
\* The elements of sequences.

LEMMA SeqFacts ==
    ASSUME NEW X, NEW s \in Seq(X)
    PROVE  /\ Len(s) \in Nat /\ DOMAIN s = 1..Len(s) /\ ToSet(s) \in SUBSET X
           /\ \A i \in 1..Len(s) : s[i] \in X /\ s[i] \in ToSet(s)
  <1>1. Len(s) \in Nat /\ DOMAIN s = 1..Len(s) /\ \A i \in 1..Len(s) : s[i] \in X
      OBVIOUS
  <1> QED BY <1>1 DEF ToSet

LEMMA Appended ==
    ASSUME NEW X, NEW s \in Seq(X), NEW x \in X
    PROVE  Append(s, x) \in Seq(X) /\ ToSet(Append(s, x)) = ToSet(s) \cup {x}
  <1> DEFINE t == Append(s, x)
  <1>1. /\ t \in Seq(X) /\ Len(t) = Len(s) + 1 /\ t[Len(s) + 1] = x
        /\ \A i \in 1..Len(s) : t[i] = s[i]
      BY AppendProperties
  <1>2. Len(s) \in Nat /\ DOMAIN s = 1..Len(s) /\ DOMAIN t = 1..(Len(s) + 1)
      BY <1>1, SeqFacts
  <1> HIDE DEF t
  <1>3. ToSet(t) = ToSet(s) \cup {x}
    <2>1. ASSUME NEW y \in ToSet(t) PROVE y \in ToSet(s) \cup {x}
      <3>1. PICK i \in 1..(Len(s) + 1) : y = t[i]
          BY <1>2 DEF ToSet
      <3>2. CASE i = Len(s) + 1
          BY <1>1, <3>1, <3>2
      <3>3. CASE i # Len(s) + 1
        <4>1. i \in 1..Len(s)
            BY <1>2, <3>3
        <4> QED BY <1>1, <1>2, <3>1, <4>1 DEF ToSet
      <3> QED BY <3>2, <3>3
    <2>2. ToSet(s) \cup {x} \in SUBSET ToSet(t)
      <3>1. \A i \in 1..Len(s) : i \in 1..(Len(s) + 1)
          BY <1>2
      <3>2. Len(s) + 1 \in 1..(Len(s) + 1)
          BY <1>2
      <3> QED BY <1>1, <1>2, <3>1, <3>2 DEF ToSet
    <2> QED BY <2>1, <2>2
  <1> QED BY <1>1, <1>3 DEF t

LEMMA Joined ==
    ASSUME NEW X, NEW s \in Seq(X), NEW t \in Seq(X)
    PROVE  s \o t \in Seq(X) /\ ToSet(s \o t) = ToSet(s) \cup ToSet(t)
  <1> DEFINE u == s \o t
             m == Len(s)
             n == Len(t)
  <1>1. m \in Nat /\ n \in Nat /\ DOMAIN s = 1..m /\ DOMAIN t = 1..n
      BY SeqFacts
  <1>2. u \in Seq(X) /\ Len(u) = m + n
        /\ \A i \in 1..(m + n) : u[i] = IF i <= m THEN s[i] ELSE t[i - m]
      BY ConcatProperties
  <1>3. DOMAIN u = 1..(m + n)
      BY <1>2, SeqFacts
  <1> HIDE DEF u, m, n
  <1>4. ASSUME NEW y \in ToSet(u) PROVE y \in ToSet(s) \cup ToSet(t)
    <2>1. PICK i \in 1..(m + n) : y = u[i]
        BY <1>3 DEF ToSet
    <2>2. CASE i <= m
      <3>1. i \in 1..m
          BY <1>1, <2>2
      <3> QED BY <1>1, <1>2, <2>1, <2>2, <3>1 DEF ToSet
    <2>3. CASE ~(i <= m)
      <3>1. i - m \in 1..n
          BY <1>1, <2>3
      <3> QED BY <1>1, <1>2, <2>1, <2>3, <3>1 DEF ToSet
    <2> QED BY <2>2, <2>3
  <1>5. ASSUME NEW y \in ToSet(s) PROVE y \in ToSet(u)
    <2>1. PICK i \in 1..m : y = s[i]
        BY <1>1 DEF ToSet
    <2>2. i \in 1..(m + n) /\ i <= m
        BY <1>1
    <2> QED BY <1>2, <1>3, <2>1, <2>2 DEF ToSet
  <1>6. ASSUME NEW y \in ToSet(t) PROVE y \in ToSet(u)
    <2>1. PICK i \in 1..n : y = t[i]
        BY <1>1 DEF ToSet
    <2>2. i + m \in 1..(m + n) /\ ~(i + m <= m) /\ (i + m) - m = i
        BY <1>1
    <2>3. u[i + m] = t[i]
        BY <1>2, <2>2
    <2> QED BY <1>3, <2>1, <2>2, <2>3 DEF ToSet
  <1>7. ToSet(u) = ToSet(s) \cup ToSet(t)
      BY <1>4, <1>5, <1>6
  <1> QED BY <1>2, <1>7 DEF u

\* The oldest callback and the others.
LEMMA Rest ==
    ASSUME NEW X, NEW s \in Seq(X), s # <<>>
    PROVE  Tail(s) \in Seq(X) /\ Head(s) \in ToSet(s) /\ ToSet(s) = {Head(s)} \cup ToSet(Tail(s))
  <1> DEFINE t == Tail(s)
             n == Len(s)
  <1>1. n \in Nat \ {0} /\ DOMAIN s = 1..n /\ Head(s) = s[1] /\ t \in Seq(X) /\ Len(t) = n - 1
      BY SeqFacts
  <1>2. \A i \in 1..(n - 1) : t[i] = s[i + 1]
      BY <1>1
  <1>3. DOMAIN t = 1..(n - 1)
      BY <1>1, SeqFacts
  <1> HIDE DEF t, n
  <1>4. ASSUME NEW y \in ToSet(s) PROVE y = s[1] \/ y \in ToSet(t)
    <2>1. PICK i \in 1..n : y = s[i]
        BY <1>1 DEF ToSet
    <2>2. CASE i # 1
      <3>1. i - 1 \in 1..(n - 1) /\ (i - 1) + 1 = i
          BY <1>1, <2>2
      <3> QED BY <1>2, <1>3, <2>1, <3>1 DEF ToSet
    <2> QED BY <2>1, <2>2
  <1>5. ASSUME NEW y \in ToSet(t) PROVE y \in ToSet(s)
    <2>1. PICK i \in 1..(n - 1) : y = t[i]
        BY <1>3 DEF ToSet
    <2>2. i + 1 \in 1..n
        BY <1>1
    <2> QED BY <1>1, <1>2, <2>1, <2>2 DEF ToSet
  <1>6. s[1] \in ToSet(s)
      BY <1>1 DEF ToSet
  <1> QED BY <1>1, <1>4, <1>5, <1>6 DEF t

\* What is kept of a sequence.
LEMMA KeptIs ==
    ASSUME NEW X, NEW s \in Seq(X), NEW S
    PROVE  Kept(s, S) \in Seq(X) /\ ToSet(Kept(s, S)) = ToSet(s) \cap S
  <1> DEFINE N == Len(s)
             T == Seq(X)
             After(g, n) == IF n = 0 THEN <<>> ELSE KeptIf(g[n - 1], s[n], S)
             kept == CHOOSE g : g = [n \in 0..N |-> After(g, n)]
             step == [p \in (1..N) \X T |-> KeptIf(p[2], s[p[1]], S)]
             upTo(n) == {s[i] : i \in 1..n}
             fits(n) == kept[n] \in T /\ ToSet(kept[n]) = upTo(n) \cap S
             bad == {n \in 0..N : ~fits(n)}
  <1>1. N \in Nat /\ DOMAIN s = 1..N /\ \A n \in 1..N : s[n] \in X
      BY SeqFacts
  <1>2. /\ <<>> \in T /\ ToSet(<<>>) = {}
        /\ \A t \in T, x \in X : /\ KeptIf(t, x, S) \in T
                                 /\ ToSet(KeptIf(t, x, S)) = ToSet(t) \cup ({x} \cap S)
    <2>1. <<>> \in T /\ ToSet(<<>>) = {}
        BY DEF ToSet
    <2>2. ASSUME NEW t \in T, NEW x \in X
          PROVE  /\ KeptIf(t, x, S) \in T
                 /\ ToSet(KeptIf(t, x, S)) = ToSet(t) \cup ({x} \cap S)
        BY Appended DEF KeptIf
    <2> QED BY <2>1, <2>2
  <1>3. Kept(s, S) = kept[N]
      BY Zenon DEF Kept
  <1> HIDE DEF N, T
  <1>4. step \in [(1..N) \X T -> T] /\ \A n \in 1..N, t \in T : step[<<n, t>>] = KeptIf(t, s[n], S)
      BY <1>1, <1>2
  <1>5. PICK g \in [0..N -> T] : g[0] = <<>> /\ \A n \in 1..N : g[n] = step[<<n, g[n - 1]>>]
    <2> HIDE DEF step
    <2>1. PICK g \in [0..N -> T] : Steps(g, <<>>, step, N)
        BY <1>1, <1>2, <1>4, Recursion
    <2> QED BY <2>1 DEF Steps
  <1> HIDE DEF step
  <1>6. \A n \in 0..N : g[n] = After(g, n)
    <2> TAKE n \in 0..N
    <2>1. CASE n = 0
        BY <1>5, <2>1
    <2>2. CASE n # 0
      <3>1. n \in 1..N /\ g[n - 1] \in T
          BY <1>1, <1>5, <2>2
      <3> QED BY <1>4, <1>5, <2>2, <3>1
    <2> QED BY <2>1, <2>2
  <1>7. g = [n \in 0..N |-> After(g, n)]
    <2> HIDE DEF After
    <2> QED BY <1>6
  <1>8. kept = [n \in 0..N |-> After(kept, n)]
      BY <1>7
  <1> HIDE DEF kept
  <1>9. ASSUME NEW n \in 0..N, n = 0 \/ fits(n - 1) PROVE fits(n)
    <2>1. kept[n] = After(kept, n)
        BY <1>8
    <2>2. CASE n = 0
      <3>1. upTo(n) = {}
          BY <2>2
      <3> HIDE DEF upTo
      <3> QED BY <1>2, <2>1, <2>2, <3>1
    <2>3. CASE n # 0
      <3>1. n \in 1..N /\ kept[n] = KeptIf(kept[n - 1], s[n], S) /\ s[n] \in X
          BY <1>1, <2>1, <2>3
      <3>2. upTo(n) = upTo(n - 1) \cup {s[n]}
        <4>1. \A i : i \in 1..n <=> i \in 1..(n - 1) \/ i = n
            BY <1>1, <3>1
        <4> QED BY <4>1
      <3>3. kept[n - 1] \in T /\ ToSet(kept[n - 1]) = upTo(n - 1) \cap S
          BY <1>9, <2>3
      <3> HIDE DEF upTo
      <3>4. kept[n] \in T /\ ToSet(kept[n]) = ToSet(kept[n - 1]) \cup ({s[n]} \cap S)
          BY <1>2, <3>1, <3>3
      <3> QED BY <3>2, <3>3, <3>4
    <2> QED BY <2>2, <2>3
  <1> HIDE DEF fits
  <1>10. bad = {}
    <2> SUFFICES ASSUME bad # {} PROVE FALSE
        OBVIOUS
    <2>1. bad \in SUBSET Nat
        BY <1>1
    <2>2. PICK n \in bad : \A k \in bad : n <= k
        BY <2>1, Least
    <2>3. n \in 0..N /\ (n # 0 => n - 1 \in 0..N /\ n - 1 \notin bad)
        BY <1>1, <2>2
    <2> QED BY <1>9, <2>2, <2>3
  <1>11. fits(N)
      BY <1>1, <1>10
  <1>12. upTo(N) = ToSet(s)
      BY <1>1 DEF ToSet
  <1> QED BY <1>3, <1>11, <1>12 DEF fits, T

\* An element more, wherever it goes.
LEMMA InsertedAt ==
    ASSUME NEW X, NEW s \in Seq(X), NEW x \in X, NEW i \in 1..(Len(s) + 1)
    PROVE  InsertAt(s, i, x) \in Seq(X) /\ ToSet(InsertAt(s, i, x)) = ToSet(s) \cup {x}
  <1> DEFINE front == SubSeq(s, 1, i - 1)
             back == SubSeq(s, i, Len(s))
  <1>1. front \in Seq(X) /\ back \in Seq(X) /\ <<x>> \in Seq(X) /\ ToSet(<<x>>) = {x}
    <2>1. /\ Len(s) \in Nat /\ \A j \in 1..Len(s) : s[j] \in X
          /\ i - 1 \in 0..Len(s) /\ i - 1 \in Int /\ i \in Int
        BY SeqFacts
    <2>2. \A j \in 1..(i - 1) : j \in 1..Len(s)
        BY <2>1
    <2>3. \A j \in i..Len(s) : j \in 1..Len(s)
        BY <2>1
    <2>4. front \in Seq(X)
        BY <2>1, <2>2, SubSeqProperties
    <2>5. back \in Seq(X)
        BY <2>1, <2>3, SubSeqProperties
    <2> QED BY <2>4, <2>5 DEF ToSet
  <1>2. front \o back = s
    <2>1. /\ 1 \in 1..(Len(s) + 1) /\ i - 1 \in (1 - 1)..Len(s) /\ Len(s) \in (i - 1)..Len(s)
          /\ (i - 1) + 1 = i
        BY SeqFacts
    <2>2. SubSeq(s, 1, i - 1) \o SubSeq(s, (i - 1) + 1, Len(s)) = SubSeq(s, 1, Len(s))
        BY <2>1, ConcatAdjacentSubSeq
    <2> QED BY <2>1, <2>2, SubSeqFull
  <1>3. InsertAt(s, i, x) = (front \o <<x>>) \o back
      BY DEF InsertAt
  <1> HIDE DEF front, back
  <1>4. front \o <<x>> \in Seq(X) /\ ToSet(front \o <<x>>) = ToSet(front) \cup {x}
    <2> DEFINE one == <<x>>
    <2>1. one \in Seq(X) /\ ToSet(one) = {x}
        BY <1>1
    <2> HIDE DEF one
    <2>2. front \o one \in Seq(X) /\ ToSet(front \o one) = ToSet(front) \cup ToSet(one)
        BY <1>1, <2>1, Joined
    <2> QED BY <2>1, <2>2 DEF one
  <1>5. /\ (front \o <<x>>) \o back \in Seq(X)
        /\ ToSet((front \o <<x>>) \o back) = (ToSet(front) \cup {x}) \cup ToSet(back)
    <2> DEFINE f == front \o <<x>>
    <2>1. f \in Seq(X)
        BY <1>4
    <2> HIDE DEF f
    <2>2. f \o back \in Seq(X) /\ ToSet(f \o back) = ToSet(f) \cup ToSet(back)
        BY <1>1, <2>1, Joined
    <2> QED BY <1>4, <2>2 DEF f
  <1>6. ToSet(s) = ToSet(front) \cup ToSet(back)
    <2>1. ToSet(front \o back) = ToSet(front) \cup ToSet(back)
        BY <1>1, Joined
    <2> QED BY <1>2, <2>1
  <1> QED BY <1>3, <1>5, <1>6

LEMMA WithKeyIs ==
    ASSUME NEW X, NEW all \in Seq(X), NEW j \in Nat \ {0}, NEW k \in X
    PROVE  WithKeyAt(all, j, k) \in Seq(X) /\ ToSet(WithKeyAt(all, j, k)) = ToSet(all) \cup {k}
  <1>1. Len(all) \in Nat /\ DOMAIN all = 1..Len(all)
      BY SeqFacts
  <1>2. CASE Contains(all, k)
    <2>1. k \in ToSet(all)
        BY <1>1, <1>2 DEF Contains, ToSet
    <2> QED BY <1>2, <2>1 DEF WithKeyAt
  <1>3. CASE ~Contains(all, k)
    <2> DEFINE n == Len(all) + 1
               S == {j, n}
               i == Min(S)
    <2>1. i \in 1..(Len(all) + 1)
      <3>1. n \in Nat \ {0} /\ S \in SUBSET Int /\ j \in S /\ n \in S /\ \A y \in S : y = j \/ y = n
          BY <1>1
      <3> HIDE DEF n, S
      <3>2. CASE j <= n
        <4>1. \A y \in S : j <= y
            BY <3>1, <3>2
        <4>2. Min(S) = j
            BY <3>1, <4>1, MinIs
        <4> QED BY <3>1, <3>2, <4>2 DEF n
      <3>3. CASE ~(j <= n)
        <4>1. \A y \in S : n <= y
            BY <3>1, <3>3
        <4>2. Min(S) = n
            BY <3>1, <4>1, MinIs
        <4> QED BY <3>1, <4>2 DEF n
      <3> QED BY <3>2, <3>3
    <2>2. WithKeyAt(all, j, k) = InsertAt(all, i, k)
        BY <1>3 DEF WithKeyAt
    <2> HIDE DEF i
    <2> QED BY <2>1, <2>2, InsertedAt
  <1> QED BY <1>2, <1>3

\* The keys of a run are added to those of the runs before.
LEMMA SplicedIs ==
    ASSUME NEW X, NEW all \in Seq(X), NEW keys \in Seq(X)
    PROVE  Spliced(all, keys) \in Seq(X) /\ ToSet(Spliced(all, keys)) = ToSet(all) \cup ToSet(keys)
  <1> DEFINE N == Len(keys)
             T == Seq(X)
             After(g, j) == IF j = 0 THEN all ELSE WithKeyAt(g[j - 1], j, keys[j])
             map == CHOOSE g : g = [j \in 0..N |-> After(g, j)]
             step == [p \in (1..N) \X T |-> WithKeyAt(p[2], p[1], keys[p[1]])]
             upTo(j) == {keys[i] : i \in 1..j}
             fits(j) == map[j] \in T /\ ToSet(map[j]) = ToSet(all) \cup upTo(j)
             bad == {j \in 0..N : ~fits(j)}
  <1>1. N \in Nat /\ DOMAIN keys = 1..N /\ all \in T /\ \A j \in 1..N : keys[j] \in X
      BY SeqFacts
  <1>2. \A t \in T, j \in 1..N : /\ WithKeyAt(t, j, keys[j]) \in T
                                 /\ ToSet(WithKeyAt(t, j, keys[j])) = ToSet(t) \cup {keys[j]}
    <2> SUFFICES ASSUME NEW t \in T, NEW j \in 1..N
                 PROVE  /\ WithKeyAt(t, j, keys[j]) \in T
                        /\ ToSet(WithKeyAt(t, j, keys[j])) = ToSet(t) \cup {keys[j]}
        OBVIOUS
    <2> DEFINE k == keys[j]
    <2>1. j \in Nat \ {0} /\ k \in X /\ t \in Seq(X)
        BY <1>1
    <2> HIDE DEF T, N, k
    <2>2. WithKeyAt(t, j, k) \in Seq(X) /\ ToSet(WithKeyAt(t, j, k)) = ToSet(t) \cup {k}
        BY ONLY <2>1, WithKeyIs
    <2> QED BY <2>2 DEF T, k
  <1>3. Spliced(all, keys) = map[N]
      BY Zenon DEF Spliced
  <1> HIDE DEF N, T
  <1>4. /\ step \in [(1..N) \X T -> T]
        /\ \A j \in 1..N, t \in T : step[<<j, t>>] = WithKeyAt(t, j, keys[j])
      BY <1>1, <1>2
  <1>5. PICK g \in [0..N -> T] : g[0] = all /\ \A j \in 1..N : g[j] = step[<<j, g[j - 1]>>]
    <2> HIDE DEF step
    <2>1. PICK g \in [0..N -> T] : Steps(g, all, step, N)
        BY <1>1, <1>4, Recursion
    <2> QED BY <2>1 DEF Steps
  <1> HIDE DEF step
  <1>6. \A j \in 0..N : g[j] = After(g, j)
    <2> TAKE j \in 0..N
    <2>1. CASE j = 0
        BY <1>5, <2>1
    <2>2. CASE j # 0
      <3>1. j \in 1..N /\ g[j - 1] \in T
          BY <1>1, <1>5, <2>2
      <3> QED BY <1>4, <1>5, <2>2, <3>1
    <2> QED BY <2>1, <2>2
  <1>7. g = [j \in 0..N |-> After(g, j)]
    <2> HIDE DEF After
    <2> QED BY <1>6
  <1>8. map = [j \in 0..N |-> After(map, j)]
      BY <1>7
  <1> HIDE DEF map
  <1>9. ASSUME NEW j \in 0..N, j = 0 \/ fits(j - 1) PROVE fits(j)
    <2>1. map[j] = After(map, j)
        BY <1>8
    <2>2. CASE j = 0
      <3>1. upTo(j) = {}
          BY <2>2
      <3> HIDE DEF upTo
      <3> QED BY <1>1, <2>1, <2>2, <3>1
    <2>3. CASE j # 0
      <3>1. j \in 1..N /\ map[j] = WithKeyAt(map[j - 1], j, keys[j])
          BY <1>1, <2>1, <2>3
      <3>2. upTo(j) = upTo(j - 1) \cup {keys[j]}
        <4>1. \A i : i \in 1..j <=> i \in 1..(j - 1) \/ i = j
            BY <1>1, <3>1
        <4> QED BY <4>1
      <3>3. map[j - 1] \in T /\ ToSet(map[j - 1]) = ToSet(all) \cup upTo(j - 1)
          BY <1>9, <2>3
      <3> HIDE DEF upTo
      <3>4. map[j] \in T /\ ToSet(map[j]) = ToSet(map[j - 1]) \cup {keys[j]}
          BY <1>2, <3>1, <3>3
      <3> QED BY <3>2, <3>3, <3>4
    <2> QED BY <2>2, <2>3
  <1> HIDE DEF fits
  <1>10. bad = {}
    <2> SUFFICES ASSUME bad # {} PROVE FALSE
        OBVIOUS
    <2>1. bad \in SUBSET Nat
        BY <1>1
    <2>2. PICK j \in bad : \A k \in bad : j <= k
        BY <2>1, Least
    <2>3. j \in 0..N /\ (j # 0 => j - 1 \in 0..N /\ j - 1 \notin bad)
        BY <1>1, <2>2
    <2> QED BY <1>9, <2>2, <2>3
  <1>11. fits(N)
      BY <1>1, <1>10
  <1>12. upTo(N) = ToSet(keys)
      BY <1>1 DEF ToSet
  <1> QED BY <1>3, <1>11, <1>12 DEF fits, T

\* Reports as they are collected.
IsReport(runs) ==
    /\ runs \in Seq(ToSet(runs))
    /\ \A r \in DOMAIN runs :
          /\ runs[r].cpus \in Nat
          /\ runs[r].keys \in Seq(ToSet(runs[r].keys))
          /\ DOMAIN runs[r].limits = ToSet(runs[r].keys)
          /\ \A k \in DOMAIN runs[r].limits :
                /\ runs[r].limits[k] \in [low : Nat, high : Nat]
                /\ runs[r].limits[k].low <= runs[r].limits[k].high

\* Each key of any run is in all_run_keys.
LEMMA AllKeysAre ==
    ASSUME IsReport(report)
    PROVE  all_run_keys \in Seq(KeySet) /\ ToSet(all_run_keys) = KeySet
  <1> DEFINE N == Len(report)
             T == Seq(KeySet)
             After(g, r) == IF r = 0 THEN <<>> ELSE Spliced(g[r - 1], report[r].keys)
             map == CHOOSE g : g = [r \in 0..N |-> After(g, r)]
             step == [p \in (1..N) \X T |-> Spliced(p[2], report[p[1]].keys)]
             upTo(r) == UNION {KeysOf(i) : i \in 1..r}
             fits(r) == map[r] \in T /\ ToSet(map[r]) = upTo(r)
             bad == {r \in 0..N : ~fits(r)}
  <1>1. /\ N \in Nat /\ Runs = 1..N /\ <<>> \in T /\ ToSet(<<>>) = {}
        /\ \A r \in 1..N : report[r].keys \in T
    <2>1. report \in Seq(ToSet(report))
        BY DEF IsReport
    <2>2. N \in Nat /\ Runs = 1..N
        BY <2>1, SeqFacts DEF Runs
    <2>3. ASSUME NEW r \in 1..N PROVE report[r].keys \in T
      <3>1. report[r].keys \in Seq(KeysOf(r)) /\ KeysOf(r) \in SUBSET KeySet
          BY <2>2, <2>3 DEF IsReport, Runs, KeysOf, KeySet
      <3> QED BY <3>1
    <2>4. <<>> \in T /\ ToSet(<<>>) = {}
        BY DEF ToSet
    <2> QED BY <2>2, <2>3, <2>4
  <1>2. \A t \in T, r \in 1..N : /\ Spliced(t, report[r].keys) \in T
                                 /\ ToSet(Spliced(t, report[r].keys)) = ToSet(t) \cup KeysOf(r)
      BY <1>1, SplicedIs DEF KeysOf
  <1>3. all_run_keys = map[N]
      BY Zenon DEF all_run_keys
  <1> HIDE DEF N, T
  <1>4. /\ step \in [(1..N) \X T -> T]
        /\ \A r \in 1..N, t \in T : step[<<r, t>>] = Spliced(t, report[r].keys)
      BY <1>1, <1>2
  <1>5. PICK g \in [0..N -> T] : g[0] = <<>> /\ \A r \in 1..N : g[r] = step[<<r, g[r - 1]>>]
    <2> HIDE DEF step
    <2>1. PICK g \in [0..N -> T] : Steps(g, <<>>, step, N)
        BY <1>1, <1>4, Recursion
    <2> QED BY <2>1 DEF Steps
  <1> HIDE DEF step
  <1>6. \A r \in 0..N : g[r] = After(g, r)
    <2> TAKE r \in 0..N
    <2>1. CASE r = 0
        BY <1>5, <2>1
    <2>2. CASE r # 0
      <3>1. r \in 1..N /\ g[r - 1] \in T
          BY <1>1, <1>5, <2>2
      <3> QED BY <1>4, <1>5, <2>2, <3>1
    <2> QED BY <2>1, <2>2
  <1>7. g = [r \in 0..N |-> After(g, r)]
    <2> HIDE DEF After
    <2> QED BY <1>6
  <1>8. map = [r \in 0..N |-> After(map, r)]
      BY <1>7
  <1> HIDE DEF map
  <1>9. ASSUME NEW r \in 0..N, r = 0 \/ fits(r - 1) PROVE fits(r)
    <2>1. map[r] = After(map, r)
        BY <1>8
    <2>2. CASE r = 0
      <3>1. upTo(r) = {}
          BY <2>2
      <3> HIDE DEF upTo
      <3> QED BY <1>1, <2>1, <2>2, <3>1
    <2>3. CASE r # 0
      <3>1. r \in 1..N /\ map[r] = Spliced(map[r - 1], report[r].keys)
          BY <1>1, <2>1, <2>3
      <3>2. upTo(r) = upTo(r - 1) \cup KeysOf(r)
        <4>1. \A i : i \in 1..r <=> i \in 1..(r - 1) \/ i = r
            BY <1>1, <3>1
        <4> QED BY <4>1
      <3>3. map[r - 1] \in T /\ ToSet(map[r - 1]) = upTo(r - 1)
          BY <1>9, <2>3
      <3> HIDE DEF upTo
      <3>4. map[r] \in T /\ ToSet(map[r]) = ToSet(map[r - 1]) \cup KeysOf(r)
          BY <1>2, <3>1, <3>3
      <3> QED BY <3>2, <3>3, <3>4
    <2> QED BY <2>2, <2>3
  <1> HIDE DEF fits
  <1>10. bad = {}
    <2> SUFFICES ASSUME bad # {} PROVE FALSE
        OBVIOUS
    <2>1. bad \in SUBSET Nat
        BY <1>1
    <2>2. PICK r \in bad : \A k \in bad : r <= k
        BY <2>1, Least
    <2>3. r \in 0..N /\ (r # 0 => r - 1 \in 0..N /\ r - 1 \notin bad)
        BY <1>1, <2>2
    <2> QED BY <1>9, <2>2, <2>3
  <1>11. fits(N)
      BY <1>1, <1>10
  <1>12. upTo(N) = KeySet
      BY <1>1 DEF KeySet
  <1> QED BY <1>3, <1>11, <1>12 DEF fits, T

LEMMA FlattenIs ==
    ASSUME NEW X, NEW seqs \in Seq(Seq(X))
    PROVE  /\ FlattenSeq(seqs) \in Seq(X)
           /\ ToSet(FlattenSeq(seqs)) = UNION {ToSet(seqs[i]) : i \in DOMAIN seqs}
  <1> DEFINE N == Len(seqs)
             T == Seq(X)
             After(g, i) == IF i = 1 THEN seqs[i] ELSE g[i - 1] \o seqs[i]
             flatten == CHOOSE g : g = [i \in 1..N |-> After(g, i)]
             step == [p \in (1..N) \X T |-> IF p[1] = 1 THEN seqs[p[1]] ELSE p[2] \o seqs[p[1]]]
             upTo(n) == UNION {ToSet(seqs[i]) : i \in 1..n}
             fits(n) == flatten[n] \in T /\ ToSet(flatten[n]) = upTo(n)
             bad == {n \in 1..N : ~fits(n)}
  <1> HIDE DEF T
  <1>1. N \in Nat /\ DOMAIN seqs = 1..N /\ \A i \in 1..N : seqs[i] \in T
      BY SeqFacts DEF T
  <1>2. <<>> \in T /\ \A s, t \in T : s \o t \in T /\ ToSet(s \o t) = ToSet(s) \cup ToSet(t)
    <2>1. ASSUME NEW s \in T, NEW t \in T
          PROVE  s \o t \in T /\ ToSet(s \o t) = ToSet(s) \cup ToSet(t)
        BY <2>1, Joined DEF T
    <2> QED BY <2>1 DEF T
  <1>3. CASE N = 0
    <2>1. seqs = <<>> /\ FlattenSeq(seqs) = seqs
        BY <1>3 DEF FlattenSeq
    <2>2. FlattenSeq(seqs) \in Seq(X) /\ ToSet(FlattenSeq(seqs)) = {}
      <3>1. FlattenSeq(seqs) = <<>>
          BY <2>1
      <3>2. <<>> \in Seq(X) /\ ToSet(<<>>) = {}
          BY DEF ToSet
      <3> QED BY <3>1, <3>2
    <2>3. UNION {ToSet(seqs[i]) : i \in DOMAIN seqs} = {}
      <3>1. DOMAIN seqs = {}
          BY <1>1, <1>3
      <3> QED BY <3>1
    <2> QED BY <2>2, <2>3
  <1>4. CASE N # 0
    <2>1. FlattenSeq(seqs) = flatten[N]
        BY <1>4, Zenon DEF FlattenSeq
    <2> HIDE DEF N
    <2>2. /\ step \in [(1..N) \X T -> T]
          /\ \A i \in 1..N, t \in T : step[<<i, t>>] = IF i = 1 THEN seqs[i] ELSE t \o seqs[i]
        BY <1>1, <1>2
    <2>3. PICK g \in [0..N -> T] : g[0] = <<>> /\ \A i \in 1..N : g[i] = step[<<i, g[i - 1]>>]
      <3> HIDE DEF step
      <3>1. PICK g \in [0..N -> T] : Steps(g, <<>>, step, N)
          BY <1>1, <1>2, <2>2, Recursion
      <3> QED BY <3>1 DEF Steps
    <2> HIDE DEF step
    <2> DEFINE h == [i \in 1..N |-> g[i]]
    <2>4. \A i \in 1..N : h[i] = After(h, i)
      <3> TAKE i \in 1..N
      <3>1. i - 1 \in 0..N /\ g[i - 1] \in T /\ h[i] = g[i]
          BY <1>1, <2>3
      <3>2. CASE i = 1
          BY <2>2, <2>3, <3>1, <3>2
      <3>3. CASE i # 1
        <4>1. i - 1 \in 1..N /\ h[i - 1] = g[i - 1]
            BY <1>1, <3>3
        <4> QED BY <2>2, <2>3, <3>1, <3>3, <4>1
      <3> QED BY <3>2, <3>3
    <2>5. h = [i \in 1..N |-> After(h, i)]
      <3>1. h \in [1..N -> T]
        <4>1. \A i \in 1..N : i \in 0..N /\ g[i] \in T
            BY <1>1, <2>3
        <4> QED BY <4>1
      <3> HIDE DEF h, After
      <3> QED BY <2>4, <3>1
    <2>6. flatten = [i \in 1..N |-> After(flatten, i)]
        BY <2>5
    <2> HIDE DEF flatten
    <2>7. ASSUME NEW n \in 1..N, n = 1 \/ fits(n - 1) PROVE fits(n)
      <3>1. flatten[n] = After(flatten, n)
          BY <2>6
      <3>2. CASE n = 1
        <4>1. upTo(1) = ToSet(seqs[1])
          <5>1. \A i : i \in 1..1 <=> i = 1
              OBVIOUS
          <5> QED BY <5>1
        <4> HIDE DEF upTo
        <4> QED BY <1>1, <3>1, <3>2, <4>1
      <3>3. CASE n # 1
        <4>1. flatten[n] = flatten[n - 1] \o seqs[n] /\ seqs[n] \in T
            BY <1>1, <3>1, <3>3
        <4>2. upTo(n) = upTo(n - 1) \cup ToSet(seqs[n])
          <5>1. \A i : i \in 1..n <=> i \in 1..(n - 1) \/ i = n
              BY <1>1
          <5> QED BY <5>1
        <4>3. flatten[n - 1] \in T /\ ToSet(flatten[n - 1]) = upTo(n - 1)
            BY <2>7, <3>3
        <4> HIDE DEF upTo
        <4> QED BY <1>2, <4>1, <4>2, <4>3
      <3> QED BY <3>2, <3>3
    <2> HIDE DEF fits
    <2>8. bad = {}
      <3> SUFFICES ASSUME bad # {} PROVE FALSE
          OBVIOUS
      <3>1. bad \in SUBSET Nat
          BY <1>1
      <3>2. PICK n \in bad : \A k \in bad : n <= k
          BY <3>1, Least
      <3>3. n \in 1..N /\ (n # 1 => n - 1 \in 1..N /\ n - 1 \notin bad)
          BY <1>1, <3>2
      <3> QED BY <2>7, <3>2, <3>3
    <2>9. fits(N)
        BY <1>1, <1>4, <2>8
    <2>10. upTo(N) = UNION {ToSet(seqs[i]) : i \in DOMAIN seqs}
        BY <1>1
    <2> QED BY <2>1, <2>9, <2>10 DEF fits, T
  <1> QED BY <1>3, <1>4

-----------------------------------------------------------------------------
\* The runs and the callbacks.

LEMMA RunsAre ==
    ASSUME IsReport(report)
    PROVE  /\ Len(report) \in Nat /\ Runs = 1..Len(report) /\ IsFiniteSet(Runs)
           /\ AllRuns \in Seq(Runs) /\ ToSet(AllRuns) = Runs
           /\ Len(AllRuns) = Len(report) /\ \A r \in Runs : AllRuns[r] = r
  <1>1. report \in Seq(ToSet(report))
      BY DEF IsReport
  <1>2. Len(report) \in Nat /\ Runs = 1..Len(report)
      BY <1>1, SeqFacts DEF Runs
  <1>3. AllRuns \in [1..Len(report) -> Runs] /\ \A r \in Runs : AllRuns[r] = r
      BY <1>2 DEF AllRuns
  <1>4. AllRuns \in Seq(Runs) /\ Len(AllRuns) = Len(report)
      BY <1>2, <1>3, IsASeq
  <1>5. ToSet(AllRuns) = Runs
      BY DEF ToSet, AllRuns
  <1> QED BY <1>2, <1>3, <1>4, <1>5, FS_Interval

\* The runs visited before the first that throws.
LEMMA UntilIs ==
    ASSUME IsReport(report), NEW throwing \in SUBSET Runs
    PROVE  /\ Until(throwing) \in Seq(Runs)
           /\ ToSet(Until(throwing)) = {r \in Runs : \A q \in throwing : r < q}
  <1>1. CASE throwing = {}
      BY <1>1, RunsAre DEF Until
  <1>2. CASE throwing # {}
    <2>1. throwing \in SUBSET Nat
        BY RunsAre
    <2>2. PICK m \in throwing : \A q \in throwing : m <= q
        BY <1>2, <2>1, Least
    <2>3. Min(throwing) = m
        BY <2>1, <2>2, MinIs
    <2> DEFINE u == SubSeq(AllRuns, 1, m - 1)
    <2>4. u = Until(throwing)
        BY <1>2, <2>3 DEF Until
    <2>5. m \in 1..Len(report) /\ Len(report) \in Nat /\ Runs = 1..Len(report)
        BY RunsAre
    <2>6. \A i \in 1..(m - 1) : i \in Runs /\ AllRuns[i] = i
        BY <2>5, RunsAre
    <2>7. /\ u \in Seq(Runs) /\ Len(u) = m - 1
          /\ \A i \in 1..(m - 1) : u[i] = i
      <3>1. /\ u \in Seq(Runs)
            /\ Len(u) = IF 1 <= m - 1 THEN (m - 1) - 1 + 1 ELSE 0
            /\ \A i \in 1..((m - 1) - 1 + 1) : u[i] = AllRuns[1 + i - 1]
        <4>1. 1 \in Int /\ m - 1 \in Int /\ \A i \in 1..(m - 1) : AllRuns[i] \in Runs
            BY <2>5, <2>6
        <4> DEFINE n == m - 1
        <4>2. n \in Int /\ \A i \in 1..n : AllRuns[i] \in Runs
            BY <4>1
        <4> HIDE DEF n
        <4>3. /\ SubSeq(AllRuns, 1, n) \in Seq(Runs)
              /\ Len(SubSeq(AllRuns, 1, n)) = IF 1 <= n THEN n - 1 + 1 ELSE 0
              /\ \A i \in 1..(n - 1 + 1) : SubSeq(AllRuns, 1, n)[i] = AllRuns[1 + i - 1]
            BY <4>2, SubSeqProperties
        <4> QED BY <4>3 DEF n
      <3>2. (m - 1) - 1 + 1 = m - 1 /\ \A i \in 1..(m - 1) : 1 + i - 1 = i
          BY <2>5
      <3> HIDE DEF u
      <3> QED BY <2>5, <2>6, <3>1, <3>2
    <2> HIDE DEF u
    <2>8. DOMAIN u = 1..(m - 1)
        BY <2>7, SeqFacts
    <2>9. ToSet(u) = 1..(m - 1)
        BY <2>7, <2>8 DEF ToSet
    <2>10. 1..(m - 1) = {r \in Runs : \A q \in throwing : r < q}
      <3>1. \A r \in 1..(m - 1) : r \in Runs /\ \A q \in throwing : r < q
          BY <2>1, <2>2, <2>5
      <3>2. \A r \in Runs : (\A q \in throwing : r < q) => r \in 1..(m - 1)
          BY <2>2, <2>5
      <3> QED BY <3>1, <3>2
    <2> QED BY <2>4, <2>7, <2>9, <2>10
  <1> QED BY <1>1, <1>2

Words == {"yes", "no", "none", "findings", "sutconfig", "flamegraphs", "javaprofile",
          "user", "text", "group"}
Whats == KeySet \cup Words
Queue == [tab : DataTypes, run : Runs, what : Whats]

Queues(c, t, runs, what) == \E r \in ToSet(runs) : \E w \in ToSet(what[r]) : c = Callback(t, r, w)

LEMMA CallbacksAre ==
    ASSUME NEW t \in DataTypes, NEW runs \in Seq(Runs), NEW what,
           \A r \in ToSet(runs) : what[r] \in Seq(Whats)
    PROVE  /\ Callbacks(t, runs, what) \in Seq(Queue)
           /\ \A c : c \in ToSet(Callbacks(t, runs, what)) <=>
                         \E r \in ToSet(runs) : \E w \in ToSet(what[r]) : c = Callback(t, r, w)
  <1> DEFINE Row(i) == [j \in DOMAIN what[runs[i]] |-> Callback(t, runs[i], what[runs[i]][j])]
             rows == [i \in DOMAIN runs |-> Row(i)]
             T == Seq(Queue)
  <1>1. /\ Len(runs) \in Nat /\ DOMAIN runs = 1..Len(runs)
        /\ \A i \in 1..Len(runs) : runs[i] \in Runs /\ runs[i] \in ToSet(runs)
      BY SeqFacts
  <1>2. ASSUME NEW i \in 1..Len(runs)
        PROVE  /\ Row(i) \in Seq(Queue)
               /\ ToSet(Row(i)) = {Callback(t, runs[i], w) : w \in ToSet(what[runs[i]])}
    <2> DEFINE s == what[runs[i]]
               r == runs[i]
    <2>1. s \in Seq(Whats) /\ r \in Runs
        BY <1>1
    <2> HIDE DEF s, r
    <2>2. Len(s) \in Nat /\ DOMAIN s = 1..Len(s) /\ \A j \in 1..Len(s) : s[j] \in Whats
        BY <2>1, SeqFacts
    <2> DEFINE row == [j \in DOMAIN s |-> Callback(t, r, s[j])]
    <2>3. row \in [1..Len(s) -> Queue]
      <3>1. \A w \in Whats : Callback(t, r, w) \in Queue
          BY <2>1 DEF Callback, Queue
      <3> QED BY <2>2, <3>1
    <2>4. row \in Seq(Queue)
        BY <2>2, <2>3, IsASeq
    <2>5. ToSet(row) = {Callback(t, r, w) : w \in ToSet(s)}
        BY DEF ToSet
    <2> QED BY <2>4, <2>5 DEF s, r
  <1> HIDE DEF Row
  <1>3. rows \in Seq(T)
    <2>1. rows \in [1..Len(runs) -> T]
        BY <1>1, <1>2
    <2> HIDE DEF rows, T
    <2> QED BY <1>1, <2>1, IsASeq
  <1>4. Callbacks(t, runs, what) = FlattenSeq(rows)
      BY DEF Callbacks, Row
  <1>5. /\ FlattenSeq(rows) \in T
        /\ ToSet(FlattenSeq(rows)) = UNION {ToSet(rows[i]) : i \in DOMAIN rows}
      BY <1>3, FlattenIs
  <1>6. DOMAIN rows = 1..Len(runs) /\ \A i \in 1..Len(runs) : rows[i] = Row(i)
      BY <1>1
  <1> HIDE DEF rows, T
  <1>7. ASSUME NEW c
        PROVE  c \in ToSet(FlattenSeq(rows)) <=>
                   \E r \in ToSet(runs) : \E w \in ToSet(what[r]) : c = Callback(t, r, w)
    <2>1. c \in ToSet(FlattenSeq(rows)) <=> \E i \in 1..Len(runs) : c \in ToSet(Row(i))
        BY <1>5, <1>6
    <2>2. \A i \in 1..Len(runs) : c \in ToSet(Row(i)) <=>
              \E w \in ToSet(what[runs[i]]) : c = Callback(t, runs[i], w)
        BY <1>2
    <2>3. \A r : r \in ToSet(runs) <=> \E i \in 1..Len(runs) : r = runs[i]
        BY <1>1 DEF ToSet
    <2> QED BY <2>1, <2>2, <2>3
  <1> QED BY <1>4, <1>5, <1>7 DEF T

-----------------------------------------------------------------------------
\* What a tab that is opened leaves of the others.

TabTypes == /\ pending \in Seq(Queue)
            /\ got \in SUBSET DataTypes
            /\ DOMAIN page = DataTypes /\ \A t \in DataTypes : DOMAIN page[t] = Runs
            /\ DOMAIN status = DataTypes
            /\ DOMAIN cpu_lists = CpuTabs /\ \A t \in CpuTabs : DOMAIN cpu_lists[t] = Runs
            /\ DOMAIN run_config \in SUBSET Runs

Waits(c) == c \in ToSet(pending)

Quiet(u) == /\ page'[u] = page[u] /\ status'[u] = status[u]
            /\ u \in got' <=> u \in got
            /\ u \in CpuTabs => cpu_lists'[u] = cpu_lists[u]
            /\ \A c : c.tab = u => (Waits(c)' <=> Waits(c))

Opened(t) == /\ TabTypes'
             /\ \A u \in DataTypes \ {t} : Quiet(u)
             /\ key_limits' = key_limits \/ (t \in LimitTabs /\ key_limits'.tab = t)
             /\ DOMAIN run_config' = DOMAIN run_config
             /\ t # "configure" => run_config' = run_config

LEMMA SameReport ==
    ASSUME report' = report
    PROVE  /\ Runs' = Runs /\ KeySet' = KeySet /\ Whats' = Whats /\ Queue' = Queue
           /\ \A r : KeysOf(r)' = KeysOf(r)
           /\ \A k : WithKey(k)' = WithKey(k)
  <1>1. Runs' = Runs /\ (\A r : KeysOf(r)' = KeysOf(r))
      BY DEF Runs, KeysOf
  <1>2. KeySet' = KeySet
      BY <1>1 DEF KeySet, KeysOf
  <1>3. \A k : WithKey(k)' = WithKey(k)
      BY <1>1 DEF WithKey, KeysOf
  <1> QED BY <1>1, <1>2, <1>3 DEF Whats, Queue

\* What is put off by a tab is added to what waits already.
LEMMA PutOff ==
    ASSUME TabTypes, NEW t \in DataTypes, NEW runs \in Seq(Runs), NEW what,
           \A r \in ToSet(runs) : what[r] \in Seq(Whats),
           NEW before \in {pending, StillPending(t)},
           pending' = before \o Callbacks(t, runs, what)
    PROVE  /\ pending' \in Seq(Queue)
           /\ \A c : Waits(c)' <=>
                  \/ Waits(c) /\ (before = pending \/ ~(c.tab = t /\ Held(t)))
                  \/ Queues(c, t, runs, what)
           /\ \A c : c.tab # t => (Waits(c)' <=> Waits(c))
  <1> DEFINE new == Callbacks(t, runs, what)
             still == {c \in ToSet(pending) : ~(c.tab = t /\ Held(t))}
  <1>1. /\ new \in Seq(Queue)
        /\ \A c : c \in ToSet(new) <=> Queues(c, t, runs, what)
      BY CallbacksAre DEF Queues
  <1>2. pending \in Seq(Queue)
      BY DEF TabTypes
  <1>3. /\ before \in Seq(Queue)
        /\ \A c : c \in ToSet(before) <=>
                      Waits(c) /\ (before = pending \/ ~(c.tab = t /\ Held(t)))
    <2>1. CASE before = pending
        BY <1>2, <2>1 DEF Waits
    <2>2. CASE before # pending
      <3>1. before = Kept(pending, still)
          BY <2>2 DEF StillPending
      <3> HIDE DEF still
      <3>2. Kept(pending, still) \in Seq(Queue) /\ ToSet(Kept(pending, still)) = ToSet(pending) \cap still
          BY <1>2, KeptIs
      <3> QED BY <2>2, <3>1, <3>2 DEF still, Waits
    <2> QED BY <2>1, <2>2
  <1> HIDE DEF new
  <1>4. pending' = before \o new
      BY DEF new
  <1>5. pending' \in Seq(Queue) /\ ToSet(pending') = ToSet(before) \cup ToSet(new)
      BY <1>1, <1>3, <1>4, Joined
  <1>6. \A c : Waits(c)' <=> c \in ToSet(before) \/ c \in ToSet(new)
      BY <1>5 DEF Waits
  <1>7. \A c : c.tab # t => c \notin ToSet(new)
      BY <1>1 DEF Callback, Queues
  <1> QED BY <1>1, <1>3, <1>5, <1>6, <1>7

LEMMA NothingOpens ==
    ASSUME TabTypes, report' = report, NEW t \in DataTypes, Nothing
    PROVE  Opened(t)
  <1>1. TabTypes'
      BY SameReport DEF Nothing, TabTypes
  <1>2. \A u \in DataTypes \ {t} : Quiet(u)
      BY DEF Nothing, Quiet, Waits
  <1> QED BY <1>1, <1>2 DEF Nothing, Opened

\* The keys that get an element in a tab of graphs.
LEMMA ElementsAre ==
    ASSUME IsReport(report), NEW t, NEW hide
    PROVE  /\ Elements(t, hide) \in Seq(Whats)
           /\ ToSet(Elements(t, hide)) = {k \in KeySet : ~canHide(hide, k)}
  <1> DEFINE S == {k \in KeySet : ~canHide(hide, k)}
  <1>1. all_run_keys \in Seq(KeySet) /\ ToSet(all_run_keys) = KeySet
      BY AllKeysAre
  <1>2. Elements(t, hide) = Kept(all_run_keys, S)
      BY DEF Elements
  <1>3. S \in SUBSET KeySet
      OBVIOUS
  <1> HIDE DEF S
  <1>4. Kept(all_run_keys, S) \in Seq(KeySet) /\ ToSet(Kept(all_run_keys, S)) = KeySet \cap S
      BY <1>1, KeptIs
  <1>5. Elements(t, hide) \in Seq(Whats)
      BY <1>2, <1>4 DEF Whats
  <1>6. ToSet(Elements(t, hide)) = S
      BY <1>2, <1>3, <1>4
  <1> QED BY <1>5, <1>6 DEF S

LEMMA ElementsIfAnyAre ==
    ASSUME IsReport(report), NEW r \in Runs
    PROVE  /\ ElementsIfAny[r] \in Seq(Whats)
           /\ ToSet(ElementsIfAny[r]) = IF KeysOf(r) = {} THEN {} ELSE KeySet
  <1>1. all_run_keys \in Seq(KeySet) /\ ToSet(all_run_keys) = KeySet
      BY AllKeysAre
  <1>2. all_run_keys \in Seq(Whats)
      BY <1>1 DEF Whats
  <1>3. <<>> \in Seq(Whats) /\ ToSet(<<>>) = {}
      BY DEF ToSet
  <1>4. ElementsIfAny[r] = IF KeysOf(r) = {} THEN <<>> ELSE all_run_keys
      BY DEF ElementsIfAny
  <1> QED BY <1>1, <1>2, <1>3, <1>4

LEMMA KeysAreWhats ==
    ASSUME IsReport(report), NEW r \in Runs
    PROVE  report[r].keys \in Seq(Whats) /\ ToSet(report[r].keys) = KeysOf(r)
  <1>1. report[r].keys \in Seq(KeysOf(r)) /\ KeysOf(r) \in SUBSET Whats
      BY DEF IsReport, Runs, KeysOf, KeySet, Whats
  <1> QED BY <1>1 DEF KeysOf

\* A tab that is cleared.
LEMMA Cleared ==
    ASSUME TabTypes, report' = report, NEW t \in DataTypes, page' = clear_and_create(t)
    PROVE  /\ DOMAIN page' = DataTypes /\ \A u \in DataTypes : DOMAIN page'[u] = Runs
           /\ \A r \in Runs : page'[t][r] = {}
           /\ \A u \in DataTypes \ {t} : page'[u] = page[u]
    BY DEF TabTypes, clear_and_create

\* A tab that puts off what it shows.
LEMMA RedrawnOpens ==
    ASSUME TabTypes, report' = report, NEW t \in DataTypes,
           NEW runs \in Seq(Runs), NEW what, \A r \in ToSet(runs) : what[r] \in Seq(Whats),
           NEW before \in {pending, StillPending(t)},
           pending' = before \o Callbacks(t, runs, what),
           page' = clear_and_create(t),
           NEW new, status' = status \/ status' = [status EXCEPT ![t] = new],
           got' \in {got, got \cup {t}},
           key_limits' = key_limits \/ (t \in LimitTabs /\ key_limits'.tab = t),
           run_config' = run_config,
           cpu_lists' = cpu_lists \/ (t \in CpuTabs /\ cpu_lists' = getCPUList(t))
    PROVE  Opened(t)
  <1>1. /\ pending' \in Seq(Queue)
        /\ \A c : c.tab # t => (Waits(c)' <=> Waits(c))
      BY PutOff
  <1>2. /\ DOMAIN page' = DataTypes /\ \A u \in DataTypes : DOMAIN page'[u] = Runs
        /\ \A u \in DataTypes \ {t} : page'[u] = page[u]
      BY Cleared
  <1>3. DOMAIN status' = DataTypes /\ \A u \in DataTypes \ {t} : status'[u] = status[u]
      BY DEF TabTypes
  <1>4. got' \in SUBSET DataTypes /\ \A u \in DataTypes \ {t} : u \in got' <=> u \in got
      BY DEF TabTypes
  <1>5. /\ DOMAIN cpu_lists' = CpuTabs /\ \A u \in CpuTabs : DOMAIN cpu_lists'[u] = Runs
        /\ \A u \in CpuTabs \ {t} : cpu_lists'[u] = cpu_lists[u]
    <2>1. DOMAIN cpu_lists = CpuTabs /\ \A u \in CpuTabs : DOMAIN cpu_lists[u] = Runs
        BY DEF TabTypes
    <2>2. CASE cpu_lists' = cpu_lists
        BY <2>1, <2>2
    <2>3. CASE t \in CpuTabs /\ cpu_lists' = getCPUList(t)
        BY <2>1, <2>3 DEF getCPUList
    <2> QED BY <2>2, <2>3
  <1>6. TabTypes'
      BY <1>1, <1>2, <1>3, <1>4, <1>5, SameReport DEF TabTypes
  <1>7. \A u \in DataTypes \ {t} : Quiet(u)
      BY <1>1, <1>2, <1>3, <1>4, <1>5 DEF Quiet
  <1> QED BY <1>6, <1>7 DEF Opened

LEMMA GraphTabOpens ==
    ASSUME TabTypes, IsReport(report), report' = report, NEW t \in HideTabs, NEW hide,
           GraphTab(t, hide)
    PROVE  Opened(t)
  <1>1. t \in DataTypes
      BY DEF DataTypes, LimitTabs
  <1>2. CASE Nothing
      BY <1>1, <1>2, NothingOpens
  <1>3. CASE ~Nothing
    <2> DEFINE what == [r \in Runs |-> Elements(t, hide)]
    <2>1. /\ status' = [status EXCEPT ![t] = hide]
          /\ form_graph_limits(t)
          /\ page' = clear_and_create(t)
          /\ pending' = StillPending(t) \o Callbacks(t, AllRuns, what)
          /\ got' = got \cup {t}
          /\ UNCHANGED <<run_config, cpu_lists>>
        BY <1>3 DEF GraphTab
    <2>2. t \in LimitTabs /\ key_limits'.tab = t
        BY <2>1 DEF form_graph_limits, LimitTabs
    <2>3. AllRuns \in Seq(Runs) /\ \A r \in ToSet(AllRuns) : what[r] \in Seq(Whats)
        BY RunsAre, ElementsAre
    <2> HIDE DEF what
    <2> QED BY <1>1, <2>1, <2>2, <2>3, RedrawnOpens
  <1> QED BY <1>2, <1>3

LEMMA AperfStatOpens ==
    ASSUME TabTypes, IsReport(report), report' = report, aperfStat
    PROVE  Opened("aperfstat")
  <1> DEFINE t == "aperfstat"
  <1>1. t \in DataTypes
      BY DEF DataTypes, LimitTabs
  <1>2. CASE Nothing
      BY <1>1, <1>2, NothingOpens
  <1>3. CASE ~Nothing
    <2>1. /\ t \in LimitTabs /\ key_limits'.tab = t
          /\ page' = clear_and_create(t)
          /\ pending' = pending \o Callbacks(t, AllRuns, ElementsIfAny)
          /\ got' = got \cup {t}
          /\ UNCHANGED <<status, run_config, cpu_lists>>
        BY <1>3 DEF aperfStat, form_graph_limits, LimitTabs
    <2>2. AllRuns \in Seq(Runs) /\ \A r \in ToSet(AllRuns) : ElementsIfAny[r] \in Seq(Whats)
        BY RunsAre, ElementsIfAnyAre
    <2> HIDE DEF t
    <2>3. Opened(t)
        BY <1>1, <2>1, <2>2, RedrawnOpens
    <2> QED BY <2>3 DEF t
  <1> QED BY <1>2, <1>3

\* The runs for which there is a configuration before the first that has none.
LEMMA ConfiguredIs ==
    ASSUME IsReport(report)
    PROVE  /\ Configured \in Seq(Runs)
           /\ ToSet(Configured) = {r \in Runs : \A q \in Runs \ DOMAIN run_config : r < q}
           /\ ToSet(Configured) \in SUBSET DOMAIN run_config
  <1>1. /\ Configured \in Seq(Runs)
        /\ ToSet(Configured) = {r \in Runs : \A q \in Runs \ DOMAIN run_config : r < q}
    <2> DEFINE throwing == Runs \ DOMAIN run_config
    <2>1. throwing \in SUBSET Runs /\ Configured = Until(throwing)
        BY DEF Configured
    <2> HIDE DEF throwing
    <2>2. /\ Until(throwing) \in Seq(Runs)
          /\ ToSet(Until(throwing)) = {r \in Runs : \A q \in throwing : r < q}
        BY <2>1, UntilIs
    <2> QED BY <2>1, <2>2 DEF throwing
  <1>2. ASSUME NEW r \in ToSet(Configured) PROVE r \in DOMAIN run_config
    <2>1. r \in Nat /\ r \in Runs
        BY <1>1, RunsAre
    <2> QED BY <1>1, <2>1
  <1> QED BY <1>1, <1>2

LEMMA CpuTabOpens ==
    ASSUME TabTypes, IsReport(report), report' = report, NEW t \in CpuTabs,
           NEW keys, \A r \in Runs : keys[r] \in Seq(Whats), CpuTab(t, keys)
    PROVE  Opened(t)
  <1>1. t \in DataTypes
      BY DEF DataTypes
  <1>2. CASE Nothing
      BY <1>1, <1>2, NothingOpens
  <1>3. CASE ~Nothing
    <2>1. /\ page' = clear_and_create(t)
          /\ cpu_lists' = getCPUList(t)
          /\ pending' = StillPending(t) \o Callbacks(t, Configured, keys)
          /\ got' \in {got, got \cup {t}}
          /\ key_limits' = key_limits \/ (t \in LimitTabs /\ key_limits'.tab = t)
          /\ UNCHANGED <<status, run_config>>
        BY <1>3 DEF CpuTab, form_graph_limits
    <2>2. Configured \in Seq(Runs) /\ \A r \in ToSet(Configured) : keys[r] \in Seq(Whats)
        BY ConfiguredIs
    <2> QED BY <1>1, <2>1, <2>2, RedrawnOpens
  <1> QED BY <1>2, <1>3

LEMMA OneCallback ==
    ASSUME NEW w \in Words
    PROVE  \A r \in Runs : /\ [q \in Runs |-> <<w>>][r] \in Seq(Whats)
                           /\ ToSet([q \in Runs |-> <<w>>][r]) = {w}
  <1>1. w \in Whats
      BY DEF Whats
  <1>2. <<w>> \in Seq(Whats) /\ ToSet(<<w>>) = {w}
      BY <1>1 DEF ToSet
  <1> QED BY <1>2

LEMMA ConfigTabOpens ==
    ASSUME TabTypes, IsReport(report), report' = report, NEW t \in DiffTabs,
           NEW diff, NEW later, ConfigTab(t, diff, later)
    PROVE  Opened(t)
  <1>1. t \in DataTypes
      BY DEF DataTypes
  <1>2. CASE Nothing
      BY <1>1, <1>2, NothingOpens
  <1>3. CASE ~Nothing
    <2> DEFINE what == [r \in Runs |-> <<"group">>]
    <2>1. /\ status' = [status EXCEPT ![t] = diff]
          /\ got' \in {got, got \cup {t}}
          /\ UNCHANGED <<key_limits, run_config, cpu_lists>>
        BY <1>3 DEF ConfigTab
    <2>2. pending' = pending \/ pending' = pending \o Callbacks(t, AllRuns, what)
        BY <1>3 DEF ConfigTab
    <2>3. /\ DOMAIN page' = DataTypes /\ \A u \in DataTypes : DOMAIN page'[u] = Runs
          /\ \A u \in DataTypes \ {t} : page'[u] = page[u]
        BY <1>3 DEF ConfigTab, TabTypes
    <2>4. AllRuns \in Seq(Runs) /\ \A r \in ToSet(AllRuns) : what[r] \in Seq(Whats)
      <3>1. "group" \in Words
          BY DEF Words
      <3> QED BY <3>1, OneCallback, RunsAre
    <2> HIDE DEF what
    <2>5. /\ pending' \in Seq(Queue)
          /\ \A c : c.tab # t => (Waits(c)' <=> Waits(c))
      <3>1. CASE pending' = pending
          BY <3>1 DEF TabTypes, Waits
      <3>2. CASE pending' = pending \o Callbacks(t, AllRuns, what)
          BY <1>1, <2>4, <3>2, PutOff
      <3> QED BY <2>2, <3>1, <3>2
    <2>6. TabTypes'
        BY <1>1, <2>1, <2>3, <2>5, SameReport DEF TabTypes
    <2>7. \A u \in DataTypes \ {t} : Quiet(u)
        BY <2>1, <2>3, <2>5 DEF TabTypes, Quiet
    <2> QED BY <2>1, <2>6, <2>7 DEF Opened
  <1> QED BY <1>2, <1>3

LEMMA TextTabOpens ==
    ASSUME TabTypes, IsReport(report), report' = report, NEW t \in DataTypes, TextTab(t)
    PROVE  Opened(t)
  <1>1. CASE Nothing
      BY <1>1, NothingOpens
  <1>2. CASE ~Nothing
    <2> DEFINE what == [r \in Runs |-> <<"text">>]
    <2>1. /\ page' = clear_and_create(t)
          /\ pending' = pending \o Callbacks(t, AllRuns, what)
          /\ got' = got \cup {t}
          /\ UNCHANGED <<status, key_limits, run_config, cpu_lists>>
        BY <1>2 DEF TextTab
    <2>2. AllRuns \in Seq(Runs) /\ \A r \in ToSet(AllRuns) : what[r] \in Seq(Whats)
      <3>1. "text" \in Words
          BY DEF Words
      <3> QED BY <3>1, OneCallback, RunsAre
    <2> HIDE DEF what
    <2> QED BY <2>1, <2>2, RedrawnOpens
  <1> QED BY <1>1, <1>2

LEMMA ProcessesOpens ==
    ASSUME TabTypes, report' = report, processes
    PROVE  Opened("processes")
  <1>1. "processes" \in DataTypes
      BY DEF DataTypes, TextTabs
  <1>2. CASE Nothing
      BY <1>1, <1>2, NothingOpens
  <1>3. CASE ~Nothing
    <2>1. /\ page' = [page EXCEPT !["processes"] = [r \in Runs |-> {Text("text", r)}]]
          /\ got' = got \cup {"processes"}
          /\ UNCHANGED <<status, key_limits, run_config, cpu_lists, pending>>
        BY <1>3 DEF processes
    <2>2. TabTypes'
        BY <1>1, <2>1, SameReport DEF TabTypes
    <2>3. \A u \in DataTypes \ {"processes"} : Quiet(u)
        BY <2>1 DEF TabTypes, Quiet, Waits
    <2> QED BY <2>1, <2>2, <2>3 DEF Opened
  <1> QED BY <1>2, <1>3

LEMMA FlamegraphsOpens ==
    ASSUME TabTypes, IsReport(report), report' = report, NEW set \in Words, flamegraphs(set)
    PROVE  Opened("flamegraphs")
  <1> DEFINE t == "flamegraphs"
  <1>1. t \in DataTypes
      BY DEF DataTypes
  <1>2. CASE Nothing
      BY <1>1, <1>2, NothingOpens
  <1>3. CASE ~Nothing
    <2> DEFINE what == [r \in Runs |-> <<set>>]
    <2>1. /\ status' = [status EXCEPT ![t] = set]
          /\ page' = clear_and_create(t)
          /\ pending' = pending \o Callbacks(t, AllRuns, what)
          /\ UNCHANGED <<got, key_limits, run_config, cpu_lists>>
        BY <1>3 DEF flamegraphs
    <2>2. AllRuns \in Seq(Runs) /\ \A r \in ToSet(AllRuns) : what[r] \in Seq(Whats)
        BY OneCallback, RunsAre
    <2> HIDE DEF t, what
    <2>3. Opened(t)
        BY <1>1, <2>1, <2>2, RedrawnOpens
    <2> QED BY <2>3 DEF t
  <1> QED BY <1>2, <1>3

LEMMA SystemInfoOpens ==
    ASSUME TabTypes, IsReport(report), report' = report, NEW set, systemInfo(set)
    PROVE  Opened("system_info")
  <1> DEFINE t == "system_info"
  <1>1. t \in DataTypes
      BY DEF DataTypes
  <1>2. CASE Nothing
      BY <1>1, <1>2, NothingOpens
  <1>3. CASE ~Nothing
    <2> DEFINE what == [r \in Runs |-> <<"text">>]
    <2>1. /\ status' = [status EXCEPT ![t] = set]
          /\ page' = clear_and_create(t)
          /\ UNCHANGED <<got, key_limits, run_config, cpu_lists>>
        BY <1>3 DEF systemInfo
    <2>2. pending' = pending \/ pending' = pending \o Callbacks(t, AllRuns, what)
        BY <1>3 DEF systemInfo
    <2>3. AllRuns \in Seq(Runs) /\ \A r \in ToSet(AllRuns) : what[r] \in Seq(Whats)
      <3>1. "text" \in Words
          BY DEF Words
      <3> QED BY <3>1, OneCallback, RunsAre
    <2> HIDE DEF t, what
    <2>4. Opened(t)
      <3>1. CASE pending' = pending
        <4>1. /\ DOMAIN page' = DataTypes /\ \A u \in DataTypes : DOMAIN page'[u] = Runs
              /\ \A u \in DataTypes \ {t} : page'[u] = page[u]
            BY <1>1, <2>1, Cleared
        <4>2. TabTypes'
            BY <2>1, <3>1, <4>1, SameReport DEF TabTypes
        <4>3. \A u \in DataTypes \ {t} : Quiet(u)
            BY <2>1, <3>1, <4>1 DEF TabTypes, Quiet, Waits
        <4> QED BY <2>1, <4>2, <4>3 DEF Opened
      <3>2. CASE pending' = pending \o Callbacks(t, AllRuns, what)
          BY <1>1, <2>1, <2>3, <3>2, RedrawnOpens
      <3> QED BY <2>2, <3>1, <3>2
    <2> QED BY <2>4 DEF t
  <1> QED BY <1>2, <1>3

LEMMA ConfigureOpens ==
    ASSUME TabTypes, report' = report, configure
    PROVE  Opened("configure")
  <1>1. "configure" \in DataTypes
      BY DEF DataTypes
  <1>2. CASE Nothing
      BY <1>1, <1>2, NothingOpens
  <1>3. CASE ~Nothing
    <2>1. /\ DOMAIN run_config' = DOMAIN run_config
          /\ got' \in {got, got \cup {"configure"}}
          /\ UNCHANGED <<status, key_limits, cpu_lists, pending>>
        BY <1>3 DEF configure
    <2>2. /\ DOMAIN page' = DataTypes /\ \A u \in DataTypes : DOMAIN page'[u] = Runs
          /\ \A u \in DataTypes \ {"configure"} : page'[u] = page[u]
      <3> DEFINE boxes == [r \in Runs |-> IF r \in ToSet(Configured) THEN {Text("boxes", r)} ELSE {}]
      <3>1. page' = [page EXCEPT !["configure"] = boxes]
          BY <1>3 DEF configure
      <3>2. DOMAIN boxes = Runs
          OBVIOUS
      <3> HIDE DEF boxes
      <3> QED BY <1>1, <3>1, <3>2 DEF TabTypes
    <2>3. TabTypes'
        BY <1>1, <2>1, <2>2, SameReport DEF TabTypes
    <2>4. \A u \in DataTypes \ {"configure"} : Quiet(u)
        BY <2>1, <2>2 DEF TabTypes, Quiet, Waits
    <2> QED BY <2>1, <2>3, <2>4 DEF Opened
  <1> QED BY <1>2, <1>3

\* What is opened changes nothing of another tab, but for the limits that all
\* share and the CPUs that are chosen.
LEMMA OpenedIs ==
    ASSUME TabTypes, IsReport(report), report' = report,
           NEW t \in DataTypes, NEW button \in Words, display_tab(t, button)
    PROVE  Opened(t)
  <1>1. CASE t \in HideTabs /\ GraphTab(t, button)
      BY <1>1, GraphTabOpens
  <1>2. CASE t = "aperfstat" /\ aperfStat
      BY <1>2, AperfStatOpens
  <1>3. CASE t = "perfstat" /\ perfStat
    <2>1. \A r \in Runs : ElementsIfAny[r] \in Seq(Whats)
        BY ElementsIfAnyAre
    <2>2. CpuTab(t, ElementsIfAny) /\ t \in CpuTabs
        BY <1>3 DEF perfStat, CpuTabs
    <2> QED BY <2>1, <2>2, CpuTabOpens
  <1>4. CASE t = "cpu_utilization" /\ cpuUtilization
    <2> DEFINE what == [r \in Runs |-> <<"user">>]
    <2>1. \A r \in Runs : what[r] \in Seq(Whats)
      <3>1. "user" \in Words
          BY DEF Words
      <3> QED BY <3>1, OneCallback
    <2>2. CpuTab(t, what) /\ t \in CpuTabs
        BY <1>4 DEF cpuUtilization, CpuTabs
    <2> HIDE DEF what
    <2> QED BY <2>1, <2>2, CpuTabOpens
  <1>5. CASE t = "interrupts" /\ interrupts
    <2> DEFINE what == [r \in Runs |-> report[r].keys]
    <2>1. \A r \in Runs : what[r] \in Seq(Whats)
        BY KeysAreWhats
    <2>2. CpuTab(t, what) /\ t \in CpuTabs
        BY <1>5 DEF interrupts, CpuTabs
    <2> HIDE DEF what
    <2> QED BY <2>1, <2>2, CpuTabOpens
  <1>6. CASE t \in DiffTabs /\ \E later : ConfigTab(t, button, later)
      BY <1>6, ConfigTabOpens
  <1>7. CASE TextTab(t)
      BY <1>7, TextTabOpens
  <1>8. CASE t = "processes" /\ processes
      BY <1>8, ProcessesOpens
  <1>9. CASE t = "flamegraphs" /\ flamegraphs(button)
      BY <1>9, FlamegraphsOpens
  <1>10. CASE t = "system_info" /\ systemInfo(button)
      BY <1>10, SystemInfoOpens
  <1>11. CASE t = "configure" /\ configure
      BY <1>11, ConfigureOpens
  <1> QED
      BY <1>1, <1>2, <1>3, <1>4, <1>5, <1>6, <1>7, <1>8, <1>9, <1>10, <1>11
      DEF display_tab, meminfo, vmStat, diskStats, netStat, kernelConfig, sysctl,
          topFunctions, aperfRunlog, HideTabs, DiffTabs

-----------------------------------------------------------------------------
\* The invariant, tab by tab.

Fresh == /\ got = {} /\ pending = <<>>
         /\ \A t \in DataTypes : \A r \in Runs : page[t][r] = {}

Base == /\ IsReport(report)
        /\ TabTypes
        /\ view \in DataTypes \cup {"loading", "loaded"}
        /\ view = "loading" => Fresh
        /\ key_limits.tab \in LimitTabs \cup {"none"}
        /\ DOMAIN radio = DataTypes /\ \A t \in DataTypes : radio[t] \in Words

\* What a tab of CPUs shows, and will show, is of the runs that are configured;
\* the CPUs are those of its list, which is the selected one while it is in view.
Cpus(u) ==
    /\ \A r \in Runs : \A g \in page[u][r] :
          r \in ToSet(Configured) /\ g.cpus = cpu_lists[u][r]
    /\ \A c \in ToSet(pending) : c.tab = u => c.run \in ToSet(Configured)
    /\ view = u => \A r \in ToSet(Configured) : cpu_lists[u][r] = run_config[r].cpu_list
    /\ u \in got => Configured = AllRuns

\* The graphs of the tab that formed the limits are drawn or wait to be drawn.
Limits == [k \in KeySet |-> Widened(Lowest(k), Highest(k))]
AllZero(k) == \A q \in WithKey(k) : report[q].limits[k] = [low |-> 0, high |-> 0]
Covers(g, k) == \A q \in WithKey(k) : /\ g.low <= report[q].limits[k].low
                                      /\ g.high >= report[q].limits[k].high
Drawn(u, r, k) == \E g \in page[u][r] : g.key = k /\ Covers(g, k)

Graphs(u) ==
    key_limits.tab = u =>
        /\ key_limits.of = Limits
        /\ u \in got => \A r \in Runs : \A k \in KeysOf(r) :
              \/ status[u] = "yes" /\ AllZero(k)
              \/ Waits(Callback(u, r, k))
              \/ Drawn(u, r, k)

\* A setting is shown when it should be, or waits with its group.
Unfolds(u, r, name) == /\ u = "kernel_config" /\ name \in Nested
                       /\ Waits(Callback(u, r, "group"))
Settings(u) ==
    u \in got => \A r \in Runs :
        LET all == DOMAIN report[r].settings
        IN /\ "settings" \in report[r].has
           /\ status[u] = "yes" => page[u][r] = Diff(r)
           /\ status[u] = "no" =>
                 /\ page[u][r] \in SUBSET NoDiff(r, all)
                 /\ \A name \in all : \/ Text(name, report[r].settings[name]) \in page[u][r]
                                      \/ Unfolds(u, r, name)

Inv == /\ Base
       /\ \A u \in CpuTabs : Cpus(u)
       /\ \A u \in LimitTabs : Graphs(u)
       /\ \A u \in DiffTabs : Settings(u)

LEMMA InvInit == Init => Inv
  <1> SUFFICES ASSUME Init PROVE Inv
      OBVIOUS
  <1>1. IsReport(report)
      BY Collected DEF Init, IsReport
  <1>2. TabTypes
    <2>1. pending \in Seq(Queue)
        BY DEF Init
    <2>2. DOMAIN run_config \in SUBSET Runs
        BY DEF Init
    <2> QED BY <2>1, <2>2 DEF Init, TabTypes
  <1>3. DOMAIN radio = DataTypes /\ \A t \in DataTypes : radio[t] \in Words
    <2>1. \A t : Buttons(t)[1] \in Words
        BY DEF Buttons, Words
    <2> QED BY <2>1 DEF Init
  <1>4. Base
      BY <1>1, <1>2, <1>3 DEF Init, Base, Fresh
  <1>5. ASSUME NEW u \in CpuTabs PROVE Cpus(u)
    <2>1. u \in DataTypes /\ view # u /\ ToSet(pending) = {}
        BY DEF Init, DataTypes, CpuTabs, ToSet
    <2> QED BY <2>1 DEF Init, Cpus
  <1>6. ASSUME NEW u \in LimitTabs PROVE Graphs(u)
      BY DEF Init, Graphs, LimitTabs, HideTabs
  <1>7. ASSUME NEW u \in DiffTabs PROVE Settings(u)
      BY DEF Init, Settings
  <1> QED BY <1>4, <1>5, <1>6, <1>7 DEF Inv

\* What another tab does leaves the part of a tab.
LEMMA CpusElsewhere ==
    ASSUME NEW u \in CpuTabs, Cpus(u), Quiet(u), report' = report,
           DOMAIN run_config' = DOMAIN run_config,
           view' # u \/ (view' = view /\ run_config' = run_config)
    PROVE  Cpus(u)'
  <1>1. Runs' = Runs /\ AllRuns' = AllRuns /\ Configured' = Configured
      BY DEF Runs, AllRuns, Configured, Until
  <1>2. page'[u] = page[u] /\ cpu_lists'[u] = cpu_lists[u] /\ (u \in got' <=> u \in got)
      BY DEF Quiet
  <1>3. \A c \in ToSet(pending') : c.tab = u => c \in ToSet(pending)
      BY DEF Quiet, Waits
  <1>4. \A r \in Runs' : \A g \in page'[u][r] : r \in ToSet(Configured') /\ g.cpus = cpu_lists'[u][r]
      BY <1>1, <1>2 DEF Cpus
  <1>5. \A c \in ToSet(pending') : c.tab = u => c.run \in ToSet(Configured')
      BY <1>1, <1>3 DEF Cpus
  <1>6. view' = u => \A r \in ToSet(Configured') : cpu_lists'[u][r] = run_config'[r].cpu_list
      BY <1>1, <1>2 DEF Cpus
  <1>7. u \in got' => Configured' = AllRuns'
      BY <1>1, <1>2 DEF Cpus
  <1> QED BY <1>4, <1>5, <1>6, <1>7 DEF Cpus

LEMMA SameLimits ==
    ASSUME report' = report
    PROVE  /\ Limits' = Limits
           /\ \A k : AllZero(k)' <=> AllZero(k)
           /\ \A g, k : Covers(g, k)' <=> Covers(g, k)
  <1>1. KeySet' = KeySet /\ \A k : WithKey(k)' = WithKey(k)
      BY SameReport
  <1>2. \A k : Lowest(k)' = Lowest(k) /\ Highest(k)' = Highest(k)
      BY <1>1 DEF Lowest, Highest
  <1>3. Limits' = Limits
      BY <1>1, <1>2 DEF Limits
  <1> QED BY <1>1, <1>3 DEF AllZero, Covers

LEMMA GraphsElsewhere ==
    ASSUME NEW u \in LimitTabs, Graphs(u), Quiet(u), report' = report,
           key_limits' = key_limits \/ key_limits'.tab # u
    PROVE  Graphs(u)'
  <1> SUFFICES ASSUME key_limits'.tab = u
               PROVE  /\ key_limits'.of = Limits'
                      /\ u \in got' => \A r \in Runs' : \A k \in KeysOf(r)' :
                            \/ status'[u] = "yes" /\ AllZero(k)'
                            \/ Waits(Callback(u, r, k))'
                            \/ Drawn(u, r, k)'
      BY DEF Graphs
  <1>1. key_limits' = key_limits /\ key_limits.tab = u
      OBVIOUS
  <1>2. /\ page'[u] = page[u] /\ status'[u] = status[u] /\ (u \in got' <=> u \in got)
        /\ \A c : c.tab = u => (Waits(c)' <=> Waits(c))
      BY DEF Quiet
  <1>3. key_limits'.of = Limits'
      BY <1>1, SameLimits DEF Graphs
  <1>4. ASSUME u \in got', NEW r \in Runs', NEW k \in KeysOf(r)'
        PROVE  \/ status'[u] = "yes" /\ AllZero(k)'
               \/ Waits(Callback(u, r, k))'
               \/ Drawn(u, r, k)'
    <2>1. r \in Runs /\ k \in KeysOf(r) /\ u \in got
        BY <1>2, <1>4, SameReport
    <2>2. \/ status[u] = "yes" /\ AllZero(k)
          \/ Waits(Callback(u, r, k))
          \/ Drawn(u, r, k)
        BY <1>1, <2>1 DEF Graphs
    <2>3. Waits(Callback(u, r, k)) => Waits(Callback(u, r, k))'
        BY <1>2 DEF Callback, Waits
    <2>4. Drawn(u, r, k) => Drawn(u, r, k)'
        BY <1>2, SameLimits DEF Drawn
    <2>5. AllZero(k)' <=> AllZero(k)
        BY SameLimits
    <2> QED BY <1>2, <2>2, <2>3, <2>4, <2>5
  <1> QED BY <1>3, <1>4

LEMMA SameSettings ==
    ASSUME report' = report
    PROVE  \A r : Diff(r)' = Diff(r) /\ \A names : NoDiff(r, names)' = NoDiff(r, names)
  <1>1. Runs' = Runs
      BY SameReport
  <1>2. /\ common_keys' = common_keys
        /\ \A n : isDiffAcrossRuns(n)' <=> isDiffAcrossRuns(n)
        /\ \A r : diff_keys(r)' = diff_keys(r)
      BY <1>1 DEF common_keys, isDiffAcrossRuns, diff_keys, checkIsCommonKey
  <1> QED BY <1>2 DEF Diff, NoDiff

LEMMA SettingsElsewhere ==
    ASSUME NEW u \in DiffTabs, Settings(u), Quiet(u), report' = report
    PROVE  Settings(u)'
  <1>1. /\ page'[u] = page[u] /\ status'[u] = status[u] /\ (u \in got' <=> u \in got)
        /\ \A c : c.tab = u => (Waits(c)' <=> Waits(c))
      BY DEF Quiet
  <1>2. Runs' = Runs
      BY SameReport
  <1>3. \A r, name : Unfolds(u, r, name)' <=> Unfolds(u, r, name)
      BY <1>1 DEF Unfolds, Waits, Callback
  <1>4. SUFFICES ASSUME u \in got', NEW r \in Runs'
                 PROVE  LET all == DOMAIN report[r].settings
                        IN /\ "settings" \in report[r].has
                           /\ status'[u] = "yes" => page'[u][r] = Diff(r)'
                           /\ status'[u] = "no" =>
                                 /\ page'[u][r] \in SUBSET (NoDiff(r, all)')
                                 /\ \A name \in all :
                                       \/ Text(name, report[r].settings[name]) \in page'[u][r]
                                       \/ Unfolds(u, r, name)'
      BY <1>2 DEF Settings
  <1>5. u \in got /\ r \in Runs
      BY <1>1, <1>2, <1>4
  <1>6. LET all == DOMAIN report[r].settings
        IN /\ "settings" \in report[r].has
           /\ status[u] = "yes" => page[u][r] = Diff(r)
           /\ status[u] = "no" =>
                 /\ page[u][r] \in SUBSET NoDiff(r, all)
                 /\ \A name \in all : \/ Text(name, report[r].settings[name]) \in page[u][r]
                                      \/ Unfolds(u, r, name)
      BY <1>5 DEF Settings
  <1>7. Diff(r)' = Diff(r) /\ \A names : NoDiff(r, names)' = NoDiff(r, names)
      BY SameSettings
  <1> QED BY <1>1, <1>3, <1>6, <1>7

-----------------------------------------------------------------------------
\* The limits of a key hold the values of all runs that have it.

LEMMA Tenth ==
    ASSUME NEW low \in Nat, NEW high \in Nat, low <= high
    PROVE  LET w == Widened(low, high)
           IN /\ w.low \in Nat /\ w.high \in Nat /\ w.low <= low /\ high <= w.high
              /\ w.high = 0 => high = 0
  <1> DEFINE extra == (high - low) \div 10
  <1>1. extra \in Nat
    <2>1. high - low \in Nat
        OBVIOUS
    <2> QED BY <2>1
  <1>2. /\ Widened(low, high).low = IF low # 0 /\ low - extra >= 0 THEN low - extra ELSE 0
        /\ Widened(low, high).high = high + extra
      BY DEF Widened
  <1> HIDE DEF extra
  <1> QED BY <1>1, <1>2

LEMMA LimitsCover ==
    ASSUME IsReport(report), NEW k \in KeySet
    PROVE  /\ \A cpus : Covers(Graph(k, Limits[k].low, Limits[k].high, cpus), k)
           /\ Limits[k].low = 0 /\ Limits[k].high = 0 => AllZero(k)
  <1> DEFINE L(r) == report[r].limits[k]
             lows == {L(r).low : r \in WithKey(k)}
             highs == {L(r).high : r \in WithKey(k)}
  <1>1. /\ WithKey(k) # {} /\ IsFiniteSet(WithKey(k))
        /\ \A r \in WithKey(k) : L(r) \in [low : Nat, high : Nat] /\ L(r).low <= L(r).high
    <2>1. WithKey(k) # {} /\ WithKey(k) \in SUBSET Runs
        BY DEF WithKey, KeySet
    <2>2. IsFiniteSet(WithKey(k))
        BY <2>1, RunsAre, FS_Subset
    <2>3. \A r \in WithKey(k) : r \in DOMAIN report /\ k \in DOMAIN report[r].limits
        BY DEF IsReport, WithKey, KeysOf, Runs
    <2> QED BY <2>1, <2>2, <2>3 DEF IsReport
  <1>2. Lowest(k) = Min(lows) /\ Highest(k) = Max(highs)
      BY DEF Lowest, Highest
  <1> HIDE DEF L
  <1>3. /\ \A r \in WithKey(k) : L(r).low \in Nat /\ L(r).high \in Nat
        /\ lows \in SUBSET Int /\ highs \in SUBSET Int
      BY <1>1
  <1>4. /\ Lowest(k) \in Nat /\ \A r \in WithKey(k) : Lowest(k) <= L(r).low
        /\ \E r \in WithKey(k) : Lowest(k) = L(r).low
    <2> DEFINE f == [r \in WithKey(k) |-> L(r).low]
    <2>1. PICK x \in WithKey(k) : \A y \in WithKey(k) : f[x] <= f[y]
      <3>1. \A y \in WithKey(k) : f[y] \in Int
          BY <1>3
      <3> HIDE DEF f
      <3> QED BY <1>1, <3>1, HasLeast
    <2>2. L(x).low \in lows /\ \A y \in lows : L(x).low <= y
        BY <2>1
    <2> HIDE DEF lows
    <2>3. Min(lows) = L(x).low
        BY <1>3, <2>2, MinIs
    <2> QED BY <1>2, <1>3, <2>1, <2>3
  <1>5. /\ Highest(k) \in Nat /\ \A r \in WithKey(k) : L(r).high <= Highest(k)
        /\ \E r \in WithKey(k) : Highest(k) = L(r).high
    <2> DEFINE f == [r \in WithKey(k) |-> L(r).high]
    <2>1. PICK x \in WithKey(k) : \A y \in WithKey(k) : f[y] <= f[x]
      <3>1. \A y \in WithKey(k) : f[y] \in Int
          BY <1>3
      <3> HIDE DEF f
      <3> QED BY <1>1, <3>1, HasGreatest
    <2>2. L(x).high \in highs /\ \A y \in highs : L(x).high >= y
        BY <1>3, <2>1
    <2> HIDE DEF highs
    <2>3. Max(highs) = L(x).high
        BY <1>3, <2>2, MaxIs
    <2> QED BY <1>2, <1>3, <2>1, <2>3
  <1> DEFINE low == Lowest(k)
             high == Highest(k)
             w == Widened(low, high)
  <1>6. Limits[k] = w
      BY DEF Limits
  <1>7. low \in Nat /\ high \in Nat /\ low <= high
    <2>1. PICK r \in WithKey(k) : Lowest(k) = L(r).low
        BY <1>4
    <2>2. L(r).low <= L(r).high /\ L(r).high <= Highest(k)
        BY <1>1, <1>5, <2>1
    <2> QED BY <1>3, <1>4, <1>5, <2>1, <2>2
  <1>8. /\ w.low \in Nat /\ w.high \in Nat /\ w.low <= low /\ high <= w.high
        /\ w.high = 0 => high = 0
    <2> HIDE DEF low, high
    <2> QED BY <1>7, Tenth
  <1> HIDE DEF w, lows, highs
  <1>9. ASSUME NEW cpus PROVE Covers(Graph(k, Limits[k].low, Limits[k].high, cpus), k)
    <2> DEFINE g == Graph(k, w.low, w.high, cpus)
    <2>1. g.low = w.low /\ g.high = w.high
        BY DEF Graph
    <2> HIDE DEF g
    <2>2. \A r \in WithKey(k) : g.low <= L(r).low /\ g.high >= L(r).high
        BY <1>3, <1>4, <1>5, <1>7, <1>8, <2>1
    <2>3. Covers(g, k)
        BY <2>2 DEF Covers, L
    <2> QED BY <1>6, <2>3 DEF g
  <1>10. ASSUME Limits[k].high = 0 PROVE AllZero(k)
    <2>1. \A r \in WithKey(k) : L(r).high = 0 /\ L(r).low = 0
        BY <1>1, <1>3, <1>5, <1>6, <1>7, <1>8, <1>10
    <2>2. \A r \in WithKey(k) : L(r) = [low |-> 0, high |-> 0]
        BY <1>1, <2>1
    <2> QED BY <2>2 DEF AllZero, L
  <1> QED BY <1>9, <1>10

-----------------------------------------------------------------------------
\* The callbacks.

LEMMA Ran ==
    ASSUME TabTypes, NEW c, NEW drawn, Run(c, drawn)
    PROVE  /\ c \in Queue /\ Waits(c) /\ TabTypes'
           /\ \A u \in DataTypes \ {c.tab} : Quiet(u)
           /\ \A d : (Waits(d)' => Waits(d)) /\ (Waits(d) => d = c \/ Waits(d)')
           /\ page'[c.tab][c.run] = page[c.tab][c.run] \cup drawn
           /\ \A r \in Runs \ {c.run} : page'[c.tab][r] = page[c.tab][r]
           /\ UNCHANGED <<report, view, radio, got, status, key_limits, run_config, cpu_lists>>
  <1> DEFINE q == pending
  <1>1. q \in Seq(Queue) /\ q # <<>> /\ c = Head(q) /\ pending' = Tail(q)
      BY DEF TabTypes, Run
  <1> HIDE DEF q
  <1>2. Tail(q) \in Seq(Queue) /\ c \in ToSet(q) /\ ToSet(q) = {c} \cup ToSet(Tail(q))
      BY <1>1, Rest
  <1>3. ToSet(q) \in SUBSET Queue
      BY <1>1, SeqFacts
  <1>4. /\ c \in Queue /\ Waits(c) /\ pending' \in Seq(Queue)
        /\ \A d : (Waits(d)' => Waits(d)) /\ (Waits(d) => d = c \/ Waits(d)')
      BY <1>1, <1>2, <1>3 DEF Waits, q
  <1>5. /\ page' = [page EXCEPT ![c.tab][c.run] = @ \cup drawn]
        /\ UNCHANGED <<report, view, radio, got, status, key_limits, run_config, cpu_lists>>
      BY DEF Run
  <1>6. c.tab \in DataTypes /\ c.run \in Runs
      BY <1>4 DEF Queue
  <1>7. /\ page'[c.tab][c.run] = page[c.tab][c.run] \cup drawn
        /\ \A r \in Runs \ {c.run} : page'[c.tab][r] = page[c.tab][r]
        /\ DOMAIN page' = DataTypes /\ \A u \in DataTypes : DOMAIN page'[u] = Runs
        /\ \A u \in DataTypes \ {c.tab} : page'[u] = page[u]
      BY <1>5, <1>6 DEF TabTypes
  <1>8. TabTypes'
      BY <1>4, <1>5, <1>7, SameReport DEF TabTypes
  <1>9. \A u \in DataTypes \ {c.tab} : Quiet(u)
    <2>1. \A d : d.tab # c.tab => (Waits(d)' <=> Waits(d))
        BY <1>4
    <2> QED BY <1>5, <1>7, <2>1 DEF Quiet
  <1> QED BY <1>4, <1>5, <1>7, <1>8, <1>9

LEMMA CallbackCpus ==
    ASSUME TabTypes, NEW c, NEW drawn, Run(c, drawn), c.tab \in CpuTabs, Cpus(c.tab),
           \A g \in drawn : g.cpus = cpu_lists[c.tab][c.run]
    PROVE  Cpus(c.tab)'
  <1> DEFINE u == c.tab
  <1>1. /\ c \in Queue /\ Waits(c)
        /\ \A d : Waits(d)' => Waits(d)
        /\ page'[u][c.run] = page[u][c.run] \cup drawn
        /\ \A r \in Runs \ {c.run} : page'[u][r] = page[u][r]
        /\ UNCHANGED <<report, view, got, run_config, cpu_lists>>
      BY Ran
  <1>2. Runs' = Runs /\ AllRuns' = AllRuns /\ Configured' = Configured
      BY <1>1 DEF Runs, AllRuns, Configured, Until
  <1>3. c.run \in ToSet(Configured)
      BY <1>1 DEF Cpus, Waits
  <1>4. \A r \in Runs' : \A g \in page'[u][r] : r \in ToSet(Configured') /\ g.cpus = cpu_lists'[u][r]
    <2> SUFFICES ASSUME NEW r \in Runs, NEW g \in page'[u][r]
                 PROVE  r \in ToSet(Configured) /\ g.cpus = cpu_lists[u][r]
        BY <1>1, <1>2
    <2>1. CASE r = c.run /\ g \in drawn
        BY <1>3, <2>1
    <2>2. CASE g \in page[u][r]
        BY <2>2 DEF Cpus
    <2> QED BY <1>1, <2>1, <2>2
  <1>5. \A d \in ToSet(pending') : d.tab = u => d.run \in ToSet(Configured')
      BY <1>1, <1>2 DEF Cpus, Waits
  <1> QED BY <1>1, <1>2, <1>4, <1>5 DEF Cpus

LEMMA CallbackGraphs ==
    ASSUME TabTypes, IsReport(report), NEW c, NEW drawn, Run(c, drawn),
           c.tab \in LimitTabs, Graphs(c.tab),
           key_limits.tab = c.tab /\ c.what \in KeysOf(c.run) =>
               \E cpus : LET limits == key_limits.of[c.what]
                         IN Graph(c.what, limits.low, limits.high, cpus) \in drawn
    PROVE  Graphs(c.tab)'
  <1> DEFINE u == c.tab
  <1>1. /\ c \in Queue
        /\ \A d : Waits(d) => d = c \/ Waits(d)'
        /\ page'[u][c.run] = page[u][c.run] \cup drawn
        /\ \A r \in Runs \ {c.run} : page'[u][r] = page[u][r]
        /\ UNCHANGED <<report, got, status, key_limits>>
      BY Ran
  <1>2. SUFFICES ASSUME key_limits.tab = u
                 PROVE  /\ key_limits.of = Limits
                        /\ u \in got => \A r \in Runs : \A k \in KeysOf(r) :
                              \/ status[u] = "yes" /\ AllZero(k)
                              \/ Waits(Callback(u, r, k))'
                              \/ Drawn(u, r, k)'
    <2>1. /\ Runs' = Runs /\ (\A r : KeysOf(r)' = KeysOf(r))
          /\ Limits' = Limits /\ (\A k : AllZero(k)' <=> AllZero(k))
        BY <1>1, SameReport, SameLimits
    <2> QED BY <1>1, <2>1 DEF Graphs
  <1>3. key_limits.of = Limits
      BY <1>2 DEF Graphs
  <1>4. ASSUME u \in got, NEW r \in Runs, NEW k \in KeysOf(r)
        PROVE  \/ status[u] = "yes" /\ AllZero(k)
               \/ Waits(Callback(u, r, k))'
               \/ Drawn(u, r, k)'
    <2>1. \/ status[u] = "yes" /\ AllZero(k)
          \/ Waits(Callback(u, r, k))
          \/ Drawn(u, r, k)
        BY <1>2, <1>4 DEF Graphs
    <2>2. \A g : Covers(g, k)' <=> Covers(g, k)
        BY <1>1, SameLimits
    <2>3. CASE Drawn(u, r, k)
        BY <1>1, <2>2, <2>3 DEF Drawn
    <2>4. CASE Waits(Callback(u, r, k))
      <3>1. CASE Callback(u, r, k) = c
        <4>1. c.run = r /\ c.what = k
            BY <3>1 DEF Callback
        <4>2. PICK cpus : Graph(k, Limits[k].low, Limits[k].high, cpus) \in drawn
            BY <1>2, <1>3, <1>4, <4>1
        <4>3. k \in KeySet
            BY <1>4 DEF KeySet
        <4> DEFINE g == Graph(k, Limits[k].low, Limits[k].high, cpus)
        <4>4. Covers(g, k)
            BY <4>3, LimitsCover
        <4>5. g \in page'[u][r] /\ g.key = k
            BY <1>1, <4>1, <4>2 DEF Graph
        <4> HIDE DEF g
        <4> QED BY <2>2, <4>4, <4>5 DEF Drawn
      <3>2. CASE Callback(u, r, k) # c
          BY <1>1, <2>4, <3>2 DEF Callback, Waits
      <3> QED BY <3>1, <3>2
    <2> QED BY <2>1, <2>3, <2>4
  <1> QED BY <1>3, <1>4

LEMMA CallbackSettings ==
    ASSUME TabTypes, NEW c, NEW drawn, Run(c, drawn), c.tab = "kernel_config", Settings(c.tab),
           drawn = IF status[c.tab] = "no" THEN NoDiff(c.run, Nested) ELSE {}
    PROVE  Settings(c.tab)'
  <1> DEFINE u == c.tab
  <1>1. /\ c \in Queue
        /\ \A d : Waits(d) => d = c \/ Waits(d)'
        /\ page'[u][c.run] = page[u][c.run] \cup drawn
        /\ \A r \in Runs \ {c.run} : page'[u][r] = page[u][r]
        /\ UNCHANGED <<report, got, status>>
      BY Ran
  <1>2. /\ Runs' = Runs
        /\ \A r : Diff(r)' = Diff(r) /\ \A names : NoDiff(r, names)' = NoDiff(r, names)
      BY <1>1, SameReport, SameSettings
  <1>3. SUFFICES ASSUME u \in got, NEW r \in Runs
                 PROVE  LET all == DOMAIN report[r].settings
                        IN /\ "settings" \in report[r].has
                           /\ status[u] = "yes" => page'[u][r] = Diff(r)
                           /\ status[u] = "no" =>
                                 /\ page'[u][r] \in SUBSET NoDiff(r, all)
                                 /\ \A name \in all :
                                       \/ Text(name, report[r].settings[name]) \in page'[u][r]
                                       \/ Unfolds(u, r, name)'
      BY <1>1, <1>2 DEF Settings
  <1> DEFINE all == DOMAIN report[r].settings
             Shown(name) == Text(name, report[r].settings[name])
  <1>4. /\ "settings" \in report[r].has
        /\ status[u] = "yes" => page[u][r] = Diff(r)
        /\ status[u] = "no" =>
              /\ page[u][r] \in SUBSET NoDiff(r, all)
              /\ \A name \in all : Shown(name) \in page[u][r] \/ Unfolds(u, r, name)
      BY <1>3 DEF Settings
  <1>5. CASE status[u] = "yes"
    <2>1. page'[u][r] = page[u][r]
        BY <1>1, <1>5
    <2> QED BY <1>4, <1>5, <2>1
  <1>6. CASE status[u] = "no"
    <2>1. NoDiff(c.run, Nested) = drawn
        BY <1>6
    <2>2. page'[u][r] \in SUBSET NoDiff(r, all)
      <3>1. NoDiff(r, Nested) \in SUBSET NoDiff(r, all)
          BY DEF NoDiff
      <3> HIDE DEF all
      <3> QED BY <1>1, <1>4, <1>6, <2>1, <3>1
    <2>3. ASSUME NEW name \in all PROVE Shown(name) \in page'[u][r] \/ Unfolds(u, r, name)'
      <3>1. CASE Shown(name) \in page[u][r]
        <4> HIDE DEF Shown
        <4> QED BY <1>1, <3>1
      <3>2. CASE Unfolds(u, r, name) /\ Callback(u, r, "group") = c
        <4>1. c.run = r /\ name \in Nested
            BY <3>2 DEF Unfolds, Callback
        <4>2. Shown(name) \in drawn
            BY <2>1, <2>3, <4>1 DEF NoDiff
        <4> HIDE DEF Shown
        <4> QED BY <1>1, <4>1, <4>2
      <3>3. CASE Unfolds(u, r, name) /\ Callback(u, r, "group") # c
          BY <1>1, <3>3 DEF Unfolds, Callback, Waits
      <3> QED BY <1>4, <1>6, <2>3, <3>1, <3>2, <3>3
    <2> QED BY <1>4, <1>6, <2>2, <2>3
  <1>7. CASE status[u] # "yes" /\ status[u] # "no"
      BY <1>4, <1>7
  <1> QED BY <1>5, <1>6, <1>7

\* The tabs a callback is not of.
LEMMA CallbackElsewhere ==
    ASSUME Inv, NEW c, NEW drawn, Run(c, drawn)
    PROVE  /\ Base' /\ c \in Queue
           /\ \A u \in CpuTabs \ {c.tab} : Cpus(u)'
           /\ \A u \in LimitTabs \ {c.tab} : Graphs(u)'
           /\ \A u \in DiffTabs \ {c.tab} : Settings(u)'
  <1>1. TabTypes /\ IsReport(report)
      BY DEF Inv, Base
  <1>2. /\ c \in Queue /\ Waits(c) /\ TabTypes'
        /\ \A u \in DataTypes \ {c.tab} : Quiet(u)
        /\ UNCHANGED <<report, view, radio, got, status, key_limits, run_config, cpu_lists>>
      BY <1>1, Ran
  <1>3. view # "loading"
    <2>1. pending # <<>>
        BY DEF Run
    <2> QED BY <2>1 DEF Inv, Base, Fresh
  <1>4. Base'
    <2>1. IsReport(report')
        BY <1>1, <1>2
    <2> QED BY <1>2, <1>3, <2>1 DEF Inv, Base
  <1>5. ASSUME NEW u \in CpuTabs \ {c.tab} PROVE Cpus(u)'
    <2>1. Cpus(u) /\ Quiet(u)
        BY <1>2 DEF Inv, DataTypes
    <2> QED BY <1>2, <2>1, CpusElsewhere
  <1>6. ASSUME NEW u \in LimitTabs \ {c.tab} PROVE Graphs(u)'
    <2>1. Graphs(u) /\ Quiet(u)
        BY <1>2 DEF Inv, DataTypes
    <2> QED BY <1>2, <2>1, GraphsElsewhere
  <1>7. ASSUME NEW u \in DiffTabs \ {c.tab} PROVE Settings(u)'
    <2>1. Settings(u) /\ Quiet(u)
        BY <1>2 DEF Inv, DataTypes
    <2> QED BY <1>2, <2>1, SettingsElsewhere
  <1> QED BY <1>2, <1>4, <1>5, <1>6, <1>7

LEMMA TabsApart ==
    /\ LimitTabs \cap DiffTabs = {} /\ CpuTabs \cap DiffTabs = {}
    /\ (TextTabs \cup {"system_info", "flamegraphs"}) \cap (LimitTabs \cup CpuTabs \cup DiffTabs) = {}
    BY DEF LimitTabs, HideTabs, CpuTabs, DiffTabs, TextTabs

\* A callback that draws a graph, or none.
LEMMA GraphCallback ==
    ASSUME Inv, NEW c, DrawGraph(c) \/ GraphFails(c) \/ emptyGraph(c)
    PROVE  Inv'
  <1> DEFINE limits == key_limits.of[c.what]
             graph == Graph(c.what, limits.low, limits.high, CpusShown(c))
  <1>1. PICK drawn \in {{}, {graph}} :
            /\ c.tab \in LimitTabs /\ Run(c, drawn)
            /\ key_limits.tab = c.tab /\ c.what \in KeysOf(c.run) => drawn = {graph}
      BY DEF DrawGraph, GraphFails, emptyGraph
  <1>2. /\ Base' /\ c \in Queue
        /\ \A u \in CpuTabs \ {c.tab} : Cpus(u)'
        /\ \A u \in LimitTabs \ {c.tab} : Graphs(u)'
        /\ \A u \in DiffTabs \ {c.tab} : Settings(u)'
      BY <1>1, CallbackElsewhere
  <1>3. ASSUME c.tab \in CpuTabs PROVE Cpus(c.tab)'
    <2>1. \A g \in drawn : g.cpus = cpu_lists[c.tab][c.run]
        BY <1>3 DEF Graph, CpusShown
    <2>2. TabTypes /\ Cpus(c.tab)
        BY <1>3 DEF Inv, Base
    <2> QED BY <1>1, <1>3, <2>1, <2>2, CallbackCpus
  <1>4. Graphs(c.tab)'
    <2>1. key_limits.tab = c.tab /\ c.what \in KeysOf(c.run) =>
              \E cpus : LET l == key_limits.of[c.what]
                        IN Graph(c.what, l.low, l.high, cpus) \in drawn
        BY <1>1
    <2>2. TabTypes /\ IsReport(report) /\ Graphs(c.tab)
        BY <1>1 DEF Inv, Base
    <2> QED BY <1>1, <2>1, <2>2, CallbackGraphs
  <1>5. c.tab \notin DiffTabs
      BY <1>1, TabsApart
  <1> QED BY <1>2, <1>3, <1>4, <1>5 DEF Inv

LEMMA CallbackStep == ASSUME Inv, RunCallback PROVE Inv'
  <1>1. PICK c \in ToSet(pending) :
            DrawGraph(c) \/ GraphFails(c) \/ emptyGraph(c) \/ DrawCPUs(c) \/ createEntries(c) \/ AddText(c)
      BY DEF RunCallback
  <1>2. CASE DrawGraph(c) \/ GraphFails(c) \/ emptyGraph(c)
      BY <1>2, GraphCallback
  <1>3. CASE DrawCPUs(c)
    <2> DEFINE drawn == {Graph(c.what, 0, 100, CpusShown(c))}
    <2>1. c.tab \in CpuTabs \ LimitTabs /\ Run(c, drawn)
        BY <1>3 DEF DrawCPUs
    <2>2. /\ Base'
          /\ \A u \in CpuTabs \ {c.tab} : Cpus(u)'
          /\ \A u \in LimitTabs \ {c.tab} : Graphs(u)'
          /\ \A u \in DiffTabs \ {c.tab} : Settings(u)'
        BY <2>1, CallbackElsewhere
    <2>3. Cpus(c.tab)'
      <3>1. \A g \in drawn : g.cpus = cpu_lists[c.tab][c.run]
          BY <2>1 DEF Graph, CpusShown
      <3>2. TabTypes /\ Cpus(c.tab)
          BY <2>1 DEF Inv, Base
      <3> QED BY <2>1, <3>1, <3>2, CallbackCpus
    <2>4. c.tab \notin LimitTabs /\ c.tab \notin DiffTabs
        BY <2>1, TabsApart
    <2> QED BY <2>2, <2>3, <2>4 DEF Inv
  <1>4. CASE createEntries(c)
    <2> DEFINE drawn == IF status[c.tab] = "no" THEN NoDiff(c.run, Nested) ELSE {}
    <2>1. c.tab = "kernel_config" /\ Run(c, drawn)
        BY <1>4 DEF createEntries
    <2>2. /\ Base'
          /\ \A u \in CpuTabs \ {c.tab} : Cpus(u)'
          /\ \A u \in LimitTabs \ {c.tab} : Graphs(u)'
          /\ \A u \in DiffTabs \ {c.tab} : Settings(u)'
        BY <2>1, CallbackElsewhere
    <2>3. c.tab \in DiffTabs
        BY <2>1 DEF DiffTabs
    <2>4. Settings(c.tab)'
      <3>1. TabTypes /\ Settings(c.tab)
          BY <2>3 DEF Inv, Base
      <3> QED BY <2>1, <3>1, CallbackSettings
    <2>5. c.tab \notin LimitTabs /\ c.tab \notin CpuTabs
        BY <2>3, TabsApart
    <2> QED BY <2>2, <2>4, <2>5 DEF Inv
  <1>5. CASE AddText(c)
    <2> DEFINE drawn == IF Unparsable(c) THEN {} ELSE {Text(c.what, c.run)}
    <2>1. Run(c, drawn) /\ c.tab \notin LimitTabs \cup CpuTabs \cup DiffTabs
        BY <1>5, TabsApart DEF AddText
    <2>2. /\ Base'
          /\ \A u \in CpuTabs \ {c.tab} : Cpus(u)'
          /\ \A u \in LimitTabs \ {c.tab} : Graphs(u)'
          /\ \A u \in DiffTabs \ {c.tab} : Settings(u)'
        BY <2>1, CallbackElsewhere
    <2> QED BY <2>1, <2>2 DEF Inv
  <1> QED BY <1>1, <1>2, <1>3, <1>4, <1>5

-----------------------------------------------------------------------------
\* A tab that is opened.

LEMMA OpensGraphs ==
    ASSUME TabTypes, IsReport(report), report' = report, NEW t \in LimitTabs, Graphs(t),
           \/ Nothing
           \/ /\ form_graph_limits(t)
              /\ \A r \in Runs : \A k \in KeysOf(r) :
                    \/ status'[t] = "yes" /\ canHide("yes", k)
                    \/ Waits(Callback(t, r, k))'
    PROVE  Graphs(t)'
  <1>1. CASE Nothing
    <2>1. /\ Runs' = Runs /\ (\A r : KeysOf(r)' = KeysOf(r))
          /\ Limits' = Limits /\ (\A k : AllZero(k)' <=> AllZero(k))
          /\ \A g, k : Covers(g, k)' <=> Covers(g, k)
        BY SameReport, SameLimits
    <2> QED BY <1>1, <2>1 DEF Nothing, Graphs, Drawn, Waits
  <1>2. CASE ~Nothing
    <2>1. /\ Runs' = Runs /\ (\A r : KeysOf(r)' = KeysOf(r))
          /\ Limits' = Limits /\ (\A k : AllZero(k)' <=> AllZero(k))
        BY SameReport, SameLimits
    <2>2. key_limits'.of = Limits
        BY <1>2 DEF form_graph_limits, Limits
    <2>3. ASSUME NEW r \in Runs, NEW k \in KeysOf(r)
          PROVE  \/ status'[t] = "yes" /\ AllZero(k)
                 \/ Waits(Callback(t, r, k))'
      <3>1. canHide("yes", k) => Limits[k].low = 0 /\ Limits[k].high = 0
          BY <2>2 DEF canHide
      <3>2. k \in KeySet
          BY <2>3 DEF KeySet
      <3>3. canHide("yes", k) => AllZero(k)
          BY <3>1, <3>2, LimitsCover
      <3> QED BY <1>2, <2>3, <3>3
    <2> QED BY <2>1, <2>2, <2>3 DEF Graphs
  <1> QED BY <1>1, <1>2

LEMMA GraphTabGraphs ==
    ASSUME TabTypes, IsReport(report), report' = report, NEW t \in HideTabs, Graphs(t),
           NEW hide, GraphTab(t, hide)
    PROVE  Graphs(t)'
  <1>1. t \in DataTypes /\ t \in LimitTabs
      BY DEF DataTypes, LimitTabs
  <1>2. CASE Nothing
      BY <1>1, <1>2, OpensGraphs
  <1>3. CASE ~Nothing
    <2> DEFINE what == [r \in Runs |-> Elements(t, hide)]
    <2>1. /\ status' = [status EXCEPT ![t] = hide]
          /\ form_graph_limits(t)
          /\ pending' = StillPending(t) \o Callbacks(t, AllRuns, what)
        BY <1>3 DEF GraphTab
    <2>2. /\ AllRuns \in Seq(Runs) /\ ToSet(AllRuns) = Runs
          /\ \A r \in ToSet(AllRuns) : what[r] \in Seq(Whats)
          /\ \A r \in Runs : ToSet(what[r]) = {k \in KeySet : ~canHide(hide, k)}
        BY RunsAre, ElementsAre
    <2> HIDE DEF what
    <2>3. \A c : Queues(c, t, AllRuns, what) => Waits(c)'
        BY <1>1, <2>1, <2>2, PutOff
    <2>4. status'[t] = hide
        BY <1>1, <2>1 DEF TabTypes
    <2>5. ASSUME NEW r \in Runs, NEW k \in KeysOf(r)
          PROVE  \/ status'[t] = "yes" /\ canHide("yes", k)
                 \/ Waits(Callback(t, r, k))'
      <3>1. k \in KeySet
          BY <2>5 DEF KeySet
      <3>2. canHide(hide, k) => status'[t] = "yes" /\ canHide("yes", k)
          BY <2>4 DEF canHide
      <3>3. ~canHide(hide, k) => k \in ToSet(what[r])
          BY <2>2, <3>1
      <3>4. k \in ToSet(what[r]) => Waits(Callback(t, r, k))'
          BY <2>2, <2>3 DEF Waits, Queues
      <3> QED BY <3>2, <3>3, <3>4
    <2> QED BY <1>1, <2>1, <2>5, OpensGraphs
  <1> QED BY <1>2, <1>3

LEMMA AperfStatGraphs ==
    ASSUME TabTypes, IsReport(report), report' = report, Graphs("aperfstat"), aperfStat
    PROVE  Graphs("aperfstat")'
  <1> DEFINE t == "aperfstat"
  <1>1. t \in DataTypes /\ t \in LimitTabs
      BY DEF DataTypes, LimitTabs
  <1>2. CASE Nothing
      BY <1>1, <1>2, OpensGraphs
  <1>3. CASE ~Nothing
    <2>1. form_graph_limits(t) /\ pending' = pending \o Callbacks(t, AllRuns, ElementsIfAny)
        BY <1>3 DEF aperfStat
    <2> DEFINE what == ElementsIfAny
    <2>2. /\ AllRuns \in Seq(Runs) /\ ToSet(AllRuns) = Runs
          /\ \A r \in ToSet(AllRuns) : what[r] \in Seq(Whats)
          /\ \A r \in Runs : KeysOf(r) # {} => ToSet(what[r]) = KeySet
        BY RunsAre, ElementsIfAnyAre
    <2>3. pending' = pending \o Callbacks(t, AllRuns, what)
        BY <2>1
    <2> HIDE DEF what, t
    <2>4. \A c : Queues(c, t, AllRuns, what) => Waits(c)'
        BY <1>1, <2>2, <2>3, PutOff
    <2>5. \A r \in Runs : \A k \in KeysOf(r) : Waits(Callback(t, r, k))'
      <3>1. \A r \in Runs : \A k \in KeysOf(r) : k \in ToSet(what[r])
          BY <2>2 DEF KeySet
      <3> QED BY <2>2, <2>4, <3>1 DEF Waits, Queues
    <2>6. Graphs(t) => Graphs(t)'
        BY <1>1, <2>1, <2>5, OpensGraphs
    <2> QED BY <2>6 DEF t
  <1> QED BY <1>2, <1>3

\* All runs are configured, or the tab is not done and is drawn anew next time.
LEMMA PerfStatGraphs ==
    ASSUME TabTypes, IsReport(report), report' = report, Graphs("perfstat"), Cpus("perfstat"),
           perfStat
    PROVE  Graphs("perfstat")'
  <1> DEFINE t == "perfstat"
  <1>1. t \in DataTypes /\ t \in LimitTabs
      BY DEF DataTypes, LimitTabs
  <1>2. CASE Nothing
      BY <1>1, <1>2, OpensGraphs
  <1>3. CASE ~Nothing
    <2> DEFINE what == ElementsIfAny
    <2>1. /\ form_graph_limits(t)
          /\ pending' = StillPending(t) \o Callbacks(t, Configured, what)
          /\ got' = IF Configured = AllRuns THEN got \cup {t} ELSE got
        BY <1>1, <1>3 DEF perfStat, CpuTab
    <2>2. CASE t \in got'
      <3>1. Configured = AllRuns
          BY <2>1, <2>2 DEF Cpus
      <3>2. /\ AllRuns \in Seq(Runs) /\ ToSet(AllRuns) = Runs
            /\ \A r \in ToSet(AllRuns) : what[r] \in Seq(Whats)
            /\ \A r \in Runs : KeysOf(r) # {} => ToSet(what[r]) = KeySet
          BY RunsAre, ElementsIfAnyAre
      <3>3. pending' = StillPending(t) \o Callbacks(t, AllRuns, what)
          BY <2>1, <3>1
      <3> HIDE DEF what, t
      <3>4. \A c : Queues(c, t, AllRuns, what) => Waits(c)'
          BY <1>1, <3>2, <3>3, PutOff
      <3>5. \A r \in Runs : \A k \in KeysOf(r) : Waits(Callback(t, r, k))'
        <4>1. \A r \in Runs : \A k \in KeysOf(r) : k \in ToSet(what[r])
            BY <3>2 DEF KeySet
        <4> QED BY <3>2, <3>4, <4>1 DEF Waits, Queues
      <3>6. Graphs(t) => Graphs(t)'
          BY <1>1, <2>1, <3>5, OpensGraphs
      <3> QED BY <3>6 DEF t
    <2>3. CASE t \notin got'
      <3>1. key_limits'.of = Limits'
          BY <2>1, SameLimits DEF form_graph_limits, Limits
      <3> QED BY <2>3, <3>1 DEF Graphs
    <2> QED BY <2>2, <2>3
  <1> QED BY <1>2, <1>3

LEMMA OpensCpus ==
    ASSUME TabTypes, IsReport(report), report' = report, NEW t \in CpuTabs, Cpus(t),
           NEW keys, \A r \in Runs : keys[r] \in Seq(Whats), CpuTab(t, keys), view' = t
    PROVE  Cpus(t)'
  <1>1. /\ Configured \in Seq(Runs) /\ ToSet(Configured) \in SUBSET Runs
        /\ t \in DataTypes
      BY ConfiguredIs DEF DataTypes
  <1>2. run_config' = run_config
      BY DEF CpuTab, Nothing
  <1>3. Runs' = Runs /\ AllRuns' = AllRuns /\ Configured' = Configured
      BY <1>2 DEF Runs, AllRuns, Configured, Until
  <1>4. CASE t \in got /\ allRunCPUListUnchanged(t) /\ Nothing
    <2>1. \A r \in ToSet(Configured) : cpu_lists[t][r] = run_config[r].cpu_list
        BY <1>1, <1>4 DEF allRunCPUListUnchanged, isCPUListUnchanged
    <2> QED BY <1>2, <1>3, <1>4, <2>1 DEF Nothing, Cpus
  <1>5. CASE ~(t \in got /\ allRunCPUListUnchanged(t))
    <2>1. /\ page' = clear_and_create(t)
          /\ cpu_lists' = getCPUList(t)
          /\ pending' = StillPending(t) \o Callbacks(t, Configured, keys)
          /\ got' = IF Configured = AllRuns THEN got \cup {t} ELSE got
        BY <1>5 DEF CpuTab
    <2>2. \A r \in Runs : page'[t][r] = {}
        BY <1>1, <2>1, Cleared
    <2>3. \A c \in ToSet(pending') : c.tab = t => c.run \in ToSet(Configured)
      <3>1. \A c : Waits(c)' => Waits(c) \/ Queues(c, t, Configured, keys)
        <4> DEFINE before == StillPending(t)
                   runs == Configured
        <4>1. /\ before \in {pending, StillPending(t)} /\ runs \in Seq(Runs)
              /\ \A r \in ToSet(runs) : keys[r] \in Seq(Whats)
              /\ pending' = before \o Callbacks(t, runs, keys)
            BY <1>1, <2>1
        <4> HIDE DEF before, runs
        <4>2. \A c : Waits(c)' => Waits(c) \/ Queues(c, t, runs, keys)
            BY <1>1, <4>1, PutOff
        <4> QED BY <4>2 DEF before, runs
      <3>2. \A c : Waits(c) => (c.tab = t => c.run \in ToSet(Configured))
          BY DEF Cpus, Waits
      <3>3. \A r, w : Callback(t, r, w).run = r
          BY DEF Callback
      <3> SUFFICES ASSUME NEW c, Waits(c)', c.tab = t PROVE c.run \in ToSet(Configured)
          BY DEF Waits
      <3>4. CASE Waits(c)
          BY <3>2, <3>4
      <3>5. CASE Queues(c, t, Configured, keys)
          BY <3>3, <3>5 DEF Queues
      <3> QED BY <3>1, <3>4, <3>5
    <2>4. \A r \in ToSet(Configured) : cpu_lists'[t][r] = run_config[r].cpu_list
        BY <1>1, <2>1 DEF TabTypes, getCPUList
    <2>5. t \in got' => Configured = AllRuns
        BY <2>1 DEF Cpus
    <2> QED BY <1>2, <1>3, <2>2, <2>3, <2>4, <2>5 DEF Cpus
  <1> QED BY <1>4, <1>5 DEF CpuTab

LEMMA OpensSettings ==
    ASSUME TabTypes, IsReport(report), report' = report, NEW t \in DiffTabs, Settings(t),
           NEW diff, NEW later, later = IF t = "kernel_config" THEN Nested ELSE {},
           ConfigTab(t, diff, later)
    PROVE  Settings(t)'
  <1>1. /\ t \in DataTypes
        /\ Runs' = Runs
        /\ \A r : Diff(r)' = Diff(r) /\ \A names : NoDiff(r, names)' = NoDiff(r, names)
      BY SameReport, SameSettings DEF DataTypes
  <1>2. CASE Nothing
      BY <1>1, <1>2 DEF Nothing, Settings, Unfolds, Waits
  <1>3. CASE ~Nothing
    <2> DEFINE what == [r \in Runs |-> <<"group">>]
               rest(r) == DOMAIN report[r].settings \ later
    <2>1. status' = [status EXCEPT ![t] = diff]
        BY <1>3 DEF ConfigTab
    <2>2. CASE \E r \in Runs : "settings" \notin report[r].has
      <3>1. t \notin got
          BY <2>2 DEF Settings
      <3>2. got' = got
          BY <1>3, <2>2 DEF ConfigTab
      <3> QED BY <3>1, <3>2 DEF Settings
    <2>3. CASE \A r \in Runs : "settings" \in report[r].has
      <3>1. /\ page' = [page EXCEPT ![t] = [r \in Runs |->
                            IF diff = "yes" THEN Diff(r) ELSE NoDiff(r, rest(r))]]
            /\ pending' = IF diff = "yes" \/ later = {} THEN pending
                          ELSE pending \o Callbacks(t, AllRuns, what)
          BY <1>3, <2>3 DEF ConfigTab
      <3>2. status'[t] = diff
          BY <1>1, <2>1 DEF TabTypes
      <3>3. \A r \in Runs : page'[t][r] = IF diff = "yes" THEN Diff(r) ELSE NoDiff(r, rest(r))
          BY <1>1, <3>1 DEF TabTypes
      <3>4. ASSUME later # {}, diff = "no", NEW r \in Runs
            PROVE  t = "kernel_config" /\ Waits(Callback(t, r, "group"))'
        <4>1. "group" \in Words
            BY DEF Words
        <4>2. /\ AllRuns \in Seq(Runs) /\ ToSet(AllRuns) = Runs
              /\ \A q \in ToSet(AllRuns) : what[q] \in Seq(Whats) /\ ToSet(what[q]) = {"group"}
            BY <4>1, OneCallback, RunsAre
        <4>3. pending' = pending \o Callbacks(t, AllRuns, what)
            BY <3>1, <3>4
        <4> HIDE DEF what
        <4>4. \A c : Queues(c, t, AllRuns, what) => Waits(c)'
            BY <1>1, <4>2, <4>3, PutOff
        <4>5. Queues(Callback(t, r, "group"), t, AllRuns, what)
            BY <4>2 DEF Queues
        <4> QED BY <3>4, <4>4, <4>5 DEF Waits
      <3>5. ASSUME NEW r \in Runs, diff = "no"
            PROVE  LET all == DOMAIN report[r].settings
                   IN /\ page'[t][r] \in SUBSET NoDiff(r, all)
                      /\ \A name \in all :
                            \/ Text(name, report[r].settings[name]) \in page'[t][r]
                            \/ Unfolds(t, r, name)'
        <4>1. page'[t][r] = NoDiff(r, rest(r))
            BY <3>3, <3>5
        <4>2. NoDiff(r, rest(r)) \in SUBSET NoDiff(r, DOMAIN report[r].settings)
            BY DEF NoDiff
        <4>3. ASSUME NEW name \in DOMAIN report[r].settings
              PROVE  \/ Text(name, report[r].settings[name]) \in page'[t][r]
                     \/ Unfolds(t, r, name)'
          <5>1. CASE name \in later
              BY <3>4, <3>5, <5>1 DEF Unfolds
          <5>2. CASE name \notin later
              BY <4>1, <5>2 DEF NoDiff
          <5> QED BY <5>1, <5>2
        <4> QED BY <4>1, <4>2, <4>3
      <3> HIDE DEF rest, what
      <3> QED BY <1>1, <2>3, <3>2, <3>3, <3>5 DEF Settings
    <2> QED BY <2>2, <2>3
  <1> QED BY <1>2, <1>3

\* What is opened keeps the invariant of its tab as well.
LEMMA OpenStep ==
    ASSUME Inv, report' = report, NEW t \in DataTypes, NEW button \in Words,
           display_tab(t, button), view' = t,
           DOMAIN radio' = DataTypes, \A u \in DataTypes : radio'[u] \in Words
    PROVE  Inv'
  <1>1. TabTypes /\ IsReport(report)
      BY DEF Inv, Base
  <1>2. /\ TabTypes'
        /\ \A u \in DataTypes \ {t} : Quiet(u)
        /\ key_limits' = key_limits \/ (t \in LimitTabs /\ key_limits'.tab = t)
        /\ DOMAIN run_config' = DOMAIN run_config
        /\ t # "configure" => run_config' = run_config
      BY <1>1, OpenedIs DEF Opened
  <1>3. Base'
    <2>1. IsReport(report') /\ view' # "loading"
        BY <1>1 DEF DataTypes, LimitTabs, HideTabs, CpuTabs, DiffTabs, TextTabs
    <2>2. key_limits'.tab \in LimitTabs \cup {"none"}
        BY <1>2 DEF Inv, Base
    <2> QED BY <1>2, <2>1, <2>2 DEF Base
  <1>4. ASSUME NEW u \in CpuTabs PROVE Cpus(u)'
    <2>1. Cpus(u) /\ u \in DataTypes
        BY DEF Inv, DataTypes
    <2>2. CASE u # t
        BY <1>2, <2>1, <2>2, CpusElsewhere
    <2>3. CASE u = t /\ t = "perfstat"
      <3>1. CpuTab(u, ElementsIfAny)
          BY <2>3 DEF display_tab, perfStat
      <3>2. \A r \in Runs : ElementsIfAny[r] \in Seq(Whats)
          BY <1>1, ElementsIfAnyAre
      <3> QED BY <1>1, <2>1, <2>3, <3>1, <3>2, OpensCpus
    <2>4. CASE u = t /\ t = "cpu_utilization"
      <3> DEFINE what == [r \in Runs |-> <<"user">>]
      <3>1. CpuTab(u, what)
          BY <2>4 DEF display_tab, cpuUtilization
      <3>2. \A r \in Runs : what[r] \in Seq(Whats)
        <4>1. "user" \in Words
            BY DEF Words
        <4> QED BY <4>1, OneCallback
      <3> HIDE DEF what
      <3> QED BY <1>1, <2>1, <2>4, <3>1, <3>2, OpensCpus
    <2>5. CASE u = t /\ t = "interrupts"
      <3> DEFINE what == [r \in Runs |-> report[r].keys]
      <3>1. CpuTab(u, what)
          BY <2>5 DEF display_tab, interrupts
      <3>2. \A r \in Runs : what[r] \in Seq(Whats)
          BY <1>1, KeysAreWhats
      <3> HIDE DEF what
      <3> QED BY <1>1, <2>1, <2>5, <3>1, <3>2, OpensCpus
    <2> QED BY <2>2, <2>3, <2>4, <2>5 DEF CpuTabs
  <1>5. ASSUME NEW u \in LimitTabs PROVE Graphs(u)'
    <2>1. Graphs(u) /\ u \in DataTypes
        BY DEF Inv, DataTypes
    <2>2. CASE u # t
        BY <1>2, <2>1, <2>2, GraphsElsewhere
    <2>3. CASE u = t /\ t = "perfstat"
      <3>1. perfStat /\ Cpus("perfstat")
          BY <2>3 DEF display_tab, Inv, CpuTabs
      <3> QED BY <1>1, <2>1, <2>3, <3>1, PerfStatGraphs
    <2>4. CASE u = t /\ t = "aperfstat"
      <3>1. aperfStat
          BY <2>4 DEF display_tab
      <3> QED BY <1>1, <2>1, <2>4, <3>1, AperfStatGraphs
    <2>5. CASE u = t /\ t \in HideTabs
      <3>1. GraphTab(u, button)
          BY <2>5 DEF display_tab, meminfo, vmStat, diskStats, netStat, HideTabs
      <3> QED BY <1>1, <2>1, <2>5, <3>1, GraphTabGraphs
    <2> QED BY <2>2, <2>3, <2>4, <2>5 DEF LimitTabs
  <1>6. ASSUME NEW u \in DiffTabs PROVE Settings(u)'
    <2>1. Settings(u) /\ u \in DataTypes
        BY DEF Inv, DataTypes
    <2>2. CASE u # t
        BY <1>2, <2>1, <2>2, SettingsElsewhere
    <2>3. CASE u = t
      <3> DEFINE later == IF u = "kernel_config" THEN Nested ELSE {}
      <3>1. ConfigTab(u, button, later)
          BY <2>3 DEF display_tab, kernelConfig, sysctl, DiffTabs
      <3> HIDE DEF later
      <3>2. later = IF u = "kernel_config" THEN Nested ELSE {}
          BY DEF later
      <3> QED BY <1>1, <2>1, <3>1, <3>2, OpensSettings
    <2> QED BY <2>2, <2>3
  <1> QED BY <1>3, <1>4, <1>5, <1>6 DEF Inv

\* The script of the page starts with nothing shown.
LEMMA LoadStep == ASSUME Inv, Load PROVE Inv'
  <1>1. /\ view = "loading" /\ view' = "loaded" /\ got = {} /\ pending = <<>>
        /\ \A t \in DataTypes : \A r \in Runs : page[t][r] = {}
        /\ UNCHANGED <<report, radio, got, status, key_limits, cpu_lists, page, pending>>
      BY DEF Inv, Base, Fresh, Load
  <1>2. Runs' = Runs
      BY <1>1, SameReport
  <1>3. DOMAIN run_config' \in SUBSET Runs
    <2> DEFINE throwing == {r \in Runs : "cpu" \notin report[r].has}
    <2>1. DOMAIN run_config' = ToSet(Until(throwing))
        BY DEF Load
    <2>2. throwing \in SUBSET Runs /\ IsReport(report)
        BY DEF Inv, Base
    <2> HIDE DEF throwing
    <2>3. ToSet(Until(throwing)) = {r \in Runs : \A q \in throwing : r < q}
        BY <2>2, UntilIs
    <2> QED BY <2>1, <2>3
  <1>4. TabTypes'
    <2>1. TabTypes
        BY DEF Inv, Base
    <2> QED BY <1>1, <1>3, <2>1, SameReport DEF TabTypes
  <1>5. Base'
      BY <1>1, <1>4 DEF Inv, Base
  <1>6. ToSet(pending') = {}
      BY <1>1 DEF ToSet
  <1>7. ASSUME NEW u \in CpuTabs PROVE Cpus(u)'
    <2>1. u \in DataTypes /\ u # "loaded"
        BY DEF DataTypes, CpuTabs
    <2> QED BY <1>1, <1>2, <1>6, <2>1 DEF Cpus
  <1>8. ASSUME NEW u \in LimitTabs PROVE Graphs(u)'
    <2>1. Graphs(u) /\ Quiet(u)
        BY <1>1 DEF Inv, Quiet, Waits
    <2> QED BY <1>1, <2>1, GraphsElsewhere
  <1>9. ASSUME NEW u \in DiffTabs PROVE Settings(u)'
      BY <1>1 DEF Settings
  <1> QED BY <1>5, <1>7, <1>8, <1>9 DEF Inv

\* The CPUs that are chosen matter to no tab until it is in view.
LEMMA ChosenStep ==
    ASSUME Inv, view = "configure", DOMAIN run_config' = DOMAIN run_config,
           UNCHANGED <<report, view, radio, got, status, key_limits, cpu_lists, page, pending>>
    PROVE  Inv'
  <1>1. Base'
    <2>1. TabTypes
        BY DEF Inv, Base
    <2>2. TabTypes'
        BY <2>1, SameReport DEF TabTypes
    <2> QED BY <2>2 DEF Inv, Base
  <1>2. \A u : Quiet(u)
      BY DEF Quiet, Waits
  <1>3. ASSUME NEW u \in CpuTabs PROVE Cpus(u)'
    <2>1. Cpus(u) /\ view' # u
        BY DEF Inv, CpuTabs
    <2> QED BY <1>2, <2>1, CpusElsewhere
  <1>4. ASSUME NEW u \in LimitTabs PROVE Graphs(u)'
    <2>1. Graphs(u)
        BY DEF Inv
    <2> QED BY <1>2, <2>1, GraphsElsewhere
  <1>5. ASSUME NEW u \in DiffTabs PROVE Settings(u)'
    <2>1. Settings(u)
        BY DEF Inv
    <2> QED BY <1>2, <2>1, SettingsElsewhere
  <1> QED BY <1>1, <1>3, <1>4, <1>5 DEF Inv

LEMMA InvStep == Inv /\ [Next]_vars => Inv'
  <1> SUFFICES ASSUME Inv, [Next]_vars PROVE Inv'
      OBVIOUS
  <1>1. DOMAIN radio = DataTypes /\ \A u \in DataTypes : radio[u] \in Words
      BY DEF Inv, Base
  <1>2. CASE Load
      BY <1>2, LoadStep
  <1>3. CASE OpenLandingPage
    <2> DEFINE t == "system_info"
    <2>1. t \in DataTypes /\ radio[t] \in Words
        BY <1>1 DEF DataTypes
    <2>2. display_tab(t, radio[t]) /\ view' = t /\ report' = report /\ radio' = radio
        BY <1>3 DEF OpenLandingPage, display_tab
    <2> HIDE DEF t
    <2> QED BY <1>1, <2>1, <2>2, OpenStep
  <1>4. ASSUME NEW t \in DataTypes, openData(t) PROVE Inv'
    <2>1. display_tab(t, radio[t]) /\ view' = t /\ report' = report /\ radio' = radio
        BY <1>4 DEF openData, User
    <2> QED BY <1>1, <2>1, OpenStep
  <1>5. ASSUME NEW t \in DataTypes, NEW i \in DOMAIN Buttons(t), Press(t, Buttons(t)[i])
        PROVE  Inv'
    <2> DEFINE button == Buttons(t)[i]
    <2>1. button \in Words
        BY DEF Buttons, Words
    <2> HIDE DEF button
    <2>2. /\ display_tab(t, button) /\ view' = t /\ report' = report
          /\ radio' = [radio EXCEPT ![t] = button]
        BY <1>5 DEF Press, User, button
    <2>3. DOMAIN radio' = DataTypes /\ \A u \in DataTypes : radio'[u] \in Words
        BY <1>1, <2>1, <2>2
    <2> QED BY <2>1, <2>2, <2>3, OpenStep
  <1>6. ASSUME NEW r \in DOMAIN run_config, NEW cpu \in AllCPUs(r), ToggleCPU(r, cpu) PROVE Inv'
    <2>1. /\ view = "configure" /\ DOMAIN run_config' = DOMAIN run_config
          /\ UNCHANGED <<report, view, radio, got, status, key_limits, cpu_lists, page, pending>>
        BY <1>6 DEF ToggleCPU, toggleCheckbox, User
    <2> QED BY <2>1, ChosenStep
  <1>7. ASSUME NEW r \in DOMAIN run_config, ToggleAll(r) PROVE Inv'
    <2>1. /\ view = "configure" /\ DOMAIN run_config' = DOMAIN run_config
          /\ UNCHANGED <<report, view, radio, got, status, key_limits, cpu_lists, page, pending>>
        BY <1>7 DEF ToggleAll, allSelect, User
    <2> QED BY <2>1, ChosenStep
  <1>8. CASE RunCallback
      BY <1>8, CallbackStep
  <1>9. CASE UNCHANGED vars
    <2>1. UNCHANGED <<report, view, radio, got, status, key_limits, run_config, cpu_lists, page, pending>>
        BY <1>9 DEF vars
    <2>2. Base'
      <3>1. TabTypes
          BY DEF Inv, Base
      <3>2. TabTypes'
          BY <2>1, <3>1, SameReport DEF TabTypes
      <3> QED BY <2>1, <3>2, SameReport DEF Inv, Base, Fresh
    <2>3. \A u : Quiet(u)
        BY <2>1 DEF Quiet, Waits
    <2>4. ASSUME NEW u \in CpuTabs PROVE Cpus(u)'
      <3>1. Cpus(u)
          BY DEF Inv
      <3> QED BY <2>1, <2>3, <3>1, CpusElsewhere
    <2>5. ASSUME NEW u \in LimitTabs PROVE Graphs(u)'
      <3>1. Graphs(u)
          BY DEF Inv
      <3> QED BY <2>1, <2>3, <3>1, GraphsElsewhere
    <2>6. ASSUME NEW u \in DiffTabs PROVE Settings(u)'
      <3>1. Settings(u)
          BY DEF Inv
      <3> QED BY <2>1, <2>3, <3>1, SettingsElsewhere
    <2> QED BY <2>2, <2>4, <2>5, <2>6 DEF Inv
  <1> QED BY <1>2, <1>3, <1>4, <1>5, <1>6, <1>7, <1>8, <1>9 DEF Next

-----------------------------------------------------------------------------
\* The theorems.

LEMMA AlwaysInv == Spec => []Inv
  <1>1. Inv /\ UNCHANGED vars => Inv'
      BY InvStep
  <1> QED BY InvInit, InvStep, PTL DEF Spec

\* Whatever tabs were opened, buttons pressed and CPUs chosen while callbacks
\* waited, the graphs in view are of the CPUs that are selected now, and so is
\* each graph that is drawn late.
THEOREM SelectionIsShown == Spec => []SelectionShown
  <1>1. ASSUME Inv PROVE SelectionShown
    <2> SUFFICES ASSUME view \in CpuTabs, NEW r \in Runs, NEW g \in page[view][r]
                 PROVE  r \in DOMAIN run_config /\ g.cpus = run_config[r].cpu_list
        BY DEF SelectionShown
    <2>1. Cpus(view) /\ IsReport(report)
        BY <1>1 DEF Inv, Base
    <2>2. r \in ToSet(Configured) /\ g.cpus = cpu_lists[view][r]
        BY <2>1 DEF Cpus
    <2>3. r \in DOMAIN run_config
        BY <2>1, <2>2, ConfiguredIs
    <2>4. cpu_lists[view][r] = run_config[r].cpu_list
        BY <2>1, <2>2 DEF Cpus
    <2> QED BY <2>2, <2>3, <2>4
  <1> QED BY <1>1, AlwaysInv, PTL

\* For any number of runs and any keys, a tab that was the last to form limits
\* has a graph of each key of each run, on a scale for all runs, once its
\* callbacks have run; what is hidden is zero in all runs.
THEOREM GraphsAreComplete == Spec => []GraphsComplete
  <1>1. ASSUME Inv PROVE GraphsComplete
    <2> DEFINE t == key_limits.tab
    <2>1. SUFFICES ASSUME t \in got, ~PendingFor(t), NEW r \in Runs, NEW k \in KeysOf(r)
                   PROVE  (status[t] = "yes" /\ AllZero(k)) \/ Drawn(t, r, k)
        BY DEF GraphsComplete, AllZero, Drawn, Covers
    <2>2. t \in LimitTabs
      <3>1. "none" \notin DataTypes
          BY DEF DataTypes, LimitTabs, HideTabs, CpuTabs, DiffTabs, TextTabs
      <3> QED BY <1>1, <2>1, <3>1 DEF Inv, Base, TabTypes
    <2>3. \/ status[t] = "yes" /\ AllZero(k)
          \/ Waits(Callback(t, r, k))
          \/ Drawn(t, r, k)
        BY <1>1, <2>1, <2>2 DEF Inv, Graphs
    <2>4. ~Waits(Callback(t, r, k))
        BY <2>1 DEF Waits, PendingFor, Callback, ToSet
    <2> QED BY <2>3, <2>4
  <1> QED BY <1>1, AlwaysInv, PTL

\* A comparison of any number of runs shows the settings in which they differ
\* and no other, whichever run comes first; without it all settings are shown.
THEOREM ComparisonIsSound == Spec => []ComparisonSound
  <1>1. ASSUME Inv PROVE ComparisonSound
    <2> DEFINE Agreed(name) ==
                   \E v \in {report[1].settings[n] : n \in DOMAIN report[1].settings} :
                       \A r \in Runs : name \in DOMAIN report[r].settings /\ report[r].settings[name] = v
    <2> SUFFICES ASSUME NEW t \in DiffTabs \cap got, NEW r \in Runs
                 PROVE  LET shown == {x.key : x \in page[t][r]}
                            all == DOMAIN report[r].settings
                        IN /\ status[t] = "yes" => shown = {name \in all : ~Agreed(name)}
                           /\ status[t] = "no" /\ ~PendingFor(t) => shown = all
        BY DEF ComparisonSound
    <2> DEFINE shown == {x.key : x \in page[t][r]}
               all == DOMAIN report[r].settings
    <2>1. Settings(t) /\ IsReport(report)
        BY <1>1 DEF Inv, Base
    <2>2. 1 \in Runs
        BY <2>1, RunsAre
    <2>3. \A name, v : Text(name, v).key = name
        BY DEF Text
    <2>4. ASSUME status[t] = "yes" PROVE shown = {name \in all : ~Agreed(name)}
      <3> DEFINE differ == {n \in common_keys : isDiffAcrossRuns(n)} \cup diff_keys(r)
      <3>1. page[t][r] = {Text(name, report[r].settings[name]) : name \in differ}
          BY <2>1, <2>4 DEF Settings, Diff
      <3>2. shown = differ
        <4> HIDE DEF differ
        <4> QED BY <2>3, <3>1
      <3>3. ASSUME NEW name \in all PROVE name \in differ <=> ~Agreed(name)
        <4>1. CASE checkIsCommonKey(name)
          <5>1. name \in common_keys /\ name \notin diff_keys(r)
              BY <3>3, <4>1 DEF common_keys, diff_keys
          <5>2. isDiffAcrossRuns(name) <=> ~Agreed(name)
              BY <2>2, <4>1 DEF isDiffAcrossRuns, checkIsCommonKey
          <5> QED BY <5>1, <5>2
        <4>2. CASE ~checkIsCommonKey(name)
          <5>1. name \in differ
              BY <3>3, <4>2 DEF diff_keys
          <5>2. ~Agreed(name)
              BY <4>2 DEF checkIsCommonKey
          <5> QED BY <5>1, <5>2
        <4> QED BY <4>1, <4>2
      <3>4. differ \in SUBSET all
          BY DEF common_keys, checkIsCommonKey, diff_keys
      <3> HIDE DEF differ, Agreed, all, shown
      <3> QED BY <3>2, <3>3, <3>4
    <2>5. ASSUME status[t] = "no", ~PendingFor(t) PROVE shown = all
      <3>1. ~Waits(Callback(t, r, "group"))
          BY <2>5 DEF Waits, PendingFor, Callback, ToSet
      <3>2. /\ page[t][r] \in SUBSET NoDiff(r, all)
            /\ \A name \in all : Text(name, report[r].settings[name]) \in page[t][r]
          BY <2>1, <2>5, <3>1 DEF Settings, Unfolds
      <3>3. \A x \in page[t][r] : x.key \in all
          BY <2>3, <3>2 DEF NoDiff
      <3>4. \A name \in all : name \in shown
          BY <2>3, <3>2
      <3> QED BY <3>3, <3>4
    <2> HIDE DEF Agreed
    <2> QED BY <2>4, <2>5
  <1> QED BY <1>1, AlwaysInv, PTL
=============================================================================
