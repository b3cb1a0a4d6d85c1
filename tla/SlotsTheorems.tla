---------------------------- MODULE SlotsTheorems ----------------------------
(***************************************************************************)
(* Lemmas about the slot-array operators of module Slots, and about finite *)
(* sets of positions.                                                      *)
(***************************************************************************)
EXTENDS Slots, FiniteSetTheorems, TLAPS

\* A function on 1..n with values in S is a sequence over S.
LEMMA ArrayIsSeq ==
  ASSUME NEW S, NEW n \in Nat, NEW f \in [1..n -> S]
  PROVE  f \in Seq(S) /\ Len(f) = n
  OBVIOUS

\* Swap-and-pop shortens the array by one; the hole is filled by the last
\* element and every other slot below it is untouched (Vec::swap_remove).
LEMMA SwapRemoveProperties ==
  ASSUME NEW S, NEW s \in Seq(S), NEW i \in 1..Len(s)
  PROVE  /\ SwapRemove(s, i) \in Seq(S)
         /\ Len(SwapRemove(s, i)) = Len(s) - 1
         /\ \A j \in 1..(Len(s) - 1) :
              SwapRemove(s, i)[j] = IF j = i THEN s[Len(s)] ELSE s[j]
<1>1. Len(s) - 1 \in Nat /\ Len(s) \in 1..Len(s)
  OBVIOUS
<1>2. SwapRemove(s, i) \in [1..(Len(s) - 1) -> S]
  BY <1>1 DEF SwapRemove
<1>3. QED
  BY <1>1, <1>2, ArrayIsSeq DEF SwapRemove

\* Appending one array to another keeps the slots of the first and shifts
\* those of the second (Vec::extend_from_slice).
LEMMA ExtendProperties ==
  ASSUME NEW S, NEW s \in Seq(S), NEW t \in Seq(S)
  PROVE  /\ s \o t \in Seq(S)
         /\ Len(s \o t) = Len(s) + Len(t)
         /\ \A j \in 1..Len(s) : (s \o t)[j] = s[j]
         /\ \A j \in 1..Len(t) : (s \o t)[Len(s) + j] = t[j]
  OBVIOUS

\* In an array without repetitions, the position of an element is its slot.
LEMMA PositionInProperties ==
  ASSUME NEW S, NEW s \in Seq(S), NEW x \in Elements(s)
  PROVE  PositionIn(s, x) \in 1..Len(s) /\ s[PositionIn(s, x)] = x
<1>1. \E i \in 1..Len(s) : s[i] = x
  BY DEF Elements
<1>2. QED
  BY <1>1 DEF PositionIn


\* Extending an array adds exactly the new elements.
LEMMA ElementsExtend ==
  ASSUME NEW S, NEW s \in Seq(S), NEW t \in Seq(S)
  PROVE  Elements(s \o t) = Elements(s) \cup Elements(t)
<1>1. /\ Len(s \o t) = Len(s) + Len(t)
      /\ \A j \in 1..Len(s) : (s \o t)[j] = s[j]
      /\ \A j \in 1..Len(t) : (s \o t)[Len(s) + j] = t[j]
      /\ Len(s) \in Nat /\ Len(t) \in Nat
  BY ExtendProperties
<1>2. ASSUME NEW x \in Elements(s \o t)
      PROVE  x \in Elements(s) \cup Elements(t)
  <2>1. PICK k \in 1..Len(s \o t) : x = (s \o t)[k]
    BY DEF Elements
  <2>2. CASE k <= Len(s)
    BY <2>1, <2>2, <1>1 DEF Elements
  <2>3. CASE k > Len(s)
    <3>1. k - Len(s) \in 1..Len(t) /\ k = Len(s) + (k - Len(s))
      BY <2>3, <1>1
    <3>2. QED
      BY <2>1, <3>1, <1>1 DEF Elements
  <2>4. QED
    BY <2>2, <2>3, <1>1
<1>3. ASSUME NEW x \in Elements(s)
      PROVE  x \in Elements(s \o t)
  <2>1. PICK k \in 1..Len(s) : x = s[k]
    BY DEF Elements
  <2>2. k \in 1..Len(s \o t) /\ x = (s \o t)[k]
    BY <2>1, <1>1
  <2>3. QED
    BY <2>2 DEF Elements
<1>4. ASSUME NEW x \in Elements(t)
      PROVE  x \in Elements(s \o t)
  <2>1. PICK k \in 1..Len(t) : x = t[k]
    BY DEF Elements
  <2>2. Len(s) + k \in 1..Len(s \o t) /\ x = (s \o t)[Len(s) + k]
    BY <2>1, <1>1
  <2>3. QED
    BY <2>2 DEF Elements
<1>5. QED
  BY <1>2, <1>3, <1>4

\* Swap-and-pop of a duplicate-free array loses exactly the removed element.
LEMMA ElementsSwapRemove ==
  ASSUME NEW S, NEW s \in Seq(S), NEW i \in 1..Len(s), IsDistinct(s)
  PROVE  Elements(SwapRemove(s, i)) = Elements(s) \ {s[i]}
<1> DEFINE r == SwapRemove(s, i)
<1>1. /\ Len(r) = Len(s) - 1 /\ Len(s) \in Nat /\ Len(s) >= 1
      /\ \A j \in 1..(Len(s) - 1) : r[j] = IF j = i THEN s[Len(s)] ELSE s[j]
  BY SwapRemoveProperties
<1> HIDE DEF r
<1>2. ASSUME NEW x \in Elements(r)
      PROVE  x \in Elements(s) \ {s[i]}
  <2>1. PICK k \in 1..(Len(s) - 1) : x = r[k]
    BY <1>1 DEF Elements
  <2>2. CASE k = i
    BY <2>1, <2>2, <1>1 DEF Elements, IsDistinct
  <2>3. CASE k # i
    BY <2>1, <2>3, <1>1 DEF Elements, IsDistinct
  <2>4. QED
    BY <2>2, <2>3
<1>3. ASSUME NEW x \in Elements(s) \ {s[i]}
      PROVE  x \in Elements(r)
  <2>1. PICK k \in 1..Len(s) : x = s[k] /\ k # i
    BY DEF Elements
  <2>2. CASE k = Len(s)
    <3>1. i \in 1..Len(r) /\ r[i] = x
      BY <2>1, <2>2, <1>1
    <3>2. QED
      BY <3>1 DEF Elements
  <2>3. CASE k # Len(s)
    <3>1. k \in 1..Len(r) /\ r[k] = x
      BY <2>1, <2>3, <1>1
    <3>2. QED
      BY <3>1 DEF Elements
  <2>4. QED
    BY <2>2, <2>3
<1>4. QED
  BY <1>2, <1>3 DEF r

\* In a duplicate-free array every element is found at its own slot.
LEMMA PositionInDistinct ==
  ASSUME NEW S, NEW s \in Seq(S), IsDistinct(s), NEW i \in 1..Len(s)
  PROVE  PositionIn(s, s[i]) = i
<1>1. s[i] \in Elements(s)
  BY DEF Elements
<1>2. PositionIn(s, s[i]) \in 1..Len(s) /\ s[PositionIn(s, s[i])] = s[i]
  BY <1>1, PositionInProperties
<1>3. QED
  BY <1>2 DEF IsDistinct

-----------------------------------------------------------------------------
\* Finite sets of positions.

\* Among finitely many positions there is one of every rank.
LEMMA RanksTaken ==
  ASSUME NEW low \in Int, NEW n \in Int, NEW kept \in SUBSET (low..n)
  PROVE  /\ IsFiniteSet(kept) /\ Cardinality(kept) \in Nat
         /\ \A k \in 1..Cardinality(kept) :
              \E m \in kept : Cardinality({l \in kept : l <= m}) = k
<1> DEFINE upto(m) == {l \in kept : l <= m}
           rank == [m \in kept |-> Cardinality(upto(m))]
           ranks == 1..Cardinality(kept)
<1>1. IsFiniteSet(kept) /\ Cardinality(kept) \in Nat
  <2>1. IsFiniteSet(low..n)
    BY FS_Interval
  <2>2. IsFiniteSet(kept)
    BY <2>1, FS_Subset
  <2>3. QED
    BY <2>2, FS_CardinalityType
<1>2. ASSUME NEW m \in kept
      PROVE  /\ upto(m) \in SUBSET kept /\ m \in upto(m) /\ m \in Int
             /\ IsFiniteSet(upto(m)) /\ Cardinality(upto(m)) \in Nat
             /\ Cardinality(upto(m)) \in ranks
  <2>1. upto(m) \in SUBSET kept /\ m \in upto(m) /\ m \in Int
    OBVIOUS
  <2> HIDE DEF upto
  <2>2. IsFiniteSet(upto(m)) /\ Cardinality(upto(m)) <= Cardinality(kept)
    BY <1>1, <2>1, FS_Subset
  <2>3. Cardinality(upto(m)) \in Nat /\ Cardinality(upto(m)) # 0
    BY <2>1, <2>2, FS_CardinalityType, FS_EmptySet
  <2>4. QED
    BY <1>1, <2>1, <2>2, <2>3
<1>3. ASSUME NEW m \in kept, NEW o \in kept, m < o
      PROVE  Cardinality(upto(m)) # Cardinality(upto(o))
  <2>1. \A l \in kept : l \in Int
    OBVIOUS
  <2>2. \A l \in upto(m) : l \in upto(o)
    BY <1>3, <2>1
  <2>3. o \notin upto(m) /\ o \in upto(o)
    BY <1>3, <2>1
  <2> HIDE DEF upto
  <2>4. upto(m) \in SUBSET upto(o) /\ upto(m) # upto(o) /\ IsFiniteSet(upto(o))
    BY <1>2, <2>2, <2>3
  <2>5. QED
    BY <2>4, FS_Subset
<1>4. rank \in Injection(kept, ranks)
  <2>1. rank \in [kept -> ranks]
    BY <1>2
  <2>2. ASSUME NEW m \in kept, NEW o \in kept, rank[m] = rank[o]
        PROVE  m = o
    <3>1. m \in Int /\ o \in Int
      OBVIOUS
    <3>2. ~(m < o) /\ ~(o < m)
      BY <1>3, <2>2
    <3>3. QED
      BY <3>1, <3>2
  <2> HIDE DEF rank, ranks, upto
  <2>3. QED
    BY <2>1, <2>2 DEF Injection, IsInjective
<1>5. IsFiniteSet(ranks) /\ Cardinality(ranks) = Cardinality(kept)
  BY <1>1, FS_Interval
<1>6. rank \in Surjection(kept, ranks)
  <2> HIDE DEF rank, ranks
  <2>1. QED
    BY <1>4, <1>5, FS_Injection
<1>7. \A k \in ranks : \E m \in kept : rank[m] = k
  <2> HIDE DEF rank, ranks
  <2>1. QED
    BY <1>6 DEF Surjection
<1>8. QED
  BY <1>1, <1>7

\* The greatest of finitely many positions.
LEMMA GreatestPosition ==
  ASSUME NEW low \in Int, NEW n \in Int, NEW kept \in SUBSET (low..n), kept # {}
  PROVE  \E m \in kept : \A l \in kept : l <= m
<1>1. IsFiniteSet(kept) /\ Cardinality(kept) \in Nat
  BY RanksTaken
<1>2. Cardinality(kept) \in 1..Cardinality(kept)
  BY <1>1, FS_EmptySet
<1>3. PICK m \in kept : Cardinality({l \in kept : l <= m}) = Cardinality(kept)
  <2>1. \A k \in 1..Cardinality(kept) : \E m \in kept : Cardinality({l \in kept : l <= m}) = k
    BY RanksTaken
  <2>2. QED
    BY <1>2, <2>1
<1>4. {l \in kept : l <= m} = kept
  <2> DEFINE upto == {l \in kept : l <= m}
  <2>1. upto \in SUBSET kept /\ Cardinality(kept) = Cardinality(upto)
    BY <1>3
  <2> HIDE DEF upto
  <2>2. kept = upto
    BY <1>1, <2>1, FS_Subset
  <2>3. QED
    BY <2>2 DEF upto
<1>5. QED
  BY <1>4

\* The least.
LEMMA LeastPosition ==
  ASSUME NEW low \in Int, NEW n \in Int, NEW kept \in SUBSET (low..n), kept # {}
  PROVE  \E m \in kept : \A l \in kept : m <= l
<1> DEFINE flipped == {n + low - l : l \in kept}
<1>1. flipped \in SUBSET (low..n) /\ flipped # {}
  <2>1. \A l \in kept : l \in low..n /\ n + low - l \in low..n
    OBVIOUS
  <2>2. PICK l \in kept : TRUE
    OBVIOUS
  <2>3. n + low - l \in flipped
    OBVIOUS
  <2>4. QED
    BY <2>1, <2>3
<1>2. PICK f \in flipped : \A g \in flipped : g <= f
  <2> HIDE DEF flipped
  <2>1. QED
    BY <1>1, GreatestPosition
<1>3. PICK m \in kept : f = n + low - m
  BY <1>2
<1>4. \A l \in kept : n + low - l <= n + low - m
  BY <1>2, <1>3
<1>5. QED
  BY <1>4

-----------------------------------------------------------------------------
\* Induction over the natural numbers, as facts about sets and functions.

\* A set of numbers that has 0, and the successor of each of its members, has all.
LEMMA NatSetInduction ==
  ASSUME NEW S \in SUBSET Nat, 0 \in S, \A n \in S : n + 1 \in S
  PROVE  S = Nat
<1>1. ASSUME NEW n \in Nat, n \notin S
      PROVE  FALSE
  <2> DEFINE missing == {m \in 0..n : m \notin S}
  <2>1. n \in missing /\ missing \in SUBSET (0..n) /\ missing # {} /\ 0 \in Int /\ n \in Int
    BY <1>1
  <2>2. PICK m \in missing : \A l \in missing : m <= l
    <3> HIDE DEF missing
    <3>1. QED
      BY <2>1, LeastPosition
  <2>3. m \in 0..n /\ m \notin S /\ m # 0 /\ m - 1 \in 0..n
    BY <2>2
  <2>4. m - 1 \in S
    BY <2>2, <2>3
  <2>5. m - 1 + 1 = m
    BY <2>3
  <2>6. QED
    BY <2>3, <2>4, <2>5
<1>2. QED
  BY <1>1

Iterates(f, x0, step) == f[0] = x0 /\ \A n \in Nat : f[n + 1] = step[f[n]]

\* Whatever is computed step by step is a function of the number of steps.
LEMMA Recursion ==
  ASSUME NEW X, NEW step \in [X -> X], NEW x0 \in X
  PROVE  \E f \in [Nat -> X] : Iterates(f, x0, step)
<1> DEFINE Upto(n) == {g \in [0..n -> X] : g[0] = x0 /\ \A m \in 0..(n - 1) : g[m + 1] = step[g[m]]}
           defined == {n \in Nat : Upto(n) # {}}
           f == [n \in Nat |-> (CHOOSE g : g \in Upto(n))[n]]
<1>1. 0 \in defined
  <2>1. [m \in 0..0 |-> x0] \in Upto(0)
    OBVIOUS
  <2>2. QED
    BY <2>1
<1>2. ASSUME NEW n \in defined
      PROVE  n + 1 \in defined
  <2>1. PICK g \in Upto(n) : TRUE
    BY <1>2
  <2>2. n \in Nat /\ g \in [0..n -> X] /\ g[0] = x0 /\ g[n] \in X
        /\ \A m \in 0..(n - 1) : g[m + 1] = step[g[m]]
    BY <2>1
  <2> DEFINE h == [m \in 0..(n + 1) |-> IF m = n + 1 THEN step[g[n]] ELSE g[m]]
  <2>3. h \in [0..(n + 1) -> X]
    BY <2>2
  <2>4. h[0] = x0
    BY <2>2
  <2>5. ASSUME NEW m \in 0..(n + 1 - 1)
        PROVE  h[m + 1] = step[h[m]]
    <3>1. m \in 0..n /\ m + 1 \in 0..(n + 1) /\ m \in 0..(n + 1) /\ m # n + 1
      BY <2>2
    <3>2. CASE m = n
      BY <3>1, <3>2
    <3>3. CASE m # n
      <4>1. m \in 0..(n - 1) /\ m + 1 # n + 1
        BY <3>1, <3>3, <2>2
      <4>2. QED
        BY <4>1, <3>1, <2>2
    <3>4. QED
      BY <3>2, <3>3
  <2> HIDE DEF h
  <2>6. h \in Upto(n + 1)
    BY <2>3, <2>4, <2>5
  <2>7. QED
    BY <2>2, <2>6
<1>3. defined = Nat
  <2> HIDE DEF defined
  <2>1. defined \in SUBSET Nat
    BY DEF defined
  <2>2. QED
    BY <1>1, <1>2, <2>1, NatSetInduction
<1>4. ASSUME NEW n \in Nat, NEW m \in Nat, n <= m, NEW g \in Upto(n), NEW h \in Upto(m)
      PROVE  g[n] = h[n]
  <2> DEFINE agreed == {k \in Nat : k <= n => g[k] = h[k]}
  <2>1. 0 \in agreed
    OBVIOUS
  <2>2. ASSUME NEW k \in agreed
        PROVE  k + 1 \in agreed
    <3>1. CASE k + 1 <= n
      <4>1. k \in 0..(n - 1) /\ k \in 0..(m - 1) /\ g[k] = h[k]
        BY <3>1, <1>4
      <4>2. g[k + 1] = step[g[k]] /\ h[k + 1] = step[h[k]]
        BY <4>1
      <4>3. QED
        BY <4>1, <4>2
    <3>2. CASE ~(k + 1 <= n)
      BY <3>2
    <3>3. QED
      BY <3>1, <3>2
  <2>3. agreed = Nat
    <3> HIDE DEF agreed
    <3>1. agreed \in SUBSET Nat
      BY DEF agreed
    <3>2. QED
      BY <2>1, <2>2, <3>1, NatSetInduction
  <2>4. n \in agreed
    BY <2>3
  <2>5. QED
    BY <2>4
<1>5. ASSUME NEW n \in Nat
      PROVE  /\ (CHOOSE g : g \in Upto(n)) \in Upto(n)
             /\ f[n] = (CHOOSE g : g \in Upto(n))[n]
  <2>1. \E g : g \in Upto(n)
    BY <1>3
  <2> HIDE DEF Upto
  <2>2. QED
    BY <2>1
<1>6. \A n \in Nat : f[n] \in X
  <2>1. ASSUME NEW n \in Nat, NEW g \in Upto(n)
        PROVE  g[n] \in X
    OBVIOUS
  <2> HIDE DEF f, Upto
  <2>2. QED
    BY <2>1, <1>5
<1>7. f[0] = x0
  <2>1. ASSUME NEW g \in Upto(0)
        PROVE  g[0] = x0
    OBVIOUS
  <2> HIDE DEF f, Upto
  <2>2. QED
    BY <2>1, <1>5
<1>8. ASSUME NEW n \in Nat
      PROVE  f[n + 1] = step[f[n]]
  <2>1. PICK g \in Upto(n) : f[n] = g[n]
    <3> HIDE DEF f, Upto
    <3>1. QED
      BY <1>5
  <2>2. PICK h \in Upto(n + 1) : f[n + 1] = h[n + 1]
    <3>1. n + 1 \in Nat
      OBVIOUS
    <3> HIDE DEF f, Upto
    <3>2. QED
      BY <1>5, <3>1
  <2>3. h[n + 1] = step[h[n]]
    <3>1. n \in 0..(n + 1 - 1)
      OBVIOUS
    <3>2. QED
      BY <3>1
  <2>4. g[n] = h[n]
    <3>1. n \in Nat /\ n + 1 \in Nat /\ n <= n + 1
      OBVIOUS
    <3> HIDE DEF f, Upto
    <3>2. QED
      BY <1>4, <3>1
  <2> HIDE DEF f, Upto
  <2>5. QED
    BY <2>1, <2>2, <2>3, <2>4
<1>9. f \in [Nat -> X]
  <2>1. DOMAIN f = Nat /\ f = [n \in Nat |-> f[n]]
    OBVIOUS
  <2> HIDE DEF f
  <2>2. QED
    BY <1>6, <2>1
<1>10. Iterates(f, x0, step)
  <2> HIDE DEF f
  <2>1. QED
    BY <1>7, <1>8 DEF Iterates
<1>11. QED
  <2> HIDE DEF f
  <2>1. QED
    BY <1>9, <1>10

\* The same, as the equation by which recursive functions are defined.
LEMMA RecursiveEquation ==
  ASSUME NEW X, NEW step \in [X -> X], NEW x0 \in X
  PROVE  \E f \in [Nat -> X] : f = [n \in Nat |-> IF n = 0 THEN x0 ELSE step[f[n - 1]]]
<1>1. PICK f \in [Nat -> X] : Iterates(f, x0, step)
  BY Recursion
<1>2. ASSUME NEW n \in Nat
      PROVE  f[n] = IF n = 0 THEN x0 ELSE step[f[n - 1]]
  <2>1. CASE n = 0
    BY <1>1, <2>1 DEF Iterates
  <2>2. CASE n # 0
    <3>1. n - 1 \in Nat /\ n - 1 + 1 = n
      BY <2>2
    <3>2. QED
      BY <1>1, <2>2, <3>1 DEF Iterates
  <2>3. QED
    BY <2>1, <2>2
<1>3. QED
  BY <1>1, <1>2

\* Among numbers there is a least one.
LEMMA LeastNumber ==
  ASSUME NEW S \in SUBSET Nat, S # {}
  PROVE  \E m \in S : \A l \in S : m <= l
<1>1. PICK n \in S : TRUE
  OBVIOUS
<1> DEFINE kept == {l \in S : l <= n}
<1>2. n \in Nat /\ n \in kept /\ kept # {} /\ kept \in SUBSET (0..n) /\ 0 \in Int /\ n \in Int
  <2>1. n \in Nat /\ n \in kept
    BY <1>1
  <2>2. ASSUME NEW l \in kept
        PROVE  l \in 0..n
    <3>1. l \in Nat /\ l <= n
      OBVIOUS
    <3>2. QED
      BY <2>1, <3>1
  <2> HIDE DEF kept
  <2>3. QED
    BY <2>1, <2>2
<1>3. PICK m \in kept : \A l \in kept : m <= l
  <2> HIDE DEF kept
  <2>1. QED
    BY <1>2, LeastPosition
<1>4. ASSUME NEW l \in S
      PROVE  m <= l
  <2>1. l \in Nat /\ m <= n /\ m \in Nat
    BY <1>3
  <2>2. CASE l \in kept
    BY <1>3, <2>2
  <2>3. CASE l \notin kept
    BY <2>1, <2>3, <1>2
  <2>4. QED
    BY <2>2, <2>3
<1>5. QED
  BY <1>3, <1>4

-----------------------------------------------------------------------------
\* Counting.

\* A function takes no more values than it has arguments.
LEMMA ImageIsSmaller ==
  ASSUME NEW S, IsFiniteSet(S), NEW f, DOMAIN f = S, f = [x \in S |-> f[x]]
  PROVE  /\ IsFiniteSet({f[x] : x \in S})
         /\ Cardinality({f[x] : x \in S}) <= Cardinality(S)
<1> DEFINE T == {f[x] : x \in S}
<1>1. f \in [S -> T] /\ \A y \in T : \E x \in S : f[x] = y
  OBVIOUS
<1> HIDE DEF T
<1>2. f \in Surjection(S, T)
  BY <1>1 DEF Surjection
<1>3. IsFiniteSet(T) /\ Cardinality(T) <= Cardinality(S)
  BY <1>2, FS_Surjection
<1>4. QED
  BY <1>3 DEF T

\* It takes as many if no two arguments have the same.
LEMMA ImageIsAsLarge ==
  ASSUME NEW S, IsFiniteSet(S), NEW f, DOMAIN f = S, f = [x \in S |-> f[x]],
         \A x, y \in S : f[x] = f[y] => x = y
  PROVE  /\ IsFiniteSet({f[x] : x \in S})
         /\ Cardinality({f[x] : x \in S}) = Cardinality(S)
<1> DEFINE T == {f[x] : x \in S}
           back == [y \in T |-> CHOOSE x \in S : f[x] = y]
<1>1. IsFiniteSet(T) /\ Cardinality(T) <= Cardinality(S)
  BY ImageIsSmaller
<1>2. \A y \in T : back[y] \in S /\ f[back[y]] = y
  OBVIOUS
<1>3. DOMAIN back = T /\ back = [y \in T |-> back[y]]
  OBVIOUS
<1>4. \A x \in S : f[x] \in T
  OBVIOUS
<1> HIDE DEF back, T
<1>5. {back[y] : y \in T} = S
  <2>1. \A x \in S : back[f[x]] = x
    BY <1>2, <1>4
  <2>2. QED
    BY <1>2, <1>4, <2>1
<1>6. Cardinality({back[y] : y \in T}) <= Cardinality(T)
  BY <1>1, <1>3, ImageIsSmaller
<1>7. Cardinality(S) \in Nat /\ Cardinality(T) \in Nat
  BY <1>1, FS_CardinalityType
<1>8. Cardinality(S) <= Cardinality(T)
  BY <1>5, <1>6
<1>9. IsFiniteSet(T) /\ Cardinality(T) = Cardinality(S)
  BY <1>1, <1>7, <1>8
<1>10. QED
  BY <1>9 DEF T

\* What is left when a part is taken away.
LEMMA DifferenceIsRest ==
  ASSUME NEW S, IsFiniteSet(S), NEW F \in SUBSET S
  PROVE  /\ IsFiniteSet(S \ F) /\ IsFiniteSet(F)
         /\ Cardinality(S) \in Nat /\ Cardinality(F) \in Nat /\ Cardinality(S \ F) \in Nat
         /\ Cardinality(S \ F) = Cardinality(S) - Cardinality(F)
<1> DEFINE R == S \ F
<1>1. R \in SUBSET S /\ R \cup F = S /\ R \cap F = {}
  OBVIOUS
<1> HIDE DEF R
<1>2. IsFiniteSet(R) /\ IsFiniteSet(F)
  BY <1>1, FS_Subset
<1>3. Cardinality(S) \in Nat /\ Cardinality(F) \in Nat /\ Cardinality(R) \in Nat
  BY <1>2, FS_CardinalityType
<1>4. Cardinality(S) = Cardinality(R) + Cardinality(F) - Cardinality(R \cap F)
  BY <1>1, <1>2, FS_Union
<1>5. Cardinality(R \cap F) = 0
  BY <1>1, FS_EmptySet
<1>6. QED
  BY <1>2, <1>3, <1>4, <1>5 DEF R

\* A part that is as large as the whole is the whole.
LEMMA LargestPart ==
  ASSUME NEW S, IsFiniteSet(S), NEW F \in SUBSET S, Cardinality(F) = Cardinality(S)
  PROVE  F = S
<1>1. IsFiniteSet(S \ F) /\ Cardinality(S \ F) = 0
  BY DifferenceIsRest
<1>2. S \ F = {}
  BY <1>1, FS_EmptySet
<1>3. QED
  BY <1>2

\* A family of sets that has the empty one, and each of its members with an
\* element more, has every finite set.
LEMMA FiniteSetInduction ==
  ASSUME NEW S, IsFiniteSet(S), NEW Good, {} \in Good,
         \A T \in SUBSET S : \A x \in S \ T : T \in Good => T \cup {x} \in Good
  PROVE  S \in Good
<1> DEFINE good == {n \in Nat : \A T \in SUBSET S : Cardinality(T) = n => T \in Good}
<1>1. 0 \in good
  <2>1. ASSUME NEW T \in SUBSET S, Cardinality(T) = 0
        PROVE  T \in Good
    <3>1. T = {}
      BY <2>1, FS_Subset, FS_EmptySet
    <3>2. QED
      BY <3>1
  <2>2. QED
    BY <2>1
<1>2. ASSUME NEW n \in good
      PROVE  n + 1 \in good
  <2>1. n \in Nat /\ n + 1 \in Nat
    OBVIOUS
  <2>2. ASSUME NEW T \in SUBSET S, Cardinality(T) = n + 1
        PROVE  T \in Good
    <3>1. IsFiniteSet(T)
      BY FS_Subset
    <3>2. T # {}
      <4>1. Cardinality(T) # 0
        BY <2>1, <2>2
      <4>2. QED
        BY <4>1, FS_EmptySet
    <3>3. PICK x \in T : TRUE
      BY <3>2
    <3> DEFINE U == T \ {x}
    <3>4. Cardinality(U) = Cardinality(T) - 1
      BY <3>1, <3>3, FS_RemoveElement
    <3>5. Cardinality(U) = n
      BY <2>1, <2>2, <3>4
    <3>6. U \in SUBSET S /\ x \in S \ U /\ U \cup {x} = T
      BY <3>3
    <3> HIDE DEF U
    <3>7. U \in Good
      BY <3>5, <3>6
    <3>8. QED
      BY <3>6, <3>7
  <2>3. QED
    BY <2>1, <2>2
<1>3. good = Nat
  <2>1. good \in SUBSET Nat
    OBVIOUS
  <2> HIDE DEF good
  <2>2. QED
    BY <1>1, <1>2, <2>1, NatSetInduction
<1>4. Cardinality(S) \in good
  BY <1>3, FS_CardinalityType
<1>5. QED
  BY <1>4

-----------------------------------------------------------------------------
\* Orders.

\* R orders S strictly, and any two elements of it.
Orders(R, S) ==
  /\ \A x \in S : <<x, x>> \notin R
  /\ \A x, y, z \in S : <<x, y>> \in R /\ <<y, z>> \in R => <<x, z>> \in R
  /\ \A x, y \in S : x = y \/ <<x, y>> \in R \/ <<y, x>> \in R

\* How many elements come before one.
Place(R, S, x) == Cardinality({y \in S : <<y, x>> \in R})

\* In a finite order there is one element for every place.
LEMMA PlacesTaken ==
  ASSUME NEW S, IsFiniteSet(S), NEW R, Orders(R, S)
  PROVE  /\ Cardinality(S) \in Nat
         /\ \A x \in S : Place(R, S, x) \in 0..(Cardinality(S) - 1)
         /\ \A x, y \in S : <<x, y>> \in R => Place(R, S, x) < Place(R, S, y)
         /\ \A i \in 1..Cardinality(S) : \E x \in S : Place(R, S, x) = i - 1
<1> DEFINE before(x) == {y \in S : <<y, x>> \in R}
           n == Cardinality(S)
           place == [x \in S |-> Place(R, S, x)]
<1>1. n \in Nat
  BY FS_CardinalityType
<1>2. \A x : Place(R, S, x) = Cardinality(before(x))
  BY DEF Place
<1>3. ASSUME NEW x \in S
      PROVE  /\ before(x) \in SUBSET S /\ x \notin before(x)
             /\ IsFiniteSet(before(x)) /\ Cardinality(before(x)) \in 0..(n - 1)
  <2>1. before(x) \in SUBSET S /\ x \notin before(x)
    BY DEF Orders
  <2> HIDE DEF before
  <2>2. before(x) # S
    BY <2>1
  <2>3. IsFiniteSet(before(x)) /\ Cardinality(before(x)) \in Nat /\ Cardinality(before(x)) < n
    BY <2>1, <2>2, FS_Subset, FS_CardinalityType
  <2>4. QED
    BY <1>1, <2>1, <2>3
<1>4. ASSUME NEW x \in S, NEW y \in S, <<x, y>> \in R
      PROVE  Cardinality(before(x)) < Cardinality(before(y))
  <2>1. before(x) \in SUBSET before(y) /\ x \in before(y) /\ x \notin before(x)
    BY <1>4, Zenon DEF Orders
  <2> HIDE DEF before
  <2>2. before(x) # before(y) /\ IsFiniteSet(before(y))
    BY <1>3, <2>1
  <2>3. Cardinality(before(x)) <= Cardinality(before(y))
        /\ Cardinality(before(x)) # Cardinality(before(y))
    BY <2>1, <2>2, FS_Subset
  <2>4. Cardinality(before(x)) \in 0..(n - 1) /\ Cardinality(before(y)) \in 0..(n - 1)
    BY <1>3
  <2>5. QED
    BY <1>1, <2>3, <2>4
<1> HIDE DEF before
<1>5. place \in Surjection(S, 0..(n - 1))
  <2>1. place \in [S -> 0..(n - 1)]
    BY <1>2, <1>3
  <2>2. ASSUME NEW x \in S, NEW y \in S, place[x] = place[y]
        PROVE  x = y
    <3>1. Cardinality(before(x)) = Cardinality(before(y)) /\ Cardinality(before(x)) \in 0..(n - 1)
      BY <1>2, <1>3, <2>2
    <3>2. <<x, y>> \notin R /\ <<y, x>> \notin R
      BY <1>1, <1>4, <3>1
    <3>3. QED
      BY <3>2 DEF Orders
  <2>3. IsFiniteSet(0..(n - 1)) /\ Cardinality(0..(n - 1)) = n
    BY <1>1, FS_Interval
  <2> HIDE DEF place, n
  <2>4. place \in Injection(S, 0..(n - 1))
    BY <2>1, <2>2 DEF Injection, IsInjective
  <2>5. QED
    BY <2>3, <2>4, FS_Injection DEF n
<1>6. \A x \in S : place[x] = Place(R, S, x)
  OBVIOUS
<1>7. \A m \in 0..(n - 1) : \E x \in S : place[x] = m
  <2> HIDE DEF place, n
  <2>1. QED
    BY <1>5 DEF Surjection
<1>8. ASSUME NEW i \in 1..n
      PROVE  \E x \in S : Place(R, S, x) = i - 1
  <2>1. i - 1 \in 0..(n - 1)
    BY <1>1
  <2>2. QED
    BY <1>6, <1>7, <2>1
<1>9. QED
  BY <1>1, <1>2, <1>3, <1>4, <1>8

\* A sequence that has at each position the element of that place has every
\* element once, and in order.
LEMMA PlacedInOrder ==
  ASSUME NEW S, IsFiniteSet(S), NEW R, Orders(R, S), NEW at \in [1..Cardinality(S) -> S],
         \A i \in 1..Cardinality(S) : Place(R, S, at[i]) = i - 1
  PROVE  /\ at \in Seq(S) /\ Len(at) = Cardinality(S) /\ Cardinality(S) \in Nat
         /\ Elements(at) = S /\ IsDistinct(at)
         /\ \A x \in S : \E i \in DOMAIN at : at[i] = x
         /\ \A i, j \in DOMAIN at : <<at[i], at[j]>> \in R => i < j
<1>1. Cardinality(S) \in Nat
  BY PlacesTaken
<1>2. at \in Seq(S) /\ Len(at) = Cardinality(S) /\ DOMAIN at = 1..Cardinality(S)
  BY <1>1
<1>3. ASSUME NEW x \in S
      PROVE  \E i \in DOMAIN at : at[i] = x
  <2> DEFINE i == Place(R, S, x) + 1
  <2>1. Place(R, S, x) \in 0..(Cardinality(S) - 1)
    BY PlacesTaken
  <2>2. i \in 1..Cardinality(S) /\ Place(R, S, x) = i - 1
    BY <1>1, <2>1
  <2> HIDE DEF i
  <2>3. at[i] \in S /\ Place(R, S, at[i]) = Place(R, S, x)
    BY <2>2
  <2>4. <<at[i], x>> \notin R /\ <<x, at[i]>> \notin R
    <3>1. Place(R, S, x) \in Nat
      BY <2>1
    <3>2. QED
      BY <2>3, <3>1, PlacesTaken
  <2>5. at[i] = x
    BY <2>3, <2>4 DEF Orders
  <2>6. QED
    BY <1>2, <2>2, <2>5
<1>4. IsDistinct(at)
  <2>1. ASSUME NEW i \in 1..Len(at), NEW j \in 1..Len(at), at[i] = at[j]
        PROVE  i = j
    <3>1. i - 1 = j - 1
      BY <1>2, <2>1
    <3>2. QED
      BY <3>1
  <2>2. QED
    BY <2>1 DEF IsDistinct
<1>5. ASSUME NEW i \in DOMAIN at, NEW j \in DOMAIN at, <<at[i], at[j]>> \in R
      PROVE  i < j
  <2>1. at[i] \in S /\ at[j] \in S /\ Place(R, S, at[i]) = i - 1 /\ Place(R, S, at[j]) = j - 1
    BY <1>2
  <2>2. Place(R, S, at[i]) < Place(R, S, at[j])
    BY <1>5, <2>1, PlacesTaken
  <2>3. i \in Int /\ j \in Int
    BY <1>1, <1>2
  <2>4. QED
    BY <2>1, <2>2, <2>3
<1>6. Elements(at) = S
  <2>1. \A i \in 1..Len(at) : at[i] \in S
    BY <1>2
  <2>2. QED
    BY <1>2, <1>3, <2>1 DEF Elements
<1>7. QED
  BY <1>1, <1>2, <1>3, <1>4, <1>5, <1>6

\* Finitely many numbers have a greatest and a least.
LEMMA ExtremesTaken ==
  ASSUME NEW S \in SUBSET Int, IsFiniteSet(S), S # {}
  PROVE  /\ \E m \in S : \A l \in S : m >= l
         /\ \E m \in S : \A l \in S : m <= l
<1> DEFINE Bounded_(T) == T # {} => /\ \E m \in T : \A l \in T : m >= l
                                    /\ \E m \in T : \A l \in T : m <= l
           Good == {T \in SUBSET S : Bounded_(T)}
<1>1. {} \in Good
  OBVIOUS
<1>2. ASSUME NEW T \in SUBSET S, NEW x \in S \ T, T \in Good
      PROVE  T \cup {x} \in Good
  <2>1. x \in Int /\ \A l \in T : l \in Int
    OBVIOUS
  <2>2. CASE T = {}
    BY <2>1, <2>2
  <2>3. CASE T # {}
    <3>1. PICK m \in T : \A l \in T : m >= l
      BY <1>2, <2>3
    <3>2. PICK o \in T : \A l \in T : o <= l
      BY <1>2, <2>3
    <3>3. \E h \in T \cup {x} : \A l \in T \cup {x} : h >= l
      <4>1. CASE x >= m
        BY <2>1, <3>1, <4>1
      <4>2. CASE ~(x >= m)
        BY <2>1, <3>1, <4>2
      <4>3. QED
        BY <4>1, <4>2
    <3>4. \E h \in T \cup {x} : \A l \in T \cup {x} : h <= l
      <4>1. CASE x <= o
        BY <2>1, <3>2, <4>1
      <4>2. CASE ~(x <= o)
        BY <2>1, <3>2, <4>2
      <4>3. QED
        BY <4>1, <4>2
    <3>5. QED
      BY <3>3, <3>4
  <2>4. QED
    BY <2>2, <2>3
<1>3. S \in Good
  <2> HIDE DEF Good
  <2>1. QED
    BY <1>1, <1>2, FiniteSetInduction
<1>4. QED
  BY <1>3

=============================================================================
