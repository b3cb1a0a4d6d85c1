------------------------ MODULE SearchKernel_proofs ------------------------
(***************************************************************************)
(* Packed masks and masked searches, for words and blocks of every size,   *)
(* masks of every length and any number of calls: a mask keeps a set of    *)
(* slots, its iterator returns that set in order, and a search answers     *)
(* with the best of it.                                                    *)
(***************************************************************************)
EXTENDS SearchKernel, SlotsTheorems

-----------------------------------------------------------------------------
\* Division.

LEMMA DivMod ==
  ASSUME NEW d \in Nat \ {0}, NEW s \in Nat
  PROVE  /\ s \div d \in Nat /\ s % d \in 0..(d - 1)
         /\ s = (s \div d) * d + (s % d)
  OBVIOUS

\* Quotient and remainder are the only ones.
LEMMA DivModUnique ==
  ASSUME NEW d \in Nat \ {0}, NEW q \in Nat, NEW r \in 0..(d - 1)
  PROVE  (q * d + r) \div d = q /\ (q * d + r) % d = r
  OBVIOUS

LEMMA Ordered ==
  ASSUME NEW d \in Nat \ {0}, NEW p \in Int, NEW q \in Int, NEW r \in 0..(d - 1), p < q
  PROVE  p * d + r < q * d
<1>1. p + 1 <= q
  OBVIOUS
<1>2. (p + 1) * d <= q * d
  BY <1>1
<1>3. (p + 1) * d = p * d + d
  OBVIOUS
<1>4. QED
  BY <1>2, <1>3

LEMMA DivMonotone ==
  ASSUME NEW d \in Nat \ {0}, NEW s \in Nat, NEW t \in Nat, s <= t
  PROVE  /\ s \div d <= t \div d
         /\ s \div d = t \div d => s % d <= t % d
<1>1. /\ s \div d \in Nat /\ s % d \in 0..(d - 1) /\ s = (s \div d) * d + (s % d)
      /\ t \div d \in Nat /\ t % d \in 0..(d - 1) /\ t = (t \div d) * d + (t % d)
  BY DivMod
<1>2. ASSUME t \div d < s \div d
      PROVE  FALSE
  BY <1>1, <1>2, Ordered
<1>3. QED
  BY <1>1, <1>2

\* The smallest number of parts of d that hold len is the number of those that
\* start below len.
LEMMA PartsHold ==
  ASSUME NEW d \in Nat \ {0}, NEW len \in Nat, NEW q \in Nat
  PROVE  /\ (len + d - 1) \div d \in Nat
         /\ q \in 0..((len + d - 1) \div d - 1) <=> q * d < len
<1> DEFINE n == (len + d - 1) \div d
           r == (len + d - 1) % d
<1>1. n \in Nat /\ r \in 0..(d - 1) /\ len + d - 1 = n * d + r
  <2>1. len + d - 1 \in Nat
    OBVIOUS
  <2> QED
    BY <2>1, DivMod
<1> HIDE DEF n, r
<1>2. ASSUME q < n
      PROVE  q * d < len
  <2>1. (q + 1) * d <= n * d /\ (q + 1) * d = q * d + d
    BY <1>1, <1>2
  <2>2. QED
    BY <1>1, <2>1
<1>3. ASSUME n <= q
      PROVE  len <= q * d
  <2>1. n * d <= q * d
    BY <1>1, <1>3
  <2>2. QED
    BY <1>1, <2>1
<1>4. n \in Nat /\ (q \in 0..(n - 1) <=> q * d < len)
  BY <1>1, <1>2, <1>3
<1>5. QED
  BY <1>4 DEF n

-----------------------------------------------------------------------------
\* Slots, words and blocks.

\* A slot has its word and its bit.
LEMMA SlotPlace ==
  ASSUME NEW len \in Nat, NEW s \in 0..(len - 1)
  PROVE  /\ WordOf(s) \in 0..(n_words(len) - 1) /\ BitOf(s) \in 0..(WordBits - 1)
         /\ s = WordOf(s) * WordBits + BitOf(s)
         /\ Block(s) \in 0..(n_blocks(len) - 1)
         /\ n_words(len) \in Nat /\ n_blocks(len) \in Nat
<1>1. /\ WordBits \in Nat \ {0} /\ BLOCK \in Nat \ {0} /\ s \in Nat
  BY MaskConstantsOK
<1>2. /\ WordOf(s) \in Nat /\ BitOf(s) \in 0..(WordBits - 1)
      /\ s = WordOf(s) * WordBits + BitOf(s)
  BY <1>1, DivMod DEF WordOf, BitOf
<1>3. /\ Block(s) \in Nat /\ s % BLOCK \in 0..(BLOCK - 1) /\ s = Block(s) * BLOCK + (s % BLOCK)
  BY <1>1, DivMod DEF Block
<1>4. WordOf(s) * WordBits < len /\ Block(s) * BLOCK < len
  BY <1>1, <1>2, <1>3
<1>5. QED
  BY <1>1, <1>2, <1>3, <1>4, PartsHold DEF n_words, n_blocks

LEMMA PlaceSlot ==
  ASSUME NEW w \in Nat, NEW i \in 0..(WordBits - 1)
  PROVE  /\ w * WordBits + i \in Nat
         /\ WordOf(w * WordBits + i) = w /\ BitOf(w * WordBits + i) = i
<1>1. WordBits \in Nat \ {0} /\ i \in Nat
  BY MaskConstantsOK
<1>2. w * WordBits \in Nat
  BY <1>1
<1>3. QED
  BY <1>1, <1>2, DivModUnique DEF WordOf, BitOf

LEMMA PlaceMonotone ==
  ASSUME NEW s \in Nat, NEW t \in Nat, s <= t
  PROVE  /\ WordOf(s) <= WordOf(t)
         /\ WordOf(s) = WordOf(t) => BitOf(s) <= BitOf(t)
<1>1. WordBits \in Nat \ {0}
  BY MaskConstantsOK
<1>2. QED
  BY <1>1, DivMonotone DEF WordOf, BitOf

\* The slots of a block are those between its start and its end.
LEMMA BlockSlots ==
  ASSUME NEW len \in Nat, NEW b \in 0..(n_blocks(len) - 1)
  PROVE  /\ BlockStart(b) \in Nat /\ BlockEnd(b, len) \in Nat
         /\ BlockStart(b) < BlockEnd(b, len) /\ BlockEnd(b, len) <= len
         /\ BlockEnd(b, len) <= BlockStart(b) + BLOCK
         /\ \A s \in Nat : s \in BlockStart(b)..(BlockEnd(b, len) - 1)
                             <=> s \in 0..(len - 1) /\ Block(s) = b
<1>1. BLOCK \in Nat \ {0} /\ b \in Nat /\ n_blocks(len) \in Int
  <2>1. BLOCK \in Nat \ {0}
    BY MaskConstantsOK
  <2>2. n_blocks(len) \in Nat
    BY <2>1, PartsHold, 0 \in Nat DEF n_blocks
  <2>3. QED
    BY <2>1, <2>2
<1>2. BlockStart(b) \in Nat /\ BlockStart(b) < len
  <2>1. b * BLOCK \in Nat
    BY <1>1
  <2>2. QED
    BY <1>1, <2>1, PartsHold DEF BlockStart, n_blocks
<1>3. /\ BlockEnd(b, len) \in Nat
      /\ BlockStart(b) < BlockEnd(b, len) /\ BlockEnd(b, len) <= len
      /\ BlockEnd(b, len) <= BlockStart(b) + BLOCK
      /\ BlockEnd(b, len) = len \/ BlockEnd(b, len) = BlockStart(b) + BLOCK
  BY <1>1, <1>2 DEF BlockEnd, SmallerOf
<1>4. ASSUME NEW s \in Nat
      PROVE  Block(s) = b <=> BlockStart(b) <= s /\ s < BlockStart(b) + BLOCK
  <2>1. /\ Block(s) \in Nat /\ s % BLOCK \in 0..(BLOCK - 1) /\ s = Block(s) * BLOCK + (s % BLOCK)
    BY <1>1, DivMod DEF Block
  <2>2. ASSUME Block(s) = b
        PROVE  BlockStart(b) <= s /\ s < BlockStart(b) + BLOCK
    BY <1>1, <1>2, <2>1, <2>2 DEF BlockStart
  <2>3. ASSUME Block(s) < b
        PROVE  s < BlockStart(b)
    BY <1>1, <2>1, <2>3, Ordered DEF BlockStart
  <2>4. ASSUME b < Block(s)
        PROVE  BlockStart(b) + BLOCK <= s
    <3>1. (b + 1) * BLOCK <= Block(s) * BLOCK /\ (b + 1) * BLOCK = b * BLOCK + BLOCK
      BY <1>1, <2>1, <2>4
    <3>2. Block(s) * BLOCK <= s
      BY <1>1, <2>1
    <3>3. b * BLOCK \in Nat /\ Block(s) * BLOCK \in Nat
      BY <1>1, <2>1
    <3>4. QED
      BY <1>1, <2>1, <3>1, <3>2, <3>3 DEF BlockStart
  <2>5. QED
    BY <1>1, <1>2, <2>1, <2>2, <2>3, <2>4
<1>5. QED
  BY <1>1, <1>2, <1>3, <1>4

\* The bits that are counted are the slots of the range.
LEMMA BitsAreSlots ==
  ASSUME NEW len \in Nat, NEW words \in [0..(n_words(len) - 1) -> SUBSET (0..(WordBits - 1))],
         NEW start \in Nat, NEW end \in 0..len
  PROVE  BitsInRange(words, start, end) = {s \in start..(end - 1) : HasBit(words, s)}
<1> DEFINE lo(w) == IF w = WordOf(start) THEN BitOf(start) ELSE 0
           hi(w) == IF w = WordOf(end - 1) THEN BitOf(end - 1) + 1 ELSE WordBits
           cut(w) == {w * WordBits + i : i \in words[w] \cap lo(w)..(hi(w) - 1)}
           range == {s \in start..(end - 1) : HasBit(words, s)}
<1>1. WordBits \in Nat \ {0}
  BY MaskConstantsOK
<1>2. CASE start >= end
  BY <1>2 DEF BitsInRange
<1>3. CASE start < end
  <2>1. start \in 0..(len - 1) /\ end - 1 \in 0..(len - 1) /\ start <= end - 1 /\ end - 1 \in Nat
    BY <1>3
  <2>2. /\ WordOf(start) \in 0..(n_words(len) - 1) /\ BitOf(start) \in 0..(WordBits - 1)
        /\ WordOf(end - 1) \in 0..(n_words(len) - 1) /\ BitOf(end - 1) \in 0..(WordBits - 1)
        /\ n_words(len) \in Nat
    BY <2>1, SlotPlace
  <2>3. ASSUME NEW w \in WordOf(start)..WordOf(end - 1), NEW i \in words[w] \cap lo(w)..(hi(w) - 1)
        PROVE  w * WordBits + i \in range
    <3>1. w \in 0..(n_words(len) - 1) /\ w \in Nat /\ i \in 0..(WordBits - 1)
      BY <2>2, <2>3
    <3>2. /\ w * WordBits + i \in Nat
          /\ WordOf(w * WordBits + i) = w /\ BitOf(w * WordBits + i) = i
      BY <3>1, PlaceSlot
    <3>3. ASSUME w * WordBits + i < start
          PROVE  FALSE
      <4>1. /\ w <= WordOf(start)
            /\ w = WordOf(start) => i <= BitOf(start)
        BY <3>2, <3>3, PlaceMonotone
      <4>2. w = WordOf(start) /\ i = BitOf(start)
        BY <2>2, <2>3, <3>1, <4>1
      <4>3. w * WordBits + i = start
        BY <2>1, <4>2, SlotPlace
      <4>4. QED
        BY <3>3, <4>3
    <3>4. ASSUME end - 1 < w * WordBits + i
          PROVE  FALSE
      <4>1. /\ WordOf(end - 1) <= w
            /\ w = WordOf(end - 1) => BitOf(end - 1) <= i
        BY <2>1, <3>2, <3>4, PlaceMonotone
      <4>2. w = WordOf(end - 1) /\ i = BitOf(end - 1)
        BY <2>2, <2>3, <3>1, <4>1
      <4>3. w * WordBits + i = end - 1
        BY <2>1, <4>2, SlotPlace
      <4>4. QED
        BY <3>4, <4>3
    <3>5. w * WordBits + i \in start..(end - 1)
      BY <2>1, <3>2, <3>3, <3>4
    <3>6. QED
      BY <2>3, <3>2, <3>5 DEF HasBit
  <2>4. ASSUME NEW s \in range
        PROVE  \E w \in WordOf(start)..WordOf(end - 1) : s \in cut(w)
    <3>1. s \in start..(end - 1) /\ s \in 0..(len - 1) /\ s \in Nat /\ s <= end - 1 /\ start <= s
      BY <2>1
    <3>2. /\ WordOf(s) \in 0..(n_words(len) - 1) /\ BitOf(s) \in 0..(WordBits - 1)
          /\ s = WordOf(s) * WordBits + BitOf(s)
      BY <3>1, SlotPlace
    <3>3. /\ WordOf(start) <= WordOf(s) /\ WordOf(s) <= WordOf(end - 1)
          /\ WordOf(s) = WordOf(start) => BitOf(start) <= BitOf(s)
          /\ WordOf(s) = WordOf(end - 1) => BitOf(s) <= BitOf(end - 1)
      BY <2>1, <3>1, PlaceMonotone
    <3>4. WordOf(s) \in WordOf(start)..WordOf(end - 1)
      BY <2>2, <3>2, <3>3
    <3>5. BitOf(s) \in words[WordOf(s)] \cap lo(WordOf(s))..(hi(WordOf(s)) - 1)
      BY <1>1, <2>2, <3>2, <3>3 DEF HasBit
    <3>6. s \in cut(WordOf(s))
      BY <3>2, <3>5
    <3>7. QED
      BY <3>4, <3>6
  <2>5. BitsInRange(words, start, end) = UNION {cut(w) : w \in WordOf(start)..WordOf(end - 1)}
    BY <1>3 DEF BitsInRange
  <2>6. \A w \in WordOf(start)..WordOf(end - 1) : cut(w) \subseteq range
    BY <2>3
  <2> HIDE DEF cut, range
  <2>7. QED
    BY <2>4, <2>5, <2>6 DEF range
<1>4. QED
  BY <1>2, <1>3

-----------------------------------------------------------------------------
\* Sorted lists of blocks.

Sorts(list, S) ==
  /\ {list[i] : i \in DOMAIN list} = S
  /\ \A i, j \in DOMAIN list : i < j => list[i] < list[j]

LEMMA AscendingSorts ==
  ASSUME NEW low \in Int, NEW n \in Int, NEW S \in SUBSET (low..n)
  PROVE  Ascending(S) \in Seq(S) /\ Sorts(Ascending(S), S)
<1> DEFINE below(x) == {y \in S : y < x}
           upto(x) == {y \in S : y <= x}
           at(i) == CHOOSE x \in S : Cardinality(below(x)) = i - 1
           list == Ascending(S)
<1>1. /\ IsFiniteSet(S) /\ Cardinality(S) \in Nat
      /\ \A k \in 1..Cardinality(S) : \E x \in S : Cardinality(upto(x)) = k
  BY RanksTaken
<1>2. \A x \in S : x \in Int
  OBVIOUS
<1>3. ASSUME NEW x \in S
      PROVE  /\ IsFiniteSet(below(x)) /\ Cardinality(below(x)) \in Nat
             /\ IsFiniteSet(upto(x)) /\ Cardinality(upto(x)) = Cardinality(below(x)) + 1
             /\ Cardinality(upto(x)) \in 1..Cardinality(S)
  <2>1. upto(x) = below(x) \cup {x} /\ x \notin below(x) /\ below(x) \in SUBSET S /\ upto(x) \in SUBSET S
    <3>1. \A y \in S : y <= x <=> y < x \/ y = x
      BY <1>2
    <3>2. x \in Int /\ ~(x < x)
      BY <1>2
    <3>3. QED
      BY <3>1, <3>2, Zenon
  <2> HIDE DEF below, upto
  <2>2. /\ IsFiniteSet(below(x)) /\ IsFiniteSet(upto(x))
        /\ Cardinality(upto(x)) <= Cardinality(S)
    BY <1>1, <2>1, FS_Subset
  <2>3. Cardinality(below(x)) \in Nat /\ Cardinality(upto(x)) = Cardinality(below(x)) + 1
    BY <2>1, <2>2, FS_CardinalityType, FS_AddElement
  <2>4. QED
    BY <1>1, <2>2, <2>3
<1>4. ASSUME NEW x \in S, NEW y \in S, x < y
      PROVE  Cardinality(below(x)) < Cardinality(below(y))
  <2>1. upto(x) \in SUBSET below(y)
    <3>1. \A z \in S : z <= x => z < y
      BY <1>2, <1>4
    <3>2. QED
      BY <3>1, Zenon
  <2> HIDE DEF below, upto
  <2>2. Cardinality(upto(x)) <= Cardinality(below(y))
    BY <1>3, <2>1, FS_Subset
  <2>3. QED
    BY <1>3, <2>2
<1>5. ASSUME NEW i \in 1..Cardinality(S)
      PROVE  list[i] \in S /\ Cardinality(below(list[i])) = i - 1
  <2>1. \E x \in S : Cardinality(below(x)) = i - 1
    <3>1. PICK x \in S : Cardinality(upto(x)) = i
      BY <1>1
    <3> HIDE DEF below, upto
    <3>2. Cardinality(below(x)) = i - 1
      BY <1>3, <3>1
    <3>3. QED
      BY <3>2
  <2>2. list[i] = at(i)
    BY DEF Ascending
  <2>3. at(i) \in S /\ Cardinality(below(at(i))) = i - 1
    BY <2>1, Zenon
  <2> HIDE DEF below, at, list
  <2>4. QED
    BY <2>2, <2>3
<1>6. list \in Seq(S) /\ DOMAIN list = 1..Cardinality(S)
  <2>1. list = [i \in 1..Cardinality(S) |-> at(i)]
    BY DEF Ascending
  <2> HIDE DEF at
  <2> HIDE DEF list, below, upto
  <2>2. list \in [1..Cardinality(S) -> S]
    BY <1>5, <2>1
  <2>3. QED
    BY <1>1, <2>1, <2>2, ArrayIsSeq
<1>7. ASSUME NEW i \in DOMAIN list, NEW j \in DOMAIN list, i < j
      PROVE  list[i] < list[j]
  <2> HIDE DEF list, below, upto
  <2>1. i \in 1..Cardinality(S) /\ j \in 1..Cardinality(S)
    BY <1>6
  <2>2. /\ list[i] \in S /\ list[j] \in S
        /\ Cardinality(below(list[i])) = i - 1 /\ Cardinality(below(list[j])) = j - 1
    BY <1>5, <2>1
  <2>3. list[i] \in Int /\ list[j] \in Int
    BY <1>2, <2>2
  <2>4. list[i] # list[j]
    BY <1>7, <2>1, <2>2
  <2>5. ASSUME list[j] < list[i]
        PROVE  FALSE
    <3>1. Cardinality(below(list[j])) < Cardinality(below(list[i]))
      BY <1>4, <2>2, <2>5
    <3>2. QED
      BY <1>7, <2>1, <2>2, <3>1
  <2>6. QED
    BY <2>3, <2>4, <2>5
<1>8. ASSUME NEW x \in S
      PROVE  \E i \in DOMAIN list : list[i] = x
  <2> DEFINE i == Cardinality(below(x)) + 1
  <2> HIDE DEF list, below, upto
  <2>1. i \in 1..Cardinality(S) /\ i - 1 = Cardinality(below(x))
    BY <1>3
  <2>2. list[i] \in S /\ Cardinality(below(list[i])) = Cardinality(below(x))
    BY <1>5, <2>1
  <2> HIDE DEF i
  <2>3. list[i] \in Int /\ x \in Int /\ Cardinality(below(x)) \in Nat
    BY <1>2, <1>3, <2>2
  <2>4. ~(list[i] < x)
    BY <1>4, <2>2, <2>3
  <2>5. ~(x < list[i])
    BY <1>4, <2>2, <2>3
  <2>6. list[i] = x
    BY <2>3, <2>4, <2>5
  <2>7. QED
    BY <1>6, <2>1, <2>6
<1>9. \A i \in DOMAIN list : list[i] \in S
  <2> HIDE DEF list, below, upto
  <2>1. QED
    BY <1>5, <1>6
<1>10. QED
  <2> HIDE DEF list, below, upto
  <2>1. Sorts(list, S)
    BY <1>7, <1>8, <1>9 DEF Sorts
  <2>2. QED
    BY <1>6, <2>1 DEF list

\* The place that is looked for: what is smaller comes before it, the rest after.
LEMMA SearchPlace ==
  ASSUME NEW values \in Seq(Nat), \A i, j \in DOMAIN values : i < j => values[i] < values[j],
         NEW value \in Nat
  PROVE  LET pos == Cardinality({i \in DOMAIN values : values[i] < value})
         IN  /\ pos \in 0..Len(values)
             /\ \A i \in 1..pos : values[i] < value
             /\ \A i \in (pos + 1)..Len(values) : values[i] >= value
<1> DEFINE smaller == {i \in DOMAIN values : values[i] < value}
<1>1. DOMAIN values = 1..Len(values) /\ Len(values) \in Nat
      /\ \A i \in 1..Len(values) : values[i] \in Nat
  OBVIOUS
<1>2. smaller \in SUBSET (1..Len(values))
  BY <1>1
<1>3. CASE smaller = {}
  <2>1. Cardinality(smaller) = 0
    BY <1>3, FS_EmptySet
  <2>2. \A i \in 1..Len(values) : values[i] >= value
    BY <1>1, <1>3
  <2> HIDE DEF smaller
  <2>3. /\ Cardinality(smaller) \in 0..Len(values)
        /\ \A i \in 1..Cardinality(smaller) : values[i] < value
        /\ \A i \in (Cardinality(smaller) + 1)..Len(values) : values[i] >= value
    BY <1>1, <2>1, <2>2
  <2>4. QED
    BY <2>3 DEF smaller
<1>4. CASE smaller # {}
  <2>1. PICK m \in smaller : \A l \in smaller : l <= m
    <3>1. Len(values) \in Int /\ 1 \in Int
      BY <1>1
    <3> HIDE DEF smaller
    <3>2. smaller \in SUBSET (1..Len(values)) /\ smaller # {}
      BY <1>2, <1>4
    <3>3. QED
      BY <3>1, <3>2, GreatestPosition
  <2>2. m \in 1..Len(values) /\ values[m] < value
    BY <1>1
  <2>3. \A i \in 1..m : i \in smaller
    BY <1>1, <2>2
  <2>4. smaller = 1..m
    BY <1>2, <2>1, <2>3
  <2>5. Cardinality(smaller) = m
    <3>1. m \in Nat /\ ~(1 > m) /\ m - 1 + 1 = m /\ 1 \in Int /\ m \in Int
      BY <2>2
    <3>2. Cardinality(1..m) = m
      BY <3>1, FS_Interval
    <3>3. QED
      BY <2>4, <3>2
  <2>6. ASSUME NEW i \in (m + 1)..Len(values)
        PROVE  values[i] >= value
    <3>1. i \in 1..Len(values) /\ ~(i <= m)
      BY <1>1, <2>2
    <3>2. i \notin smaller
      BY <2>1, <3>1
    <3>3. QED
      BY <1>1, <3>1, <3>2
  <2>7. \A i \in 1..m : values[i] < value
    BY <2>3
  <2> HIDE DEF smaller
  <2>8. /\ Cardinality(smaller) \in 0..Len(values)
        /\ \A i \in 1..Cardinality(smaller) : values[i] < value
        /\ \A i \in (Cardinality(smaller) + 1)..Len(values) : values[i] >= value
    BY <1>1, <2>2, <2>5, <2>6, <2>7
  <2>9. QED
    BY <2>8 DEF smaller
<1>5. QED
  BY <1>3, <1>4

\* A part of a list.
LEMMA PartOf ==
  ASSUME NEW S, NEW s \in Seq(S), NEW a \in Nat \ {0}, NEW b \in 0..Len(s), a <= b + 1
  PROVE  /\ SubSeq(s, a, b) \in Seq(S) /\ Len(SubSeq(s, a, b)) = b - a + 1
         /\ \A i \in 1..(b - a + 1) : SubSeq(s, a, b)[i] = s[a + i - 1]
<1> DEFINE part == [i \in 1..(b - a + 1) |-> s[a + i - 1]]
<1>1. SubSeq(s, a, b) = part
  OBVIOUS
<1>2. part \in [1..(b - a + 1) -> S] /\ b - a + 1 \in Nat
  OBVIOUS
<1>3. part \in Seq(S) /\ Len(part) = b - a + 1
  <2> HIDE DEF part
  <2>1. QED
    BY <1>2, ArrayIsSeq
<1>4. QED
  BY <1>1, <1>3

LEMMA InsertSorts ==
  ASSUME NEW R \in SUBSET Nat, NEW values \in Seq(R), NEW S, Sorts(values, S),
         NEW value \in R, value \notin S
  PROVE  InsertSorted(values, value) \in Seq(R) /\ Sorts(InsertSorted(values, value), S \cup {value})
<1> DEFINE pos == Cardinality({i \in DOMAIN values : values[i] < value})
           new == InsertSorted(values, value)
<1>1. /\ values \in Seq(Nat) /\ Len(values) \in Nat /\ DOMAIN values = 1..Len(values)
      /\ \A i \in 1..Len(values) : values[i] \in R /\ values[i] \in Nat
  <2>1. /\ Len(values) \in Nat /\ DOMAIN values = 1..Len(values)
        /\ \A i \in 1..Len(values) : values[i] \in R
    OBVIOUS
  <2>2. \A i \in 1..Len(values) : values[i] \in Nat
    BY <2>1
  <2>3. values \in [1..Len(values) -> Nat]
    BY <2>1, <2>2
  <2>4. values \in Seq(Nat)
    BY <2>1, <2>3
  <2>5. QED
    BY <2>1, <2>2, <2>4
<1>2. /\ \A i, j \in 1..Len(values) : i < j => values[i] < values[j]
      /\ \A i \in 1..Len(values) : values[i] \in S
      /\ \A x \in S : \E i \in 1..Len(values) : x = values[i]
  BY <1>1 DEF Sorts
<1>3. /\ pos \in 0..Len(values)
      /\ \A i \in 1..pos : values[i] < value
      /\ \A i \in (pos + 1)..Len(values) : values[i] >= value
  <2>1. \A i, j \in DOMAIN values : i < j => values[i] < values[j]
    BY <1>1, <1>2
  <2>2. value \in Nat
    BY <1>1, <1>2
  <2> HIDE DEF pos
  <2>3. QED
    BY <1>1, <2>1, <2>2, SearchPlace DEF pos
<1>4. new = SubSeq(values, 1, pos) \o <<value>> \o SubSeq(values, pos + 1, Len(values))
  BY DEF InsertSorted
<1> HIDE DEF pos, new
<1>5. /\ new \in Seq(R) /\ Len(new) = Len(values) + 1
      /\ \A i \in 1..Len(new) : new[i] = IF i <= pos THEN values[i]
                                         ELSE IF i = pos + 1 THEN value ELSE values[i - 1]
  <2> DEFINE a == SubSeq(values, 1, pos)
             c == SubSeq(values, pos + 1, Len(values))
  <2>1. /\ a \in Seq(R) /\ Len(a) = pos
        /\ \A i \in 1..pos : a[i] = values[i]
    <3>1. pos \in 0..Len(values) /\ 1 <= pos + 1 /\ pos - 1 + 1 = pos /\ 1 \in Nat \ {0}
      BY <1>1, <1>3
    <3>2. /\ a \in Seq(R) /\ Len(a) = pos
          /\ \A i \in 1..pos : a[i] = values[1 + i - 1]
      BY <3>1, PartOf
    <3>3. \A i \in 1..pos : 1 + i - 1 = i
      OBVIOUS
    <3>4. QED
      BY <3>2, <3>3
  <2>2. /\ c \in Seq(R) /\ Len(c) = Len(values) - pos
        /\ \A i \in 1..Len(c) : c[i] = values[pos + i]
    <3>1. /\ pos + 1 \in Nat \ {0} /\ Len(values) \in 0..Len(values) /\ pos + 1 <= Len(values) + 1
          /\ Len(values) - (pos + 1) + 1 = Len(values) - pos
      BY <1>1, <1>3
    <3>2. /\ c \in Seq(R) /\ Len(c) = Len(values) - pos
          /\ \A i \in 1..Len(c) : c[i] = values[pos + 1 + i - 1]
      BY <3>1, PartOf
    <3>3. \A i \in 1..Len(c) : pos + 1 + i - 1 = pos + i
      BY <1>3
    <3>4. QED
      BY <3>2, <3>3
  <2> HIDE DEF a, c
  <2> DEFINE b == a \o <<value>>
  <2>3. /\ b \in Seq(R) /\ Len(b) = pos + 1
        /\ \A i \in 1..pos : b[i] = values[i]
        /\ b[pos + 1] = value
    <3>1. <<value>> \in Seq(R) /\ Len(<<value>>) = 1 /\ <<value>>[1] = value
      OBVIOUS
    <3>2. /\ b \in Seq(R) /\ Len(b) = Len(a) + Len(<<value>>)
          /\ \A i \in 1..Len(a) : b[i] = a[i]
          /\ \A i \in 1..Len(<<value>>) : b[Len(a) + i] = <<value>>[i]
      BY <2>1, <3>1, ExtendProperties
    <3> HIDE DEF b
    <3>3. QED
      BY <1>3, <2>1, <3>1, <3>2
  <2> HIDE DEF b
  <2>4. /\ b \o c \in Seq(R) /\ Len(b \o c) = Len(b) + Len(c)
        /\ \A i \in 1..Len(b) : (b \o c)[i] = b[i]
        /\ \A i \in 1..Len(c) : (b \o c)[Len(b) + i] = c[i]
    <3>1. b \in Seq(R) /\ c \in Seq(R)
      BY <2>2, <2>3
    <3>2. QED
      BY <3>1, ExtendProperties
  <2>5. new = b \o c
    BY <1>4 DEF a, b, c
  <2>6. ASSUME NEW i \in 1..Len(new), i > pos + 1
        PROVE  new[i] = values[i - 1]
    <3>1. i - (pos + 1) \in 1..Len(c) /\ i = Len(b) + (i - (pos + 1))
      BY <1>1, <1>3, <2>2, <2>3, <2>4, <2>5, <2>6
    <3>2. pos + (i - (pos + 1)) = i - 1
      BY <1>3, <2>6
    <3>3. QED
      BY <2>2, <2>4, <2>5, <3>1, <3>2
  <2>7. Len(new) = Len(values) + 1
    <3>1. Len(c) = Len(values) - pos /\ Len(b) = pos + 1
      BY <2>2, <2>3
    <3>2. Len(new) = Len(b) + Len(c)
      BY <2>4, <2>5
    <3>3. Len(values) \in Nat /\ pos \in Nat
      BY <1>1, <1>3
    <3>4. QED
      BY <3>1, <3>2, <3>3
  <2>8. QED
    BY <1>1, <1>3, <2>3, <2>4, <2>5, <2>6, <2>7
<1>6. DOMAIN new = 1..(Len(values) + 1)
  BY <1>5
<1>7. ASSUME NEW i \in DOMAIN new, NEW j \in DOMAIN new, i < j
      PROVE  new[i] < new[j]
  <2>1. \A k \in 1..Len(values) : values[k] # value
    BY <1>2
  <2>2. \A k \in (pos + 1)..Len(values) : values[k] > value
    BY <1>1, <1>3, <2>1
  <2>3. i \in 1..(Len(values) + 1) /\ j \in 1..(Len(values) + 1)
    BY <1>6
  <2>4. CASE j <= pos
    BY <1>1, <1>2, <1>3, <1>5, <1>7, <2>3, <2>4
  <2>5. CASE j = pos + 1
    BY <1>1, <1>3, <1>5, <1>7, <2>3, <2>5
  <2>6. CASE j > pos + 1
    <3>1. j - 1 \in (pos + 1)..Len(values) /\ new[j] = values[j - 1] /\ values[j - 1] > value
      BY <1>1, <1>3, <1>5, <2>2, <2>3, <2>6
    <3>2. CASE i <= pos
      <4>1. new[i] = values[i] /\ i \in 1..pos /\ values[i] < value
        BY <1>1, <1>3, <1>5, <2>3, <3>2
      <4>2. QED
        BY <1>1, <1>2, <1>3, <2>3, <3>1, <3>2, <4>1
    <3>3. CASE i = pos + 1
      <4>1. new[i] = value
        BY <1>3, <1>5, <2>3, <3>3
      <4>2. QED
        BY <3>1, <4>1, <1>1, <1>3
    <3>4. CASE i > pos + 1
      <4>1. new[i] = values[i - 1] /\ i - 1 \in 1..Len(values) /\ i - 1 < j - 1
        BY <1>1, <1>3, <1>5, <1>7, <2>3, <3>4
      <4>2. j - 1 \in 1..Len(values)
        BY <1>3, <3>1
      <4>3. values[i - 1] < values[j - 1]
        BY <1>2, <4>1, <4>2
      <4>4. QED
        BY <3>1, <4>1, <4>3
    <3>5. QED
      BY <1>3, <2>3, <3>2, <3>3, <3>4
  <2>7. QED
    BY <1>3, <2>3, <2>4, <2>5, <2>6
<1>8. ASSUME NEW i \in DOMAIN new
      PROVE  new[i] \in S \cup {value}
  BY <1>1, <1>2, <1>3, <1>5, <1>6
<1>9. ASSUME NEW x \in S \cup {value}
      PROVE  \E i \in DOMAIN new : new[i] = x
  <2>1. CASE x = value
    <3>1. pos + 1 \in DOMAIN new /\ new[pos + 1] = value
      BY <1>1, <1>3, <1>5, <1>6
    <3>2. QED
      BY <2>1, <3>1
  <2>2. CASE x \in S
    <3>1. PICK i \in 1..Len(values) : x = values[i]
      BY <1>2, <2>2
    <3>2. CASE i <= pos
      <4>1. i \in DOMAIN new /\ new[i] = x
        BY <1>1, <1>5, <1>6, <3>1, <3>2
      <4>2. QED
        BY <4>1
    <3>3. CASE i > pos
      <4>1. i + 1 \in DOMAIN new /\ new[i + 1] = x
        BY <1>1, <1>3, <1>5, <1>6, <3>1, <3>3
      <4>2. QED
        BY <4>1
    <3>4. QED
      BY <1>3, <3>2, <3>3
  <2>3. QED
    BY <2>1, <2>2
<1>10. QED
  BY <1>5, <1>7, <1>8, <1>9 DEF Sorts, new

LEMMA RemoveSorts ==
  ASSUME NEW R \in SUBSET Nat, NEW values \in Seq(R), NEW S, Sorts(values, S),
         NEW value \in S
  PROVE  RemoveSorted(values, value) \in Seq(R) /\ Sorts(RemoveSorted(values, value), S \ {value})
<1> DEFINE pos == Cardinality({i \in DOMAIN values : values[i] < value})
           new == RemoveSorted(values, value)
<1>1. /\ values \in Seq(Nat) /\ Len(values) \in Nat /\ DOMAIN values = 1..Len(values)
      /\ \A i \in 1..Len(values) : values[i] \in R /\ values[i] \in Nat
  <2>1. /\ Len(values) \in Nat /\ DOMAIN values = 1..Len(values)
        /\ \A i \in 1..Len(values) : values[i] \in R
    OBVIOUS
  <2>2. \A i \in 1..Len(values) : values[i] \in Nat
    BY <2>1
  <2>3. values \in [1..Len(values) -> Nat]
    BY <2>1, <2>2
  <2>4. values \in Seq(Nat)
    BY <2>1, <2>3
  <2>5. QED
    BY <2>1, <2>2, <2>4
<1>2. /\ \A i, j \in 1..Len(values) : i < j => values[i] < values[j]
      /\ \A i \in 1..Len(values) : values[i] \in S
      /\ \A x \in S : \E i \in 1..Len(values) : x = values[i]
  BY <1>1 DEF Sorts
<1>3. /\ pos \in 0..Len(values)
      /\ \A i \in 1..pos : values[i] < value
      /\ \A i \in (pos + 1)..Len(values) : values[i] >= value
      /\ value \in Nat
  <2>1. \A i, j \in DOMAIN values : i < j => values[i] < values[j]
    BY <1>1, <1>2
  <2>2. value \in Nat
    BY <1>1, <1>2
  <2> HIDE DEF pos
  <2>3. QED
    BY <1>1, <2>1, <2>2, SearchPlace DEF pos
<1>4. new = SubSeq(values, 1, pos) \o SubSeq(values, pos + 2, Len(values))
  BY DEF RemoveSorted
<1> HIDE DEF pos, new
<1>5. pos < Len(values) /\ values[pos + 1] = value
  <2>1. PICK k \in 1..Len(values) : values[k] = value
    BY <1>2
  <2>2. k > pos
    BY <1>1, <1>3, <2>1
  <2>3. pos + 1 \in 1..Len(values) /\ values[pos + 1] >= value
    BY <1>1, <1>3, <2>2
  <2>4. ~(pos + 1 < k)
    BY <1>1, <1>2, <1>3, <2>1, <2>3
  <2>5. k = pos + 1
    BY <1>3, <2>2, <2>4
  <2>6. QED
    BY <1>1, <1>3, <2>1, <2>5
<1>6. /\ new \in Seq(R) /\ Len(new) = Len(values) - 1
      /\ \A i \in 1..Len(new) : new[i] = IF i <= pos THEN values[i] ELSE values[i + 1]
  <2> DEFINE a == SubSeq(values, 1, pos)
             c == SubSeq(values, pos + 2, Len(values))
  <2>1. /\ a \in Seq(R) /\ Len(a) = pos
        /\ \A i \in 1..pos : a[i] = values[i]
    <3>1. pos \in 0..Len(values) /\ 1 <= pos + 1 /\ pos - 1 + 1 = pos /\ 1 \in Nat \ {0}
      BY <1>1, <1>3
    <3>2. /\ a \in Seq(R) /\ Len(a) = pos
          /\ \A i \in 1..pos : a[i] = values[1 + i - 1]
      BY <3>1, PartOf
    <3>3. \A i \in 1..pos : 1 + i - 1 = i
      OBVIOUS
    <3>4. QED
      BY <3>2, <3>3
  <2>2. /\ c \in Seq(R) /\ Len(c) = Len(values) - pos - 1
        /\ \A i \in 1..Len(c) : c[i] = values[pos + 1 + i]
    <3>1. /\ pos + 2 \in Nat \ {0} /\ Len(values) \in 0..Len(values) /\ pos + 2 <= Len(values) + 1
          /\ Len(values) - (pos + 2) + 1 = Len(values) - pos - 1
      BY <1>1, <1>3, <1>5
    <3>2. /\ c \in Seq(R) /\ Len(c) = Len(values) - pos - 1
          /\ \A i \in 1..Len(c) : c[i] = values[pos + 2 + i - 1]
      BY <3>1, PartOf
    <3>3. \A i \in 1..Len(c) : pos + 2 + i - 1 = pos + 1 + i
      BY <1>3
    <3>4. QED
      BY <3>2, <3>3
  <2> HIDE DEF a, c
  <2>3. /\ a \o c \in Seq(R) /\ Len(a \o c) = Len(a) + Len(c)
        /\ \A i \in 1..Len(a) : (a \o c)[i] = a[i]
        /\ \A i \in 1..Len(c) : (a \o c)[Len(a) + i] = c[i]
    <3>1. a \in Seq(R) /\ c \in Seq(R)
      BY <2>1, <2>2
    <3>2. QED
      BY <3>1, ExtendProperties
  <2>4. new = a \o c
    BY <1>4 DEF a, c
  <2>5. Len(new) = Len(values) - 1
    <3>1. Len(c) = Len(values) - pos - 1 /\ Len(a) = pos
      BY <2>1, <2>2
    <3>2. Len(new) = Len(a) + Len(c)
      BY <2>3, <2>4
    <3>3. Len(values) \in Nat /\ pos \in Nat
      BY <1>1, <1>3
    <3>4. QED
      BY <3>1, <3>2, <3>3
  <2>6. ASSUME NEW i \in 1..Len(new), i > pos
        PROVE  new[i] = values[i + 1]
    <3>1. i - pos \in 1..Len(c) /\ i = Len(a) + (i - pos) /\ pos + 1 + (i - pos) = i + 1
      BY <1>1, <1>3, <2>1, <2>2, <2>5, <2>6
    <3>2. QED
      BY <2>2, <2>3, <2>4, <3>1
  <2>7. ASSUME NEW i \in 1..Len(new), i <= pos
        PROVE  new[i] = values[i]
    <3>1. i \in 1..pos /\ i \in 1..Len(a)
      BY <2>1, <2>7
    <3>2. QED
      BY <2>1, <2>3, <2>4, <3>1
  <2>8. new \in Seq(R)
    BY <2>3, <2>4
  <2>9. QED
    BY <1>3, <2>5, <2>6, <2>7, <2>8
<1>7. DOMAIN new = 1..(Len(values) - 1)
  BY <1>6
<1>8. ASSUME NEW i \in DOMAIN new, NEW j \in DOMAIN new, i < j
      PROVE  new[i] < new[j]
  <2> DEFINE from(k) == IF k <= pos THEN k ELSE k + 1
  <2>1. \A k \in DOMAIN new : k \in Int /\ from(k) \in 1..Len(values) /\ new[k] = values[from(k)]
    BY <1>1, <1>3, <1>6, <1>7
  <2>2. from(i) < from(j)
    <3>1. i \in Int /\ j \in Int
      BY <1>7
    <3>2. QED
      BY <1>3, <1>8, <3>1
  <2> HIDE DEF from
  <2>3. values[from(i)] < values[from(j)]
    BY <1>2, <2>1, <2>2
  <2>4. QED
    BY <2>1, <2>3
<1>9. ASSUME NEW i \in DOMAIN new
      PROVE  new[i] \in S \ {value}
  <2>1. i \in 1..(Len(values) - 1) /\ Len(new) = Len(values) - 1
    BY <1>6, <1>7
  <2>2. PICK k \in 1..Len(values) : new[i] = values[k] /\ k # pos + 1
    BY <1>1, <1>3, <1>6, <2>1
  <2>3. values[k] # values[pos + 1]
    <3>1. pos + 1 \in 1..Len(values) /\ (k < pos + 1 \/ pos + 1 < k)
      BY <1>1, <1>3, <1>5, <2>2
    <3>2. values[k] < values[pos + 1] \/ values[pos + 1] < values[k]
      BY <1>2, <3>1
    <3>3. values[k] \in Nat /\ values[pos + 1] \in Nat
      BY <1>1, <3>1
    <3>4. QED
      BY <3>2, <3>3
  <2>4. QED
    BY <1>2, <1>5, <2>2, <2>3
<1>10. ASSUME NEW x \in S \ {value}
       PROVE  \E i \in DOMAIN new : new[i] = x
  <2>1. PICK i \in 1..Len(values) : x = values[i]
    BY <1>2
  <2>2. i # pos + 1
    BY <1>5, <2>1
  <2>3. CASE i <= pos
    <3>1. i \in DOMAIN new /\ new[i] = x
      BY <1>1, <1>3, <1>5, <1>6, <1>7, <2>1, <2>3
    <3>2. QED
      BY <3>1
  <2>4. CASE i > pos
    <3>1. i - 1 \in DOMAIN new /\ new[i - 1] = x
      BY <1>1, <1>3, <1>5, <1>6, <1>7, <2>1, <2>2, <2>4
    <3>2. QED
      BY <3>1
  <2>5. QED
    BY <1>3, <2>3, <2>4
<1>11. QED
  BY <1>6, <1>8, <1>9, <1>10 DEF Sorts, new

-----------------------------------------------------------------------------
\* What a mask is, whatever calls made it.

Typed(m) ==
  /\ DOMAIN m = {"len", "words", "count", "block_counts", "active_blocks"}
  /\ m.len \in Nat
  /\ m.words \in [0..(n_words(m.len) - 1) -> SUBSET (0..(WordBits - 1))]
  /\ TailClear(m)

MaskInv(m) ==
  /\ Typed(m)
  /\ m.block_counts \in [0..(n_blocks(m.len) - 1) -> Nat]
  /\ m.active_blocks \in Seq(0..(n_blocks(m.len) - 1))
  /\ CountExact(m) /\ BlockCountsExact(m) /\ ActiveBlocksExact(m)

InBlock(m, b) == {s \in Chosen(m) : Block(s) = b}

LEMMA ChosenFinite ==
  ASSUME NEW m, m.len \in Nat
  PROVE  /\ IsFiniteSet(Chosen(m)) /\ Cardinality(Chosen(m)) \in 0..m.len
         /\ \A b : IsFiniteSet(InBlock(m, b)) /\ Cardinality(InBlock(m, b)) \in Nat
<1>1. IsFiniteSet(0..(m.len - 1)) /\ Cardinality(0..(m.len - 1)) = m.len
  <2>1. 0 \in Int /\ m.len - 1 \in Int /\ (0 > m.len - 1 => m.len = 0) /\ m.len - 1 - 0 + 1 = m.len
    OBVIOUS
  <2>2. QED
    BY <2>1, FS_Interval
<1>2. Chosen(m) \in SUBSET (0..(m.len - 1))
  BY DEF Chosen, Slots
<1>3. IsFiniteSet(Chosen(m)) /\ Cardinality(Chosen(m)) <= m.len
  BY <1>1, <1>2, FS_Subset
<1>4. Cardinality(Chosen(m)) \in Nat
  BY <1>3, FS_CardinalityType
<1>5. ASSUME NEW b
      PROVE  IsFiniteSet(InBlock(m, b)) /\ Cardinality(InBlock(m, b)) \in Nat
  <2>1. InBlock(m, b) \in SUBSET Chosen(m)
    BY DEF InBlock
  <2>2. IsFiniteSet(InBlock(m, b))
    BY <1>3, <2>1, FS_Subset
  <2>3. QED
    BY <2>2, FS_CardinalityType
<1>6. QED
  BY <1>3, <1>4, <1>5

\* A block's slots are no more than the block has.
LEMMA BlockFits ==
  ASSUME NEW m, m.len \in Nat, NEW b \in 0..(n_blocks(m.len) - 1)
  PROVE  Cardinality(InBlock(m, b)) \in 0..BLOCK
<1> DEFINE lanes == BlockStart(b)..(BlockEnd(b, m.len) - 1)
<1>1. /\ BlockStart(b) \in Nat /\ BlockEnd(b, m.len) \in Nat /\ BLOCK \in Nat
      /\ BlockStart(b) < BlockEnd(b, m.len) /\ BlockEnd(b, m.len) <= BlockStart(b) + BLOCK
      /\ \A s \in Nat : s \in lanes <=> s \in 0..(m.len - 1) /\ Block(s) = b
  BY BlockSlots, MaskConstantsOK
<1>2. InBlock(m, b) \in SUBSET lanes
  <2>1. \A s \in InBlock(m, b) : s \in Nat /\ s \in 0..(m.len - 1) /\ Block(s) = b
    BY DEF InBlock, Chosen, Slots
  <2> HIDE DEF lanes
  <2>2. QED
    BY <1>1, <2>1
<1>3. IsFiniteSet(lanes) /\ Cardinality(lanes) <= BLOCK
  <2>1. /\ BlockStart(b) \in Int /\ BlockEnd(b, m.len) - 1 \in Int
        /\ ~(BlockStart(b) > BlockEnd(b, m.len) - 1)
        /\ BlockEnd(b, m.len) - 1 - BlockStart(b) + 1 <= BLOCK
    BY <1>1
  <2>2. QED
    BY <2>1, FS_Interval
<1>4. Cardinality(InBlock(m, b)) <= Cardinality(lanes) /\ Cardinality(InBlock(m, b)) \in Nat
  <2> HIDE DEF lanes
  <2>1. Cardinality(InBlock(m, b)) <= Cardinality(lanes)
    BY <1>2, <1>3, FS_Subset
  <2>2. QED
    BY <2>1, ChosenFinite
<1>5. Cardinality(lanes) \in Nat
  BY <1>3, FS_CardinalityType
<1>6. QED
  <2> HIDE DEF lanes
  <2>1. QED
    BY <1>1, <1>3, <1>4, <1>5

\* Recounting makes a mask of any words.
LEMMA RebuildSound ==
  ASSUME NEW m, Typed(m)
  PROVE  MaskInv(Rebuild(m)) /\ Rebuild(m).len = m.len /\ Rebuild(m).words = m.words
<1> DEFINE blocks == 0..(n_blocks(m.len) - 1)
           bits == [b \in blocks |-> BlockBits(m.words, m.len, b)]
           r == Rebuild(m)
<1>1. /\ m.len \in Nat
      /\ m.words \in [0..(n_words(m.len) - 1) -> SUBSET (0..(WordBits - 1))]
      /\ DOMAIN m = {"len", "words", "count", "block_counts", "active_blocks"}
  BY DEF Typed
<1>2. ASSUME NEW b \in blocks
      PROVE  bits[b] = InBlock(m, b)
  <2>1. /\ BlockStart(b) \in Nat /\ BlockEnd(b, m.len) \in 0..m.len
        /\ \A s \in Nat : s \in BlockStart(b)..(BlockEnd(b, m.len) - 1)
                            <=> s \in 0..(m.len - 1) /\ Block(s) = b
    BY <1>1, BlockSlots
  <2>2. bits[b] = {s \in BlockStart(b)..(BlockEnd(b, m.len) - 1) : HasBit(m.words, s)}
    BY <1>1, <2>1, BitsAreSlots DEF BlockBits
  <2>3. \A s \in BlockStart(b)..(BlockEnd(b, m.len) - 1) : s \in Nat
    BY <2>1
  <2>4. \A s \in 0..(m.len - 1) : s \in Nat
    OBVIOUS
  <2>5. \A s : s \in InBlock(m, b) <=> s \in 0..(m.len - 1) /\ HasBit(m.words, s) /\ Block(s) = b
    BY DEF InBlock, Chosen, Slots
  <2> HIDE DEF bits, blocks
  <2>6. QED
    BY <2>1, <2>2, <2>3, <2>4, <2>5
<1>3. \A s \in Chosen(m) : Block(s) \in blocks /\ s \in InBlock(m, Block(s))
  BY <1>1, SlotPlace DEF Chosen, Slots, InBlock
<1>4. UNION {bits[b] : b \in blocks} = Chosen(m)
  <2> HIDE DEF bits, blocks
  <2>1. \A b \in blocks : bits[b] \subseteq Chosen(m)
    BY <1>2 DEF InBlock
  <2>2. QED
    BY <1>2, <1>3, <2>1
<1>5. {b \in blocks : bits[b] # {}} = {Block(s) : s \in Chosen(m)}
  <2> HIDE DEF bits, blocks
  <2>1. \A b \in blocks : bits[b] # {} => \E s \in Chosen(m) : b = Block(s)
    BY <1>2 DEF InBlock
  <2>2. QED
    BY <1>2, <1>3, <2>1
<1>6. /\ DOMAIN r = {"len", "words", "count", "block_counts", "active_blocks"}
      /\ r.len = m.len /\ r.words = m.words
      /\ r.count = Cardinality(UNION {bits[b] : b \in blocks})
      /\ r.block_counts = [b \in blocks |-> Cardinality(bits[b])]
      /\ r.active_blocks = Ascending({b \in blocks : bits[b] # {}})
  BY <1>1, Zenon DEF Rebuild
<1>7. Chosen(r) = Chosen(m)
  BY <1>6 DEF Chosen, Slots
<1>8. Typed(r)
  <2> HIDE DEF r
  <2>1. QED
    BY <1>1, <1>6 DEF Typed, TailClear
<1>9. CountExact(r)
  <2> HIDE DEF r, bits, blocks
  <2>1. QED
    BY <1>4, <1>6, <1>7 DEF CountExact
<1>10. /\ r.block_counts \in [blocks -> Nat]
       /\ BlockCountsExact(r)
  <2> HIDE DEF r, bits, blocks
  <2>1. \A b \in blocks : Cardinality(bits[b]) \in Nat
    BY <1>1, <1>2, ChosenFinite
  <2>2. r.block_counts \in [blocks -> Nat]
    BY <1>6, <2>1
  <2>3. \A b \in DOMAIN r.block_counts : r.block_counts[b] = Cardinality({s \in Chosen(r) : Block(s) = b})
    BY <1>2, <1>6, <1>7 DEF InBlock
  <2>4. QED
    BY <2>2, <2>3 DEF BlockCountsExact
<1>11. r.active_blocks \in Seq(blocks) /\ ActiveBlocksExact(r)
  <2> DEFINE active == {b \in blocks : bits[b] # {}}
  <2>1. n_blocks(m.len) - 1 \in Int /\ 0 \in Int
    <3>1. BLOCK \in Nat \ {0}
      BY MaskConstantsOK
    <3>2. n_blocks(m.len) \in Nat
      BY <1>1, <3>1, PartsHold, 0 \in Nat DEF n_blocks
    <3>3. QED
      BY <3>2
  <2>2. active \in SUBSET (0..(n_blocks(m.len) - 1))
    BY DEF blocks
  <2> HIDE DEF active
  <2>3. Ascending(active) \in Seq(active) /\ Sorts(Ascending(active), active)
    BY <2>1, <2>2, AscendingSorts
  <2>4. r.active_blocks = Ascending(active)
    BY <1>6 DEF active
  <2>5. Ascending(active) \in Seq(blocks)
    <3>1. active \subseteq blocks
      BY <2>2
    <3> HIDE DEF blocks
    <3>2. QED
      BY <2>3, <3>1
  <2> HIDE DEF r, bits, blocks
  <2>6. active = {Block(s) : s \in Chosen(r)}
    BY <1>5, <1>7 DEF active
  <2>7. QED
    BY <2>3, <2>4, <2>5, <2>6 DEF ActiveBlocksExact, Sorts
<1>12. QED
  BY <1>6, <1>8, <1>9, <1>10, <1>11 DEF MaskInv

\* The words of a length, and how far the last one goes.
LEMMA LastWord ==
  ASSUME NEW len \in Nat
  PROVE  /\ n_words(len) \in Nat /\ n_blocks(len) \in Nat
         /\ len % WordBits \in 0..(WordBits - 1)
         /\ len % WordBits = 0 => n_words(len) * WordBits = len
         /\ len % WordBits # 0 => /\ n_words(len) > 0
                                  /\ (n_words(len) - 1) * WordBits + (len % WordBits) = len
<1> DEFINE q == len \div WordBits
           r == len % WordBits
<1>1. WordBits \in Nat \ {0} /\ BLOCK \in Nat \ {0}
  BY MaskConstantsOK
<1>2. q \in Nat /\ r \in 0..(WordBits - 1) /\ len = q * WordBits + r
  BY <1>1, DivMod
<1>3. n_words(len) \in Nat /\ n_blocks(len) \in Nat
  BY <1>1, 0 \in Nat, PartsHold DEF n_words, n_blocks
<1> HIDE DEF q, r
<1>4. CASE r = 0
  <2>1. len + WordBits - 1 = q * WordBits + (WordBits - 1) /\ WordBits - 1 \in 0..(WordBits - 1)
    BY <1>1, <1>2, <1>4
  <2>2. n_words(len) = q
    BY <1>1, <1>2, <2>1, DivModUnique DEF n_words
  <2>3. n_words(len) * WordBits = len
    BY <1>1, <1>2, <1>4, <2>2
  <2>4. QED
    BY <1>2, <1>3, <1>4, <2>3 DEF r
<1>5. CASE r # 0
  <2>1. /\ (q + 1) * WordBits = q * WordBits + WordBits /\ r - 1 \in 0..(WordBits - 1)
        /\ q + 1 \in Nat
    BY <1>1, <1>2, <1>5
  <2>2. len + WordBits - 1 = (q + 1) * WordBits + (r - 1)
    BY <1>1, <1>2, <2>1
  <2>3. n_words(len) = q + 1
    BY <1>1, <2>1, <2>2, DivModUnique DEF n_words
  <2>4. n_words(len) > 0 /\ (n_words(len) - 1) * WordBits + r = len
    <3>1. n_words(len) > 0 /\ n_words(len) - 1 = q
      BY <1>2, <2>3
    <3>2. QED
      BY <1>2, <3>1
  <2>5. QED
    BY <1>2, <1>3, <1>5, <2>4 DEF r
<1>6. QED
  BY <1>4, <1>5

LEMMA NewSound ==
  ASSUME NEW len \in Nat
  PROVE  MaskInv(NewMask(len)) /\ NewMask(len).len = len
<1> DEFINE m == NewMask(len)
<1>1. /\ DOMAIN m = {"len", "words", "count", "block_counts", "active_blocks"}
      /\ m.len = len /\ m.count = 0 /\ m.active_blocks = << >>
      /\ m.words = [w \in 0..(n_words(len) - 1) |-> {}]
      /\ m.block_counts = [b \in 0..(n_blocks(len) - 1) |-> 0]
  BY DEF NewMask
<1> HIDE DEF m
<1>2. Typed(m)
  BY <1>1 DEF Typed, TailClear
<1>3. Chosen(m) = {}
  <2>1. ASSUME NEW s \in 0..(len - 1)
        PROVE  ~HasBit(m.words, s)
    BY <1>1, SlotPlace DEF HasBit
  <2>2. QED
    BY <1>1, <2>1 DEF Chosen, Slots
<1>4. CountExact(m)
  BY <1>1, <1>3, FS_EmptySet DEF CountExact
<1>5. BlockCountsExact(m)
  <2>1. ASSUME NEW b \in 0..(n_blocks(len) - 1)
        PROVE  {s \in Chosen(m) : Block(s) = b} = {}
    BY <1>3
  <2>2. QED
    BY <1>1, <2>1, FS_EmptySet DEF BlockCountsExact
<1>6. ActiveBlocksExact(m)
  BY <1>1, <1>3 DEF ActiveBlocksExact
<1>7. /\ m.block_counts \in [0..(n_blocks(m.len) - 1) -> Nat]
      /\ m.active_blocks \in Seq(0..(n_blocks(m.len) - 1))
  BY <1>1
<1>8. QED
  BY <1>1, <1>2, <1>4, <1>5, <1>6, <1>7 DEF MaskInv, m

\* The list of all blocks sorts the blocks of all slots.
LEMMA AllBlocks ==
  ASSUME NEW len \in Nat
  PROVE  LET n == n_blocks(len)
             list == [i \in 1..n |-> i - 1]
         IN  list \in Seq(0..(n - 1)) /\ Sorts(list, {Block(s) : s \in 0..(len - 1)})
<1> DEFINE n == n_blocks(len)
           list == [i \in 1..n |-> i - 1]
           all == {Block(s) : s \in 0..(len - 1)}
<1>1. n \in Nat
  BY LastWord
<1>2. list \in Seq(0..(n - 1)) /\ DOMAIN list = 1..n
  <2>1. list \in [1..n -> 0..(n - 1)]
    BY <1>1
  <2> HIDE DEF list, n
  <2>2. QED
    BY <1>1, <2>1, ArrayIsSeq
<1>3. ASSUME NEW s \in 0..(len - 1)
      PROVE  \E i \in 1..n : list[i] = Block(s)
  <2>1. Block(s) \in 0..(n - 1)
    BY SlotPlace
  <2>2. Block(s) + 1 \in 1..n /\ list[Block(s) + 1] = Block(s)
    BY <1>1, <2>1
  <2>3. QED
    BY <2>2
<1>4. ASSUME NEW i \in 1..n
      PROVE  \E s \in 0..(len - 1) : list[i] = Block(s)
  <2>1. list[i] = i - 1 /\ i - 1 \in 0..(n - 1)
    BY <1>1
  <2>2. /\ BlockStart(i - 1) \in Nat /\ BlockEnd(i - 1, len) \in Nat
        /\ BlockStart(i - 1) < BlockEnd(i - 1, len)
        /\ \A s \in Nat : s \in BlockStart(i - 1)..(BlockEnd(i - 1, len) - 1)
                            <=> s \in 0..(len - 1) /\ Block(s) = i - 1
    BY <2>1, BlockSlots
  <2>3. BlockStart(i - 1) \in BlockStart(i - 1)..(BlockEnd(i - 1, len) - 1)
    BY <2>2
  <2>4. BlockStart(i - 1) \in 0..(len - 1) /\ Block(BlockStart(i - 1)) = i - 1
    BY <2>2, <2>3
  <2>5. QED
    BY <2>1, <2>4
<1>5. \A i, j \in 1..n : i < j => list[i] < list[j]
  BY <1>1
<1>6. Sorts(list, all)
  <2> HIDE DEF list, n
  <2>1. {list[i] : i \in 1..n} = all
    BY <1>3, <1>4
  <2>2. QED
    BY <1>2, <1>5, <2>1 DEF Sorts
<1>7. QED
  BY <1>2, <1>6

LEMMA AllSound ==
  ASSUME NEW len \in Nat
  PROVE  MaskInv(AllMask(len)) /\ AllMask(len).len = len
<1> DEFINE m == AllMask(len)
           full == [w \in 0..(n_words(len) - 1) |-> 0..(WordBits - 1)]
           n == n_blocks(len)
           counts == [b \in 0..(n - 1) |-> BlockEnd(b, len) - BlockStart(b)]
           list == [i \in 1..n |-> i - 1]
<1>1. /\ DOMAIN m = {"len", "words", "count", "block_counts", "active_blocks"}
      /\ m.len = len /\ m.count = len /\ m.active_blocks = list
      /\ m.words = ClearTailBits(len, full) /\ m.block_counts = counts
  BY DEF AllMask
<1> HIDE DEF m
<1>2. /\ n \in Nat /\ n_words(len) \in Nat /\ WordBits \in Nat \ {0}
      /\ len % WordBits \in 0..(WordBits - 1)
      /\ len % WordBits = 0 => n_words(len) * WordBits = len
      /\ len % WordBits # 0 => /\ n_words(len) > 0
                               /\ (n_words(len) - 1) * WordBits + (len % WordBits) = len
  BY LastWord, MaskConstantsOK
<1>3. /\ m.words \in [0..(n_words(len) - 1) -> SUBSET (0..(WordBits - 1))]
      /\ \A w \in 0..(n_words(len) - 1), i \in 0..(WordBits - 1) :
           i \in m.words[w] <=> len % WordBits = 0 \/ w # n_words(len) - 1 \/ i < len % WordBits
  <2>1. CASE len % WordBits = 0
    BY <1>1, <2>1 DEF ClearTailBits
  <2>2. CASE len % WordBits # 0
    <3>1. m.words = [full EXCEPT ![n_words(len) - 1] = @ \cap 0..((len % WordBits) - 1)]
      BY <1>1, <2>2 DEF ClearTailBits
    <3>2. n_words(len) - 1 \in 0..(n_words(len) - 1)
      BY <1>2, <2>2
    <3>3. \A i \in 0..(WordBits - 1) : i \in 0..((len % WordBits) - 1) <=> i < len % WordBits
      BY <1>2
    <3>4. QED
      BY <2>2, <3>1, <3>2, <3>3
  <2>3. QED
    BY <2>1, <2>2
<1>4. ASSUME NEW w \in 0..(n_words(len) - 1), NEW i \in 0..(WordBits - 1)
      PROVE  i \in m.words[w] <=> w * WordBits + i < len
  <2>1. CASE len % WordBits = 0
    <3>1. w * WordBits + i < n_words(len) * WordBits
      BY <1>2, Ordered
    <3>2. QED
      BY <1>2, <1>3, <2>1, <3>1
  <2>2. CASE len % WordBits # 0 /\ w = n_words(len) - 1
    <3>1. w * WordBits \in Nat /\ i \in Nat /\ w * WordBits + (len % WordBits) = len
      BY <1>2, <2>2
    <3>2. QED
      BY <1>2, <1>3, <2>2, <3>1
  <2>3. CASE len % WordBits # 0 /\ w # n_words(len) - 1
    <3>1. w < n_words(len) - 1 /\ w \in Int /\ n_words(len) - 1 \in Int
      BY <1>2, <2>3
    <3>2. w * WordBits + i < (n_words(len) - 1) * WordBits
      BY <1>2, <3>1, Ordered
    <3>3. (n_words(len) - 1) * WordBits <= len
      BY <1>2, <2>3
    <3>4. w * WordBits + i \in Int /\ (n_words(len) - 1) * WordBits \in Int
      BY <1>2, <3>1
    <3>5. QED
      BY <1>2, <1>3, <2>3, <3>2, <3>3, <3>4
  <2>4. QED
    BY <2>1, <2>2, <2>3
<1>5. TailClear(m)
  <2> HIDE DEF full
  <2>1. \A w \in DOMAIN m.words : w \in 0..(n_words(len) - 1)
    BY <1>3
  <2>2. ASSUME NEW w \in DOMAIN m.words, NEW i \in m.words[w]
        PROVE  w * WordBits + i < m.len
    BY <1>1, <1>3, <1>4, <2>1
  <2>3. QED
    BY <2>2 DEF TailClear
<1>6. Chosen(m) = 0..(len - 1)
  <2>1. ASSUME NEW s \in 0..(len - 1)
        PROVE  HasBit(m.words, s)
    BY <1>4, SlotPlace DEF HasBit
  <2>2. QED
    BY <1>1, <2>1 DEF Chosen, Slots
<1>7. CountExact(m)
  <2>1. 0 \in Int /\ len - 1 \in Int /\ (0 > len - 1 => len = 0) /\ len - 1 - 0 + 1 = len
    OBVIOUS
  <2>2. QED
    BY <1>1, <1>6, <2>1, FS_Interval DEF CountExact
<1>8. ASSUME NEW b \in 0..(n - 1)
      PROVE  counts[b] \in Nat \ {0} /\ counts[b] = Cardinality({s \in Chosen(m) : Block(s) = b})
  <2>1. /\ BlockStart(b) \in Nat /\ BlockEnd(b, len) \in Nat
        /\ BlockStart(b) < BlockEnd(b, len)
        /\ \A s \in Nat : s \in BlockStart(b)..(BlockEnd(b, len) - 1)
                            <=> s \in 0..(len - 1) /\ Block(s) = b
    BY BlockSlots
  <2>2. \A s \in BlockStart(b)..(BlockEnd(b, len) - 1) : s \in Nat
    BY <2>1
  <2>3. \A s \in 0..(len - 1) : s \in Nat
    OBVIOUS
  <2>4. {s \in Chosen(m) : Block(s) = b} = BlockStart(b)..(BlockEnd(b, len) - 1)
    BY <1>6, <2>1, <2>2, <2>3
  <2>5. /\ BlockStart(b) \in Int /\ BlockEnd(b, len) - 1 \in Int
        /\ ~(BlockStart(b) > BlockEnd(b, len) - 1)
        /\ BlockEnd(b, len) - 1 - BlockStart(b) + 1 = BlockEnd(b, len) - BlockStart(b)
    BY <2>1
  <2>6. Cardinality(BlockStart(b)..(BlockEnd(b, len) - 1)) = BlockEnd(b, len) - BlockStart(b)
    BY <2>5, FS_Interval
  <2>7. counts[b] = BlockEnd(b, len) - BlockStart(b)
    OBVIOUS
  <2>8. BlockEnd(b, len) - BlockStart(b) \in Nat \ {0}
    BY <2>1
  <2> HIDE DEF counts
  <2>9. QED
    BY <2>4, <2>6, <2>7, <2>8, Zenon
<1>9. BlockCountsExact(m) /\ m.block_counts \in [0..(n - 1) -> Nat]
  <2> HIDE DEF n
  <2>1. \A b \in 0..(n - 1) : counts[b] \in Nat
    BY <1>8
  <2>2. DOMAIN m.block_counts = 0..(n - 1)
    BY <1>1
  <2> HIDE DEF counts
  <2>3. \A b \in DOMAIN m.block_counts :
          m.block_counts[b] = Cardinality({s \in Chosen(m) : Block(s) = b})
    BY <1>1, <1>8, <2>2
  <2>4. m.block_counts \in [0..(n - 1) -> Nat]
    BY <1>1, <2>1 DEF counts
  <2>5. QED
    BY <2>3, <2>4 DEF BlockCountsExact
<1>10. list \in Seq(0..(n - 1)) /\ Sorts(list, {Block(s) : s \in 0..(len - 1)})
  BY AllBlocks
<1>11. ActiveBlocksExact(m)
  <2> HIDE DEF list, n
  <2>1. QED
    BY <1>1, <1>6, <1>10 DEF ActiveBlocksExact, Sorts
<1>12. Typed(m)
  BY <1>1, <1>3, <1>5 DEF Typed
<1>13. QED
  BY <1>1, <1>5, <1>7, <1>9, <1>10, <1>11, <1>12 DEF MaskInv, m

LEMMA FromSlotsSound ==
  ASSUME NEW len \in Nat, NEW slots \in SUBSET (0..(len - 1))
  PROVE  MaskInv(FromSlots(len, slots)) /\ FromSlots(len, slots).len = len
<1> DEFINE words == [w \in 0..(n_words(len) - 1) |-> {BitOf(s) : s \in {s \in slots : WordOf(s) = w}}]
           m == [NewMask(len) EXCEPT !.words = words]
<1>1. /\ DOMAIN m = {"len", "words", "count", "block_counts", "active_blocks"}
      /\ m.len = len /\ m.words = words
  BY DEF NewMask
<1>2. FromSlots(len, slots) = Rebuild(m)
  BY DEF FromSlots, NewMask
<1> HIDE DEF m
<1>3. ASSUME NEW w \in 0..(n_words(len) - 1), NEW i \in words[w]
      PROVE  i \in 0..(WordBits - 1) /\ w * WordBits + i < len
  <2>1. PICK s \in slots : WordOf(s) = w /\ i = BitOf(s)
    OBVIOUS
  <2>2. s \in 0..(len - 1)
    OBVIOUS
  <2>3. BitOf(s) \in 0..(WordBits - 1) /\ s = WordOf(s) * WordBits + BitOf(s)
    BY <2>2, SlotPlace
  <2>4. QED
    BY <2>1, <2>2, <2>3
<1>4. words \in [0..(n_words(len) - 1) -> SUBSET (0..(WordBits - 1))]
  BY <1>3
<1> HIDE DEF words
<1>5. Typed(m)
  BY <1>1, <1>3, <1>4 DEF Typed, TailClear
<1>6. QED
  BY <1>1, <1>2, <1>5, RebuildSound

\* The words of operands of one length make a mask of that length.
LEMMA CombinedSound ==
  ASSUME NEW m, Typed(m), NEW others, \A o \in others : Typed(o) /\ o.len = m.len
  PROVE  /\ MaskInv(Union(m, others)) /\ Union(m, others).len = m.len
         /\ MaskInv(Intersection(m, others)) /\ Intersection(m, others).len = m.len
<1>1. /\ m.words \in [0..(n_words(m.len) - 1) -> SUBSET (0..(WordBits - 1))]
      /\ DOMAIN m = {"len", "words", "count", "block_counts", "active_blocks"}
      /\ m.len \in Nat
      /\ \A w \in 0..(n_words(m.len) - 1) : \A i \in m.words[w] : w * WordBits + i < m.len
  BY DEF Typed, TailClear
<1>2. ASSUME NEW o \in others
      PROVE  /\ o.words \in [0..(n_words(m.len) - 1) -> SUBSET (0..(WordBits - 1))]
             /\ \A w \in 0..(n_words(m.len) - 1) : \A i \in o.words[w] : w * WordBits + i < m.len
  BY DEF Typed, TailClear
<1>3. MaskInv(Union(m, others)) /\ Union(m, others).len = m.len
  <2> DEFINE words == [w \in DOMAIN m.words |-> m.words[w] \cup UNION {o.words[w] : o \in others}]
             u == [m EXCEPT !.words = words]
  <2>1. /\ DOMAIN u = DOMAIN m /\ u.len = m.len /\ u.words = words
        /\ Union(m, others) = Rebuild(u)
    BY <1>1 DEF Union
  <2>2. ASSUME NEW w \in 0..(n_words(m.len) - 1)
        PROVE  /\ words[w] \in SUBSET (0..(WordBits - 1))
               /\ \A i \in words[w] : w * WordBits + i < m.len
    <3>1. \A i \in words[w] : i \in m.words[w] \/ \E o \in others : i \in o.words[w]
      BY <1>1
    <3> HIDE DEF words
    <3>2. QED
      BY <1>1, <1>2, <3>1
  <2>3. words \in [0..(n_words(m.len) - 1) -> SUBSET (0..(WordBits - 1))]
    BY <1>1, <2>2
  <2> HIDE DEF u, words
  <2>4. Typed(u)
    BY <1>1, <2>1, <2>2, <2>3 DEF Typed, TailClear
  <2>5. QED
    BY <2>1, <2>4, RebuildSound
<1>4. MaskInv(Intersection(m, others)) /\ Intersection(m, others).len = m.len
  <2> DEFINE words == [w \in DOMAIN m.words |-> {i \in m.words[w] : \A o \in others : i \in o.words[w]}]
             u == [m EXCEPT !.words = words]
  <2>1. /\ DOMAIN u = DOMAIN m /\ u.len = m.len /\ u.words = words
        /\ Intersection(m, others) = Rebuild(u)
    BY <1>1 DEF Intersection
  <2>2. ASSUME NEW w \in 0..(n_words(m.len) - 1)
        PROVE  words[w] \subseteq m.words[w]
    BY <1>1
  <2>3. words \in [0..(n_words(m.len) - 1) -> SUBSET (0..(WordBits - 1))]
    BY <1>1
  <2> HIDE DEF u, words
  <2>4. Typed(u)
    BY <1>1, <2>1, <2>2, <2>3 DEF Typed, TailClear
  <2>5. QED
    BY <2>1, <2>4, RebuildSound
<1>5. QED
  BY <1>3, <1>4

\* A slot more.
LEMMA AllowedSound ==
  ASSUME NEW m, MaskInv(m), NEW slot \in Slots(m), ~HasBit(m.words, slot)
  PROVE  /\ MaskInv(Allowed(m, slot)) /\ Allowed(m, slot).len = m.len
         /\ Chosen(Allowed(m, slot)) = Chosen(m) \cup {slot}
<1> DEFINE a == Allowed(m, slot)
           b == Block(slot)
           blocks == 0..(n_blocks(m.len) - 1)
<1>1. /\ m.len \in Nat /\ slot \in 0..(m.len - 1)
      /\ m.words \in [0..(n_words(m.len) - 1) -> SUBSET (0..(WordBits - 1))]
      /\ DOMAIN m = {"len", "words", "count", "block_counts", "active_blocks"}
      /\ \A w \in 0..(n_words(m.len) - 1) : \A i \in m.words[w] : w * WordBits + i < m.len
      /\ m.block_counts \in [blocks -> Nat] /\ m.active_blocks \in Seq(blocks)
      /\ m.count = Cardinality(Chosen(m))
      /\ Sorts(m.active_blocks, {Block(s) : s \in Chosen(m)})
      /\ \A c \in blocks : m.block_counts[c] = Cardinality(InBlock(m, c))
  BY DEF MaskInv, Typed, TailClear, CountExact, BlockCountsExact, ActiveBlocksExact, Sorts, InBlock, Slots
<1>2. /\ WordOf(slot) \in 0..(n_words(m.len) - 1) /\ BitOf(slot) \in 0..(WordBits - 1)
      /\ slot = WordOf(slot) * WordBits + BitOf(slot) /\ b \in blocks /\ n_blocks(m.len) \in Nat
  BY <1>1, SlotPlace
<1>3. /\ DOMAIN a = DOMAIN m /\ a.len = m.len
      /\ a.words = [m.words EXCEPT ![WordOf(slot)] = m.words[WordOf(slot)] \cup {BitOf(slot)}]
      /\ a.count = m.count + 1
      /\ a.block_counts = [m.block_counts EXCEPT ![b] = m.block_counts[b] + 1]
      /\ a.active_blocks = IF m.block_counts[b] = 0 THEN InsertSorted(m.active_blocks, b)
                           ELSE m.active_blocks
  BY <1>1 DEF Allowed
<1> HIDE DEF a, blocks, b
<1>4. ASSUME NEW s \in 0..(m.len - 1)
      PROVE  HasBit(a.words, s) <=> HasBit(m.words, s) \/ s = slot
  <2>1. /\ WordOf(s) \in 0..(n_words(m.len) - 1)
        /\ s = WordOf(s) * WordBits + BitOf(s)
    BY <1>1, SlotPlace
  <2>2. BitOf(s) \in a.words[WordOf(s)]
          <=> \/ BitOf(s) \in m.words[WordOf(s)]
              \/ WordOf(s) = WordOf(slot) /\ BitOf(s) = BitOf(slot)
    <3>1. a.words[WordOf(s)] = IF WordOf(s) = WordOf(slot) THEN m.words[WordOf(s)] \cup {BitOf(slot)}
                               ELSE m.words[WordOf(s)]
      BY <1>1, <1>3, <2>1
    <3>2. QED
      BY <3>1
  <2>3. WordOf(s) = WordOf(slot) /\ BitOf(s) = BitOf(slot) <=> s = slot
    BY <1>2, <2>1
  <2>4. QED
    BY <2>2, <2>3 DEF HasBit
<1>5. Chosen(a) = Chosen(m) \cup {slot} /\ slot \notin Chosen(m)
  BY <1>1, <1>3, <1>4 DEF Chosen, Slots
<1>6. Typed(a)
  <2>1. a.words \in [0..(n_words(m.len) - 1) -> SUBSET (0..(WordBits - 1))]
    <3>1. m.words[WordOf(slot)] \cup {BitOf(slot)} \in SUBSET (0..(WordBits - 1))
      BY <1>1, <1>2
    <3>2. QED
      BY <1>1, <1>3, <3>1
  <2>2. ASSUME NEW w \in 0..(n_words(m.len) - 1), NEW i \in a.words[w]
        PROVE  w * WordBits + i < m.len
    <3>1. i \in m.words[w] \/ (w = WordOf(slot) /\ i = BitOf(slot))
      BY <1>1, <1>3, <2>2
    <3>2. CASE i \in m.words[w]
      BY <1>1, <3>2
    <3>3. CASE w = WordOf(slot) /\ i = BitOf(slot)
      <4>1. w * WordBits + i = slot
        BY <1>2, <3>3
      <4>2. QED
        BY <1>1, <4>1
    <3>4. QED
      BY <3>1, <3>2, <3>3
  <2>3. QED
    BY <1>1, <1>3, <2>1, <2>2 DEF Typed, TailClear
<1>7. CountExact(a)
  <2>1. IsFiniteSet(Chosen(m))
    BY <1>1, ChosenFinite
  <2>2. Cardinality(Chosen(m) \cup {slot}) = Cardinality(Chosen(m)) + 1
    BY <1>5, <2>1, FS_AddElement
  <2>3. QED
    BY <1>1, <1>3, <1>5, <2>2 DEF CountExact
<1>8. ASSUME NEW c \in blocks
      PROVE  a.block_counts[c] = Cardinality(InBlock(a, c)) /\ a.block_counts[c] \in Nat
  <2>1. IsFiniteSet(InBlock(m, c)) /\ Cardinality(InBlock(m, c)) \in Nat
    BY <1>1, ChosenFinite
  <2>2. CASE c = b
    <3>1. InBlock(a, c) = InBlock(m, c) \cup {slot} /\ slot \notin InBlock(m, c)
      BY <1>5, <2>2 DEF InBlock, b
    <3>2. Cardinality(InBlock(a, c)) = Cardinality(InBlock(m, c)) + 1
      BY <2>1, <3>1, FS_AddElement
    <3>3. a.block_counts[c] = m.block_counts[c] + 1
      BY <1>1, <1>3, <2>2
    <3>4. QED
      BY <1>1, <2>1, <3>2, <3>3
  <2>3. CASE c # b
    <3>1. InBlock(a, c) = InBlock(m, c)
      BY <1>5, <2>3 DEF InBlock, b
    <3>2. a.block_counts[c] = m.block_counts[c]
      BY <1>1, <1>3, <2>3
    <3>3. QED
      BY <1>1, <2>1, <3>1, <3>2
  <2>4. QED
    BY <2>2, <2>3
<1>9. a.block_counts \in [blocks -> Nat] /\ BlockCountsExact(a)
  <2>1. DOMAIN a.block_counts = blocks /\ a.block_counts = [c \in blocks |-> a.block_counts[c]]
    BY <1>1, <1>3
  <2>2. a.block_counts \in [blocks -> Nat]
    BY <1>8, <2>1
  <2>3. QED
    BY <1>8, <2>1, <2>2 DEF BlockCountsExact, InBlock
<1>10. {Block(s) : s \in Chosen(a)} = {Block(s) : s \in Chosen(m)} \cup {b}
  BY <1>5 DEF b
<1>11. a.active_blocks \in Seq(blocks) /\ Sorts(a.active_blocks, {Block(s) : s \in Chosen(a)})
  <2>1. IsFiniteSet(InBlock(m, b)) /\ m.block_counts[b] = Cardinality(InBlock(m, b))
    BY <1>1, <1>2, ChosenFinite
  <2>2. CASE m.block_counts[b] = 0
    <3>1. InBlock(m, b) = {}
      BY <2>1, <2>2, FS_EmptySet
    <3>2. b \notin {Block(s) : s \in Chosen(m)}
      BY <3>1 DEF InBlock
    <3>3. blocks \in SUBSET Nat
      BY <1>2 DEF blocks
    <3> DEFINE taken == {Block(s) : s \in Chosen(m)}
               list == InsertSorted(m.active_blocks, b)
    <3>4. Sorts(m.active_blocks, taken) /\ b \notin taken /\ m.active_blocks \in Seq(blocks)
      BY <1>1, <3>2
    <3>5. a.active_blocks = list
      BY <1>3, <2>2
    <3> HIDE DEF taken
    <3>6. list \in Seq(blocks) /\ Sorts(list, taken \cup {b})
      BY <1>2, <3>3, <3>4, InsertSorts
    <3>7. QED
      BY <1>10, <3>5, <3>6 DEF taken
  <2>3. CASE m.block_counts[b] # 0
    <3>1. InBlock(m, b) # {}
      BY <2>1, <2>3, FS_EmptySet
    <3>2. b \in {Block(s) : s \in Chosen(m)}
      BY <3>1 DEF InBlock
    <3>3. {Block(s) : s \in Chosen(a)} = {Block(s) : s \in Chosen(m)}
      BY <1>10, <3>2
    <3>4. a.active_blocks = m.active_blocks
      BY <1>3, <2>3
    <3>5. QED
      BY <1>1, <3>3, <3>4
  <2>4. QED
    BY <2>2, <2>3
<1>12. QED
  BY <1>3, <1>5, <1>6, <1>7, <1>9, <1>11 DEF MaskInv, ActiveBlocksExact, Sorts, a, blocks

\* A slot less.
LEMMA DisallowedSound ==
  ASSUME NEW m, MaskInv(m), NEW slot \in Slots(m), HasBit(m.words, slot)
  PROVE  /\ MaskInv(Disallowed(m, slot)) /\ Disallowed(m, slot).len = m.len
         /\ Chosen(Disallowed(m, slot)) = Chosen(m) \ {slot}
<1> DEFINE a == Disallowed(m, slot)
           b == Block(slot)
           blocks == 0..(n_blocks(m.len) - 1)
<1>1. /\ m.len \in Nat /\ slot \in 0..(m.len - 1)
      /\ m.words \in [0..(n_words(m.len) - 1) -> SUBSET (0..(WordBits - 1))]
      /\ DOMAIN m = {"len", "words", "count", "block_counts", "active_blocks"}
      /\ \A w \in 0..(n_words(m.len) - 1) : \A i \in m.words[w] : w * WordBits + i < m.len
      /\ m.block_counts \in [blocks -> Nat] /\ m.active_blocks \in Seq(blocks)
      /\ m.count = Cardinality(Chosen(m))
      /\ Sorts(m.active_blocks, {Block(s) : s \in Chosen(m)})
      /\ \A c \in blocks : m.block_counts[c] = Cardinality(InBlock(m, c))
  BY DEF MaskInv, Typed, TailClear, CountExact, BlockCountsExact, ActiveBlocksExact, Sorts, InBlock, Slots
<1>2. /\ WordOf(slot) \in 0..(n_words(m.len) - 1) /\ BitOf(slot) \in 0..(WordBits - 1)
      /\ slot = WordOf(slot) * WordBits + BitOf(slot) /\ b \in blocks /\ n_blocks(m.len) \in Nat
  BY <1>1, SlotPlace
<1>3. /\ DOMAIN a = DOMAIN m /\ a.len = m.len
      /\ a.words = [m.words EXCEPT ![WordOf(slot)] = m.words[WordOf(slot)] \ {BitOf(slot)}]
      /\ a.count = m.count - 1
      /\ a.block_counts = [m.block_counts EXCEPT ![b] = m.block_counts[b] - 1]
      /\ a.active_blocks = IF m.block_counts[b] = 1 THEN RemoveSorted(m.active_blocks, b)
                           ELSE m.active_blocks
  BY <1>1 DEF Disallowed
<1> HIDE DEF a, blocks, b
<1>4. ASSUME NEW s \in 0..(m.len - 1)
      PROVE  HasBit(a.words, s) <=> HasBit(m.words, s) /\ s # slot
  <2>1. /\ WordOf(s) \in 0..(n_words(m.len) - 1)
        /\ s = WordOf(s) * WordBits + BitOf(s)
    BY <1>1, SlotPlace
  <2>2. BitOf(s) \in a.words[WordOf(s)]
          <=> /\ BitOf(s) \in m.words[WordOf(s)]
              /\ ~(WordOf(s) = WordOf(slot) /\ BitOf(s) = BitOf(slot))
    BY <1>1, <1>2, <1>3, <2>1
  <2>3. WordOf(s) = WordOf(slot) /\ BitOf(s) = BitOf(slot) <=> s = slot
    BY <1>2, <2>1
  <2>4. QED
    BY <2>2, <2>3 DEF HasBit
<1>5. Chosen(a) = Chosen(m) \ {slot} /\ slot \in Chosen(m)
  BY <1>1, <1>3, <1>4 DEF Chosen, Slots
<1>6. Typed(a)
  <2>1. /\ a.words \in [0..(n_words(m.len) - 1) -> SUBSET (0..(WordBits - 1))]
        /\ \A w \in 0..(n_words(m.len) - 1) : a.words[w] \subseteq m.words[w]
    BY <1>1, <1>2, <1>3
  <2>2. QED
    BY <1>1, <1>3, <2>1 DEF Typed, TailClear
<1>7. CountExact(a)
  <2>1. IsFiniteSet(Chosen(m))
    BY <1>1, ChosenFinite
  <2>2. Cardinality(Chosen(m) \ {slot}) = Cardinality(Chosen(m)) - 1
    BY <1>5, <2>1, FS_RemoveElement
  <2>3. QED
    BY <1>1, <1>3, <1>5, <2>2 DEF CountExact
<1>8. ASSUME NEW c \in blocks
      PROVE  a.block_counts[c] = Cardinality(InBlock(a, c)) /\ a.block_counts[c] \in Nat
  <2>1. /\ IsFiniteSet(InBlock(m, c)) /\ Cardinality(InBlock(m, c)) \in Nat
        /\ Cardinality(InBlock(a, c)) \in Nat
    BY <1>1, <1>3, ChosenFinite
  <2>2. CASE c = b
    <3>1. InBlock(a, c) = InBlock(m, c) \ {slot} /\ slot \in InBlock(m, c)
      BY <1>5, <2>2 DEF InBlock, b
    <3>2. Cardinality(InBlock(a, c)) = Cardinality(InBlock(m, c)) - 1
      BY <2>1, <3>1, FS_RemoveElement
    <3>3. a.block_counts[c] = m.block_counts[c] - 1
      BY <1>1, <1>3, <2>2
    <3>4. QED
      BY <1>1, <2>1, <3>2, <3>3
  <2>3. CASE c # b
    <3>1. InBlock(a, c) = InBlock(m, c)
      BY <1>5, <2>3 DEF InBlock, b
    <3>2. a.block_counts[c] = m.block_counts[c]
      BY <1>1, <1>3, <2>3
    <3>3. QED
      BY <1>1, <2>1, <3>1, <3>2
  <2>4. QED
    BY <2>2, <2>3
<1>9. a.block_counts \in [blocks -> Nat] /\ BlockCountsExact(a)
  <2>1. DOMAIN a.block_counts = blocks /\ a.block_counts = [c \in blocks |-> a.block_counts[c]]
    BY <1>1, <1>3
  <2>2. a.block_counts \in [blocks -> Nat]
    BY <1>8, <2>1
  <2>3. QED
    BY <1>8, <2>1, <2>2 DEF BlockCountsExact, InBlock
<1>10. \A c : c # b => (c \in {Block(s) : s \in Chosen(a)} <=> c \in {Block(s) : s \in Chosen(m)})
  BY <1>5 DEF b
<1>11. a.active_blocks \in Seq(blocks) /\ Sorts(a.active_blocks, {Block(s) : s \in Chosen(a)})
  <2>1. IsFiniteSet(InBlock(m, b)) /\ m.block_counts[b] = Cardinality(InBlock(m, b))
    BY <1>1, <1>2, ChosenFinite
  <2>2. slot \in InBlock(m, b) /\ b \in {Block(s) : s \in Chosen(m)}
    BY <1>5 DEF InBlock, b
  <2>3. CASE m.block_counts[b] = 1
    <3>1. InBlock(m, b) = {slot}
      <4>1. PICK x : InBlock(m, b) = {x}
        BY <2>1, <2>3, FS_Singleton
      <4>2. QED
        BY <2>2, <4>1
    <3>2. b \notin {Block(s) : s \in Chosen(a)}
      BY <1>5, <3>1 DEF InBlock
    <3>3. blocks \in SUBSET Nat
      BY <1>2 DEF blocks
    <3> DEFINE taken == {Block(s) : s \in Chosen(m)}
               list == RemoveSorted(m.active_blocks, b)
    <3>4. Sorts(m.active_blocks, taken) /\ b \in taken /\ m.active_blocks \in Seq(blocks)
      BY <1>1, <2>2
    <3>5. a.active_blocks = list
      BY <1>3, <2>3
    <3>6. {Block(s) : s \in Chosen(a)} = taken \ {b}
      BY <1>10, <3>2
    <3> HIDE DEF taken
    <3>7. list \in Seq(blocks) /\ Sorts(list, taken \ {b})
      BY <3>3, <3>4, RemoveSorts
    <3>8. QED
      BY <3>5, <3>6, <3>7
  <2>4. CASE m.block_counts[b] # 1
    <3>1. PICK s \in InBlock(m, b) : s # slot
      BY <2>1, <2>2, <2>4, FS_Singleton
    <3>2. b \in {Block(o) : o \in Chosen(a)}
      BY <1>5, <3>1 DEF InBlock
    <3>3. {Block(o) : o \in Chosen(a)} = {Block(o) : o \in Chosen(m)}
      BY <1>10, <2>2, <3>2
    <3>4. a.active_blocks = m.active_blocks
      BY <1>3, <2>4
    <3>5. QED
      BY <1>1, <3>3, <3>4
  <2>5. QED
    BY <2>3, <2>4
<1>12. QED
  BY <1>3, <1>5, <1>6, <1>7, <1>9, <1>11 DEF MaskInv, ActiveBlocksExact, Sorts, a, blocks

LEMMA MaskStep ==
  ASSUME MaskInv(mask), [MaskNext]_maskVars
  PROVE  MaskInv(mask')
<1>1. mask.len \in Nat /\ Typed(mask)
  BY DEF MaskInv, Typed
<1>2. ASSUME NEW len \in Lens, New(len)
      PROVE  MaskInv(mask')
  BY <1>2, NewSound, MaskConstantsOK DEF New, Replace
<1>3. ASSUME NEW len \in Lens, All(len)
      PROVE  MaskInv(mask')
  BY <1>3, AllSound, MaskConstantsOK DEF All, Replace
<1>4. ASSUME NEW len \in Lens, NEW slots \in SUBSET (0..(len - 1)), FromLongList(len, slots)
      PROVE  MaskInv(mask')
  BY <1>4, FromSlotsSound, MaskConstantsOK DEF FromLongList, Replace
<1>5. ASSUME NEW slot \in Slots(mask), Allow(slot)
      PROVE  MaskInv(mask')
  BY <1>5, AllowedSound DEF Allow, Replace
<1>6. ASSUME NEW slot \in Slots(mask), Disallow(slot)
      PROVE  MaskInv(mask')
  BY <1>6, DisallowedSound DEF Disallow, Replace
<1>7. ASSUME Clear
      PROVE  MaskInv(mask')
  BY <1>1, <1>7, NewSound DEF Clear, Replace
<1>8. ASSUME NEW others, \A o \in others : Typed(o),
             UnionWithMany(others) \/ IntersectWithMany(others)
      PROVE  MaskInv(mask')
  BY <1>1, <1>8, CombinedSound DEF UnionWithMany, IntersectWithMany, Replace
<1>9. ASSUME NEW o \in MasksOf(mask.len), NEW p \in MasksOf(mask.len),
             UnionWithMany({o, p}) \/ IntersectWithMany({o, p})
      PROVE  MaskInv(mask')
  <2>1. Typed(o) /\ Typed(p)
    BY <1>1, FromSlotsSound DEF MasksOf, MaskInv
  <2> DEFINE others == {o, p}
  <2>2. \A q \in others : Typed(q)
    BY <2>1
  <2>3. UnionWithMany(others) \/ IntersectWithMany(others)
    BY <1>9
  <2> HIDE DEF others
  <2>4. QED
    BY <1>8, <2>2, <2>3
<1>10. ASSUME UnionWithMany({}) \/ IntersectWithMany({})
       PROVE  MaskInv(mask')
  <2> DEFINE others == {}
  <2>1. \A q \in others : Typed(q)
    OBVIOUS
  <2>2. UnionWithMany(others) \/ IntersectWithMany(others)
    BY <1>10
  <2> HIDE DEF others
  <2>3. QED
    BY <1>8, <2>1, <2>2
<1>11. ASSUME mask' = mask
       PROVE  MaskInv(mask')
  BY <1>11
<1>12. QED
  BY <1>2, <1>3, <1>4, <1>5, <1>6, <1>7, <1>9, <1>10, <1>11
     DEF MaskNext, maskVars, BeginIter, LoadWord, TakeBit, EndIter

-----------------------------------------------------------------------------
\* The iterator.

\* The slots that a running iterator has passed.
Passed ==
  {s \in Chosen(mask) : /\ WordOf(s) < iter.word_idx
                        /\ ~(WordOf(s) = iter.word_idx - 1 /\ BitOf(s) \in iter.current_word)}

\* What is left of the word is its highest bits.
WordInv ==
  iter.word_idx > 0 =>
    /\ iter.base_slot = (iter.word_idx - 1) * WordBits
    /\ iter.current_word \subseteq mask.words[iter.word_idx - 1]
    /\ \A i \in iter.current_word :
         \A j \in mask.words[iter.word_idx - 1] \ iter.current_word : j < i

IterInv ==
  /\ iter.active \in BOOLEAN
  /\ iter.active =>
       /\ DOMAIN iter = {"active", "word_idx", "base_slot", "current_word", "remaining", "returned"}
       /\ iter.word_idx \in 0..n_words(mask.len)
       /\ iter.current_word \in SUBSET (0..(WordBits - 1))
       /\ iter.word_idx = 0 => iter.current_word = {}
       /\ WordInv
       /\ iter.returned \in Seq(Nat) /\ Sorts(iter.returned, Passed)
       /\ iter.remaining = mask.count - Len(iter.returned)

\* The place of an allowed slot.
LEMMA ChosenPlace ==
  ASSUME NEW m, m.len \in Nat, NEW s \in Chosen(m)
  PROVE  /\ s \in 0..(m.len - 1) /\ s \in Nat
         /\ WordOf(s) \in 0..(n_words(m.len) - 1) /\ WordOf(s) \in Nat
         /\ WordOf(s) < n_words(m.len)
         /\ BitOf(s) \in 0..(WordBits - 1) /\ BitOf(s) \in m.words[WordOf(s)]
         /\ s = WordOf(s) * WordBits + BitOf(s)
         /\ Block(s) \in 0..(n_blocks(m.len) - 1)
<1>1. s \in 0..(m.len - 1) /\ HasBit(m.words, s)
  BY DEF Chosen, Slots
<1>2. /\ WordOf(s) \in 0..(n_words(m.len) - 1) /\ BitOf(s) \in 0..(WordBits - 1)
      /\ s = WordOf(s) * WordBits + BitOf(s)
      /\ Block(s) \in 0..(n_blocks(m.len) - 1) /\ n_words(m.len) \in Nat
  BY <1>1, SlotPlace
<1>3. BitOf(s) \in m.words[WordOf(s)]
  BY <1>1 DEF HasBit
<1>4. QED
  BY <1>1, <1>2, <1>3

\* The next bit is a slot above those that were returned, and the only one that
\* is passed with it.
LEMMA NextSlot ==
  ASSUME MaskInv(mask), IterInv, iter.active, NEW bit \in iter.current_word,
         \A i \in iter.current_word : bit <= i
  PROVE  LET slot == iter.base_slot + bit
         IN  /\ slot \in Nat /\ slot \in Chosen(mask)
             /\ WordOf(slot) = iter.word_idx - 1 /\ BitOf(slot) = bit
             /\ \A s \in Passed : s < slot
<1> DEFINE slot == iter.base_slot + bit
           w == iter.word_idx - 1
<1>1. /\ mask.len \in Nat
      /\ mask.words \in [0..(n_words(mask.len) - 1) -> SUBSET (0..(WordBits - 1))]
      /\ \A v \in 0..(n_words(mask.len) - 1) : \A i \in mask.words[v] : v * WordBits + i < mask.len
  BY DEF MaskInv, Typed, TailClear
<1>2. n_words(mask.len) \in Nat /\ WordBits \in Nat \ {0}
  BY <1>1, LastWord, MaskConstantsOK
<1>3. /\ iter.word_idx \in 0..n_words(mask.len) /\ iter.word_idx # 0
      /\ bit \in 0..(WordBits - 1)
  BY DEF IterInv
<1>4. w \in 0..(n_words(mask.len) - 1) /\ w \in Nat
  BY <1>2, <1>3
<1>5. /\ slot = w * WordBits + bit
      /\ bit \in mask.words[w]
      /\ \A i \in iter.current_word : \A j \in mask.words[w] \ iter.current_word : j < i
  BY <1>2, <1>3 DEF IterInv, WordInv
<1> HIDE DEF slot, w
<1>6. slot \in Nat /\ WordOf(slot) = w /\ BitOf(slot) = bit
  BY <1>3, <1>4, <1>5, PlaceSlot
<1>7. slot < mask.len
  BY <1>1, <1>4, <1>5
<1>8. slot \in Chosen(mask)
  BY <1>1, <1>5, <1>6, <1>7 DEF Chosen, Slots, HasBit
<1>9. ASSUME NEW s \in Passed
      PROVE  s < slot
  <2>1. /\ s \in 0..(mask.len - 1) /\ HasBit(mask.words, s)
        /\ WordOf(s) < iter.word_idx
        /\ ~(WordOf(s) = w /\ BitOf(s) \in iter.current_word)
    BY DEF Passed, Chosen, Slots, w
  <2>2. /\ WordOf(s) \in 0..(n_words(mask.len) - 1) /\ BitOf(s) \in 0..(WordBits - 1)
        /\ s = WordOf(s) * WordBits + BitOf(s)
    BY <1>1, <2>1, SlotPlace
  <2>3. CASE WordOf(s) = w
    <3>1. BitOf(s) < bit
      BY <1>5, <2>1, <2>3 DEF HasBit
    <3>2. w * WordBits \in Nat
      BY <1>2, <1>4
    <3>3. QED
      BY <1>3, <1>5, <2>2, <2>3, <3>1, <3>2
  <2>4. CASE WordOf(s) # w
    <3>1. WordOf(s) < w /\ WordOf(s) \in Int /\ w \in Int
      BY <1>2, <1>3, <1>4, <2>1, <2>2, <2>4 DEF w
    <3>2. s < w * WordBits
      BY <1>2, <2>2, <3>1, Ordered
    <3>3. w * WordBits \in Nat
      BY <1>2, <1>4
    <3>4. QED
      BY <1>3, <1>5, <2>1, <3>2, <3>3
  <2>5. QED
    BY <2>3, <2>4
<1>10. QED
  BY <1>6, <1>8, <1>9 DEF slot, w

\* A sorted list grows at its end.
LEMMA AppendSorts ==
  ASSUME NEW list \in Seq(Nat), NEW S, Sorts(list, S), NEW x \in Nat, \A y \in S : y < x
  PROVE  /\ Append(list, x) \in Seq(Nat) /\ Len(Append(list, x)) = Len(list) + 1
         /\ Sorts(Append(list, x), S \cup {x})
<1> DEFINE new == Append(list, x)
<1>1. /\ new \in Seq(Nat) /\ Len(new) = Len(list) + 1 /\ Len(list) \in Nat
      /\ DOMAIN new = 1..(Len(list) + 1) /\ DOMAIN list = 1..Len(list)
      /\ \A i \in 1..Len(list) : new[i] = list[i]
      /\ new[Len(list) + 1] = x
  OBVIOUS
<1> HIDE DEF new
<1>2. /\ \A i \in 1..Len(list) : list[i] \in S
      /\ \A y \in S : \E i \in 1..Len(list) : list[i] = y
      /\ \A i, j \in 1..Len(list) : i < j => list[i] < list[j]
  BY <1>1 DEF Sorts
<1>3. \A i \in 1..(Len(list) + 1) : i \in 1..Len(list) \/ i = Len(list) + 1
  BY <1>1
<1>4. \A i \in 1..Len(list) : i \in 1..(Len(list) + 1)
  BY <1>1
<1>5. Len(list) + 1 \in 1..(Len(list) + 1)
  BY <1>1
<1>6. {new[i] : i \in DOMAIN new} = S \cup {x}
  <2>1. \A i \in DOMAIN new : new[i] \in S \cup {x}
    BY <1>1, <1>2, <1>3
  <2>2. \A y \in S \cup {x} : \E i \in DOMAIN new : new[i] = y
    BY <1>1, <1>2, <1>4, <1>5
  <2>3. QED
    BY <2>1, <2>2
<1>7. ASSUME NEW i \in DOMAIN new, NEW j \in DOMAIN new, i < j
      PROVE  new[i] < new[j]
  <2>1. i \in 1..Len(list)
    BY <1>1, <1>7
  <2>2. CASE j \in 1..Len(list)
    BY <1>1, <1>2, <1>7, <2>1, <2>2
  <2>3. CASE j = Len(list) + 1
    BY <1>1, <1>2, <2>1, <2>3
  <2>4. QED
    BY <1>1, <1>3, <2>2, <2>3
<1>8. QED
  BY <1>1, <1>6, <1>7 DEF Sorts, new

LEMMA LoadWordKeeps ==
  ASSUME MaskInv(mask), IterInv, LoadWord
  PROVE  IterInv'
<1> DEFINE w == iter.word_idx
<1>1. /\ mask.len \in Nat /\ mask' = mask
      /\ mask.words \in [0..(n_words(mask.len) - 1) -> SUBSET (0..(WordBits - 1))]
      /\ n_words(mask.len) \in Nat
  BY LastWord DEF MaskInv, Typed, LoadWord
<1>2. /\ DOMAIN iter = {"active", "word_idx", "base_slot", "current_word", "remaining", "returned"}
      /\ iter.active /\ iter.current_word = {} /\ w \in 0..(n_words(mask.len) - 1)
      /\ iter.returned \in Seq(Nat) /\ Sorts(iter.returned, Passed)
      /\ iter.remaining = mask.count - Len(iter.returned)
  BY <1>1 DEF IterInv, LoadWord
<1>3. /\ DOMAIN iter' = DOMAIN iter /\ iter'.active = iter.active /\ iter'.returned = iter.returned
      /\ iter'.remaining = iter.remaining /\ iter'.word_idx = w + 1
      /\ iter'.base_slot = w * WordBits /\ iter'.current_word = mask.words[w]
  BY <1>2 DEF LoadWord
<1> HIDE DEF w
<1>4. iter'.word_idx - 1 = w /\ iter'.word_idx \in 0..n_words(mask.len) /\ iter'.word_idx # 0
  BY <1>1, <1>2, <1>3
<1>5. iter'.current_word \in SUBSET (0..(WordBits - 1))
  BY <1>1, <1>2, <1>3
<1>6. WordInv'
  BY <1>1, <1>3, <1>4 DEF WordInv
<1>7. Passed' = Passed
  <2>1. ASSUME NEW s \in Chosen(mask)
        PROVE  s \in Passed <=> s \in Passed'
    <3>1. WordOf(s) \in Nat /\ BitOf(s) \in mask.words[WordOf(s)]
      BY <1>1, ChosenPlace
    <3>2. s \in Passed <=> WordOf(s) < w
      BY <1>2 DEF Passed, w
    <3>3. s \in Passed' <=> WordOf(s) < w + 1 /\ ~(WordOf(s) = w)
      BY <1>1, <1>3, <1>4, <3>1 DEF Passed
    <3>4. QED
      BY <1>1, <1>2, <3>1, <3>2, <3>3
  <2>2. Passed \subseteq Chosen(mask) /\ Passed' \subseteq Chosen(mask)
    BY <1>1 DEF Passed
  <2>3. QED
    BY <2>1, <2>2
<1>8. QED
  BY <1>1, <1>2, <1>3, <1>4, <1>5, <1>6, <1>7 DEF IterInv, Sorts

LEMMA TakeBitKeeps ==
  ASSUME MaskInv(mask), IterInv, TakeBit
  PROVE  IterInv'
<1> DEFINE bit == CHOOSE i \in iter.current_word : \A j \in iter.current_word : i <= j
           slot == iter.base_slot + bit
           w == iter.word_idx - 1
<1>1. /\ mask.len \in Nat /\ mask' = mask
      /\ mask.words \in [0..(n_words(mask.len) - 1) -> SUBSET (0..(WordBits - 1))]
      /\ n_words(mask.len) \in Nat /\ WordBits \in Nat \ {0}
      /\ mask.count = Cardinality(Chosen(mask))
  BY LastWord, MaskConstantsOK DEF MaskInv, Typed, TakeBit, CountExact
<1>2. /\ DOMAIN iter = {"active", "word_idx", "base_slot", "current_word", "remaining", "returned"}
      /\ iter.active /\ iter.current_word # {} /\ iter.word_idx \in 1..n_words(mask.len)
      /\ iter.current_word \in SUBSET (0..(WordBits - 1))
      /\ iter.returned \in Seq(Nat) /\ Sorts(iter.returned, Passed)
      /\ iter.remaining = mask.count - Len(iter.returned)
      /\ WordInv
  BY <1>1 DEF IterInv, TakeBit
<1>3. bit \in iter.current_word /\ \A i \in iter.current_word : bit <= i
  <2>1. 0 \in Int /\ WordBits - 1 \in Int
    BY <1>1
  <2>2. \E i \in iter.current_word : \A j \in iter.current_word : i <= j
    BY <1>2, <2>1, LeastPosition
  <2>3. QED
    BY <2>2, Zenon
<1>4. /\ slot \in Nat /\ slot \in Chosen(mask)
      /\ WordOf(slot) = w /\ BitOf(slot) = bit
      /\ \A s \in Passed : s < slot
  <2> HIDE DEF bit
  <2>1. QED
    BY <1>2, <1>3, NextSlot
<1>5. slot < mask.len
  BY <1>1, <1>4 DEF Chosen, Slots
<1>6. iter' = [[iter EXCEPT !.current_word = @ \ {bit}] EXCEPT
                 !.remaining = @ - 1, !.returned = Append(@, slot)]
  BY <1>5 DEF TakeBit
<1> HIDE DEF bit, slot, w
<1>7. /\ DOMAIN iter' = DOMAIN iter /\ iter'.active = iter.active /\ iter'.word_idx = iter.word_idx
      /\ iter'.base_slot = iter.base_slot /\ iter'.current_word = iter.current_word \ {bit}
      /\ iter'.remaining = iter.remaining - 1 /\ iter'.returned = Append(iter.returned, slot)
  BY <1>2, <1>6
<1>8. WordInv'
  <2>1. WordInv /\ iter.word_idx - 1 = w /\ iter.word_idx > 0
    BY <1>2 DEF w
  <2>2. /\ iter.base_slot = w * WordBits /\ iter.current_word \subseteq mask.words[w]
        /\ \A i \in iter.current_word : \A j \in mask.words[w] \ iter.current_word : j < i
    BY <2>1 DEF WordInv
  <2>3. \A i \in iter.current_word : i \in Int
    BY <1>2
  <2>4. ASSUME NEW i \in iter.current_word \ {bit}, NEW j \in mask.words[w] \ (iter.current_word \ {bit})
        PROVE  j < i
    <3>1. CASE j = bit
      <4>1. bit <= i /\ bit # i /\ bit \in Int /\ i \in Int
        BY <1>3, <2>3, <2>4
      <4>2. QED
        BY <3>1, <4>1
    <3>2. CASE j # bit
      BY <2>2, <2>4, <3>2
    <3>3. QED
      BY <3>1, <3>2
  <2>5. QED
    BY <1>1, <1>7, <2>1, <2>2, <2>4 DEF WordInv
<1>9. Passed' = Passed \cup {slot}
  <2>1. ASSUME NEW s \in Chosen(mask)
        PROVE  s \in Passed' <=> s \in Passed \/ s = slot
    <3>1. /\ WordOf(s) \in Nat /\ s = WordOf(s) * WordBits + BitOf(s)
          /\ slot = WordOf(slot) * WordBits + BitOf(slot)
      BY <1>1, <1>4, SlotPlace DEF Chosen, Slots
    <3>2. WordOf(s) = w /\ BitOf(s) = bit <=> s = slot
      BY <1>4, <3>1
    <3>3. s \in Passed <=> /\ WordOf(s) < iter.word_idx
                           /\ ~(WordOf(s) = w /\ BitOf(s) \in iter.current_word)
      BY DEF Passed, w
    <3>4. s \in Passed' <=> /\ WordOf(s) < iter.word_idx
                            /\ ~(WordOf(s) = w /\ BitOf(s) \in iter.current_word \ {bit})
      BY <1>1, <1>7 DEF Passed, w
    <3>5. w < iter.word_idx
      BY <1>1, <1>2 DEF w
    <3>6. QED
      BY <1>3, <1>4, <3>2, <3>3, <3>4, <3>5
  <2>2. Passed \subseteq Chosen(mask) /\ Passed' \subseteq Chosen(mask)
    BY <1>1 DEF Passed
  <2>3. QED
    BY <1>4, <2>1, <2>2
<1>10. /\ iter'.returned \in Seq(Nat) /\ Len(iter'.returned) = Len(iter.returned) + 1
       /\ Sorts(iter'.returned, Passed')
  BY <1>2, <1>4, <1>7, <1>9, AppendSorts
<1>11. iter'.remaining = mask.count - Len(iter'.returned)
  <2>1. mask.count \in Nat /\ Len(iter.returned) \in Nat
    BY <1>1, <1>2, ChosenFinite
  <2>2. QED
    BY <1>2, <1>7, <1>10, <2>1
<1>12. /\ iter'.active \in BOOLEAN
       /\ iter'.word_idx \in 0..n_words(mask'.len) /\ iter'.word_idx # 0
       /\ iter'.current_word \in SUBSET (0..(WordBits - 1))
  BY <1>1, <1>2, <1>7
<1>13. QED
  BY <1>1, <1>2, <1>7, <1>8, <1>10, <1>11, <1>12 DEF IterInv

LEMMA IterStep ==
  ASSUME MaskInv(mask), IterInv, [MaskNext]_maskVars
  PROVE  IterInv'
<1>1. ASSUME BeginIter
      PROVE  IterInv'
  <2>1. /\ mask' = mask
        /\ iter' = [active |-> TRUE, word_idx |-> 0, base_slot |-> 0, current_word |-> {},
                    remaining |-> mask.count, returned |-> << >>]
    BY <1>1 DEF BeginIter
  <2>2. mask.len \in Nat /\ n_words(mask.len) \in Nat /\ mask.count \in Nat
    <3>1. mask.len \in Nat /\ mask.count = Cardinality(Chosen(mask))
      BY DEF MaskInv, Typed, CountExact
    <3>2. QED
      BY <3>1, LastWord, ChosenFinite
  <2>3. Passed' = {}
    <3>1. ASSUME NEW s \in Chosen(mask)
          PROVE  ~(WordOf(s) < 0)
      BY <2>2, SlotPlace DEF Chosen, Slots
    <3>2. QED
      BY <2>1, <3>1 DEF Passed
  <2>4. Sorts(<< >>, {})
    BY DEF Sorts
  <2>5. << >> \in Seq(Nat) /\ Len(<< >>) = 0
    OBVIOUS
  <2>6. WordInv'
    BY <2>1 DEF WordInv
  <2>7. QED
    BY <2>1, <2>2, <2>3, <2>4, <2>5, <2>6 DEF IterInv
<1>2. ASSUME EndIter
      PROVE  IterInv'
  BY <1>2 DEF EndIter, NoIter, IterInv
<1>3. ASSUME UNCHANGED maskVars
      PROVE  IterInv'
  BY <1>3 DEF maskVars, IterInv, WordInv, Passed
<1>4. ASSUME NEW m, Replace(m)
      PROVE  IterInv'
  BY <1>4 DEF Replace, Unborrowed, IterInv
<1>5. QED
  BY <1>1, <1>2, <1>3, <1>4, LoadWordKeeps, TakeBitKeeps
     DEF MaskNext, New, All, FromLongList, Allow, Disallow, Clear, UnionWithMany, IntersectWithMany

\* A list sorts as many as it has places.
LEMMA SortsCount ==
  ASSUME NEW list \in Seq(Nat), NEW S, Sorts(list, S)
  PROVE  IsFiniteSet(S) /\ Cardinality(S) = Len(list)
<1> DEFINE places == 1..Len(list)
<1>1. Len(list) \in Nat /\ DOMAIN list = places /\ \A i \in places : i \in Int /\ list[i] \in Nat
  OBVIOUS
<1>2. IsFiniteSet(places) /\ Cardinality(places) = Len(list)
  <2>1. 1 \in Int /\ Len(list) \in Int /\ (1 > Len(list) => Len(list) = 0) /\ Len(list) - 1 + 1 = Len(list)
    BY <1>1
  <2>2. QED
    BY <2>1, FS_Interval
<1> DEFINE f == [i \in places |-> list[i]]
<1>3. f \in Surjection(places, S)
  BY <1>1 DEF Sorts, Surjection
<1>4. ASSUME NEW i \in places, NEW j \in places, f[i] = f[j]
      PROVE  i = j
  <2>1. list[i] = list[j] /\ i \in Int /\ j \in Int /\ list[i] \in Nat /\ list[j] \in Nat
    BY <1>1, <1>4
  <2>2. ~(i < j) /\ ~(j < i)
    BY <1>1, <2>1 DEF Sorts
  <2>3. QED
    BY <2>1, <2>2
<1> HIDE DEF f, places
<1>5. f \in Injection(places, S)
  BY <1>3, <1>4 DEF Surjection, Injection, IsInjective
<1>6. QED
  BY <1>2, <1>3, <1>5, FS_Surjection

LEMMA IterationFollows ==
  ASSUME MaskInv(mask), IterInv
  PROVE  IterationExact
<1> SUFFICES ASSUME iter.active PROVE IterationExact
  BY DEF IterationExact
<1>1. /\ mask.len \in Nat /\ mask.count = Cardinality(Chosen(mask))
      /\ mask.words \in [0..(n_words(mask.len) - 1) -> SUBSET (0..(WordBits - 1))]
      /\ n_words(mask.len) \in Nat
  BY LastWord DEF MaskInv, Typed, CountExact
<1>2. /\ iter.word_idx \in 0..n_words(mask.len) /\ iter.returned \in Seq(Nat)
      /\ Sorts(iter.returned, Passed) /\ WordInv
      /\ iter.remaining = mask.count - Len(iter.returned)
      /\ iter.current_word \in SUBSET (0..(WordBits - 1))
  BY DEF IterInv
<1>3. DOMAIN iter.returned = 1..Len(iter.returned) /\ Len(iter.returned) \in Nat
  BY <1>2
<1>4. ASSUME iter.current_word = {}, iter.word_idx = n_words(mask.len)
      PROVE  iter.remaining = 0
  <2>1. Passed = Chosen(mask)
    <3>1. \A s \in Chosen(mask) : WordOf(s) < n_words(mask.len)
      BY <1>1, ChosenPlace
    <3>2. QED
      BY <1>4, <3>1 DEF Passed
  <2>2. Cardinality(Passed) = Len(iter.returned)
    BY <1>2, SortsCount
  <2>3. QED
    BY <1>1, <1>2, <1>3, <2>1, <2>2
<1>5. ASSUME NEW i \in DOMAIN iter.returned
      PROVE  /\ iter.returned[i] \in Chosen(mask)
             /\ {s \in Chosen(mask) : s < iter.returned[i]} = {iter.returned[j] : j \in 1..(i - 1)}
  <2> DEFINE r == iter.returned[i]
  <2>1. r \in Passed /\ r \in Chosen(mask)
    BY <1>2 DEF Sorts, Passed
  <2> HIDE DEF r
  <2>2. ASSUME NEW s \in Chosen(mask), s < r
        PROVE  \E j \in 1..(i - 1) : s = iter.returned[j]
    <3>1. /\ s \in Nat /\ r \in Nat
          /\ WordOf(s) \in Nat /\ WordOf(r) \in Nat
          /\ BitOf(s) \in 0..(WordBits - 1) /\ BitOf(r) \in mask.words[WordOf(r)]
          /\ BitOf(r) \in 0..(WordBits - 1)
      BY <1>1, <2>1, ChosenPlace
    <3>2. WordOf(s) <= WordOf(r) /\ (WordOf(s) = WordOf(r) => BitOf(s) <= BitOf(r))
      BY <2>2, <3>1, PlaceMonotone
    <3>3. /\ WordOf(r) < iter.word_idx
          /\ ~(WordOf(r) = iter.word_idx - 1 /\ BitOf(r) \in iter.current_word)
      BY <2>1 DEF Passed
    <3>4. ASSUME WordOf(s) = iter.word_idx - 1, BitOf(s) \in iter.current_word
          PROVE  FALSE
      <4>1. WordOf(r) = WordOf(s) /\ iter.word_idx > 0
        BY <1>1, <1>2, <3>1, <3>2, <3>3, <3>4
      <4>2. BitOf(r) \in mask.words[iter.word_idx - 1] \ iter.current_word
        BY <3>1, <3>3, <3>4, <4>1
      <4>3. BitOf(r) < BitOf(s)
        BY <1>2, <3>4, <4>1, <4>2 DEF WordInv
      <4>4. QED
        BY <3>1, <3>2, <4>1, <4>3
    <3>5. WordOf(s) < iter.word_idx
      BY <1>1, <1>2, <3>1, <3>2, <3>3
    <3>6. s \in Passed
      BY <3>4, <3>5 DEF Passed
    <3>7. PICK j \in DOMAIN iter.returned : s = iter.returned[j]
      BY <1>2, <3>6 DEF Sorts
    <3>8. ~(i < j) /\ i # j
      <4>1. i # j
        BY <2>2, <3>1, <3>7 DEF r
      <4>2. i < j => r < s
        BY <1>2, <3>7 DEF Sorts, r
      <4>3. QED
        BY <2>2, <3>1, <4>1, <4>2
    <3>9. j \in 1..(i - 1)
      BY <1>3, <3>8
    <3>10. QED
      BY <3>7, <3>9
  <2>3. ASSUME NEW j \in 1..(i - 1)
        PROVE  iter.returned[j] \in Chosen(mask) /\ iter.returned[j] < r
    <3>1. j \in DOMAIN iter.returned /\ j < i
      BY <1>3
    <3>2. iter.returned[j] \in Passed /\ iter.returned[j] < r
      BY <1>2, <3>1 DEF Sorts, r
    <3>3. QED
      BY <3>2 DEF Passed
  <2>4. {s \in Chosen(mask) : s < r} = {iter.returned[j] : j \in 1..(i - 1)}
    BY <2>2, <2>3
  <2>5. QED
    BY <2>1, <2>4 DEF r
<1>6. QED
  BY <1>2, <1>4, <1>5 DEF IterationExact

-----------------------------------------------------------------------------
\* The blocks and lanes of a search.

LEMMA AllIsAll ==
  ASSUME MaskInv(mask), is_all(mask)
  PROVE  Chosen(mask) = Slots(mask)
<1>1. mask.len \in Nat /\ Cardinality(Chosen(mask)) = mask.len
  BY DEF MaskInv, Typed, CountExact, is_all
<1>2. IsFiniteSet(0..(mask.len - 1)) /\ Cardinality(0..(mask.len - 1)) = mask.len
  <2>1. 0 \in Int /\ mask.len - 1 \in Int /\ (0 > mask.len - 1 => mask.len = 0)
        /\ mask.len - 1 - 0 + 1 = mask.len
    BY <1>1
  <2>2. QED
    BY <2>1, FS_Interval
<1>3. Chosen(mask) \in SUBSET (0..(mask.len - 1))
  BY DEF Chosen, Slots
<1>4. QED
  BY <1>1, <1>2, <1>3, FS_Subset DEF Slots

LEMMA BlockListSorts ==
  ASSUME MaskInv(mask)
  PROVE  /\ BlockList(mask) \in Seq(0..(n_blocks(mask.len) - 1))
         /\ Sorts(BlockList(mask), {Block(s) : s \in Chosen(mask)})
<1>1. mask.len \in Nat
  BY DEF MaskInv, Typed
<1>2. CASE is_all(mask)
  BY <1>1, <1>2, AllIsAll, AllBlocks DEF BlockList, Slots
<1>3. CASE ~is_all(mask)
  BY <1>3 DEF BlockList, MaskInv, ActiveBlocksExact, Sorts
<1>4. QED
  BY <1>2, <1>3

\* The allowed slots in the first blocks of the list and in the first lanes of
\* the next.
Seen(m, pos, lane) ==
  {s \in Chosen(m) : \E p \in DOMAIN BlockList(m) :
     /\ BlockList(m)[p] = Block(s)
     /\ \/ p < pos
        \/ p = pos /\ s < BlockStart(Block(s)) + lane}

Lanes(m, b) == 0..(BlockEnd(b, m.len) - BlockStart(b) - 1)

\* The place a search has come to.
AtLane(m, pos, lane) ==
  /\ pos \in 1..(Len(BlockList(m)) + 1) /\ lane \in 0..(BLOCK - 1)
  /\ pos <= Len(BlockList(m)) => lane \in Lanes(m, BlockList(m)[pos])
  /\ pos > Len(BlockList(m)) => lane = 0

LEMMA Element ==
  ASSUME NEW S, NEW s \in Seq(S), NEW i \in DOMAIN s
  PROVE  s[i] \in S
  OBVIOUS

LEMMA LanesAre ==
  ASSUME NEW b \in 0..(n_blocks(mask.len) - 1), mask.len \in Nat
  PROVE  /\ IsFiniteSet(Lanes(mask, b)) /\ Cardinality(Lanes(mask, b)) <= BLOCK
         /\ Cardinality(Lanes(mask, b)) \in Nat
         /\ Lanes(mask, b) \subseteq 0..(BLOCK - 1) /\ 0 \in Lanes(mask, b)
         /\ \A lane \in Int : lane \in Lanes(mask, b) <=> (0 <= lane /\ BlockStart(b) + lane < BlockEnd(b, mask.len))
<1> DEFINE top == BlockEnd(b, mask.len) - BlockStart(b) - 1
<1>1. /\ BlockStart(b) \in Nat /\ BlockEnd(b, mask.len) \in Nat /\ BLOCK \in Nat
      /\ BlockStart(b) < BlockEnd(b, mask.len) /\ BlockEnd(b, mask.len) <= BlockStart(b) + BLOCK
  BY BlockSlots, MaskConstantsOK
<1>2. Lanes(mask, b) = 0..top /\ top \in 0..(BLOCK - 1)
  BY <1>1 DEF Lanes
<1>3. IsFiniteSet(Lanes(mask, b)) /\ Cardinality(Lanes(mask, b)) = top + 1
  <2>1. 0 \in Int /\ top \in Int /\ ~(0 > top) /\ top - 0 + 1 = top + 1
    BY <1>2
  <2> HIDE DEF top
  <2>2. QED
    BY <1>2, <2>1, FS_Interval
<1>4. QED
  BY <1>1, <1>2, <1>3

\* The slot of a lane.
LEMMA LaneSlot ==
  ASSUME MaskInv(mask), NEW pos, NEW lane, AtLane(mask, pos, lane), pos <= Len(BlockList(mask))
  PROVE  LET b == BlockList(mask)[pos]
             slot == BlockStart(b) + lane
         IN  /\ b \in 0..(n_blocks(mask.len) - 1)
             /\ slot \in Slots(mask) /\ slot \in Nat /\ Block(slot) = b
             /\ slot \notin Seen(mask, pos, lane)
<1> DEFINE list == BlockList(mask)
           b == list[pos]
           slot == BlockStart(b) + lane
<1>1. /\ mask.len \in Nat /\ list \in Seq(0..(n_blocks(mask.len) - 1))
      /\ \A i, j \in DOMAIN list : i < j => list[i] < list[j]
  BY BlockListSorts DEF MaskInv, Typed, Sorts
<1>2. pos \in DOMAIN list /\ pos \in Int /\ lane \in Int /\ lane \in Lanes(mask, b)
  BY <1>1 DEF AtLane
<1>3. b \in 0..(n_blocks(mask.len) - 1)
  <2> HIDE DEF list
  <2>1. QED
    BY <1>1, <1>2, Element
<1> HIDE DEF list, b
<1>4. 0 <= lane /\ BlockStart(b) + lane < BlockEnd(b, mask.len)
  BY <1>1, <1>2, <1>3, LanesAre
<1>5. /\ BlockStart(b) \in Nat /\ BlockEnd(b, mask.len) \in Nat
      /\ \A s \in Nat : s \in BlockStart(b)..(BlockEnd(b, mask.len) - 1)
                          <=> (s \in 0..(mask.len - 1) /\ Block(s) = b)
  BY <1>1, <1>3, BlockSlots
<1>6. slot \in Nat /\ slot \in BlockStart(b)..(BlockEnd(b, mask.len) - 1)
  BY <1>2, <1>4, <1>5
<1>7. slot \in Slots(mask) /\ Block(slot) = b
  BY <1>5, <1>6 DEF Slots
<1>8. slot \notin Seen(mask, pos, lane)
  <2>1. ASSUME NEW p \in DOMAIN list, list[p] = b, p < pos
        PROVE  FALSE
    <3>1. list[p] < list[pos] /\ list[pos] = b /\ b \in Int
      BY <1>1, <1>2, <1>3, <2>1 DEF b
    <3>2. QED
      BY <2>1, <3>1
  <2>2. ~(slot < BlockStart(b) + lane)
    BY <1>6
  <2>3. QED
    BY <1>7, <2>1, <2>2 DEF Seen, list
<1>9. QED
  BY <1>3, <1>6, <1>7, <1>8 DEF list, b

\* A step to the next lane, or to the next block, adds the slot of the lane.
LEMMA SeenGrows ==
  ASSUME MaskInv(mask), NEW pos, NEW lane, AtLane(mask, pos, lane), pos <= Len(BlockList(mask))
  PROVE  LET b == BlockList(mask)[pos]
             slot == BlockStart(b) + lane
             more == lane + 1 \in Lanes(mask, b)
             pos2 == IF more THEN pos ELSE pos + 1
             lane2 == IF more THEN lane + 1 ELSE 0
         IN  /\ AtLane(mask, pos2, lane2)
             /\ Seen(mask, pos2, lane2) = Seen(mask, pos, lane) \cup ({slot} \cap Chosen(mask))
<1> DEFINE list == BlockList(mask)
           b == list[pos]
           slot == BlockStart(b) + lane
           more == lane + 1 \in Lanes(mask, b)
           pos2 == IF more THEN pos ELSE pos + 1
           lane2 == IF more THEN lane + 1 ELSE 0
<1>1. /\ mask.len \in Nat /\ list \in Seq(0..(n_blocks(mask.len) - 1))
      /\ \A i, j \in DOMAIN list : i < j => list[i] < list[j]
      /\ \A s \in Chosen(mask) : \E p \in DOMAIN list : list[p] = Block(s)
      /\ BLOCK \in Nat \ {0}
  <2>1. mask.len \in Nat /\ list \in Seq(0..(n_blocks(mask.len) - 1))
        /\ Sorts(list, {Block(s) : s \in Chosen(mask)}) /\ BLOCK \in Nat \ {0}
    BY BlockListSorts, MaskConstantsOK DEF MaskInv, Typed
  <2> HIDE DEF list
  <2>2. QED
    BY <2>1 DEF Sorts
<1>2. /\ pos \in 1..Len(list) /\ pos \in DOMAIN list /\ pos \in Int
      /\ lane \in 0..(BLOCK - 1) /\ lane \in Lanes(mask, b)
      /\ Len(list) \in Nat /\ DOMAIN list = 1..Len(list)
  BY <1>1 DEF AtLane
<1>3. b \in 0..(n_blocks(mask.len) - 1) /\ \A p \in DOMAIN list : list[p] \in 0..(n_blocks(mask.len) - 1)
  <2> HIDE DEF list
  <2>1. QED
    BY <1>1, <1>2, Element
<1>4. /\ slot \in Nat /\ Block(slot) = b
  BY LaneSlot
<1> HIDE DEF list, b
<1>5. /\ Lanes(mask, b) \subseteq 0..(BLOCK - 1)
      /\ \A l \in Int : l \in Lanes(mask, b) <=> (0 <= l /\ BlockStart(b) + l < BlockEnd(b, mask.len))
  BY <1>1, <1>3, LanesAre
<1>6. ASSUME NEW p \in DOMAIN list
      PROVE  0 \in Lanes(mask, list[p])
  BY <1>1, <1>3, LanesAre
<1>7. AtLane(mask, pos2, lane2)
  <2>1. CASE more
    BY <1>2, <1>5, <2>1 DEF AtLane, list, b
  <2>2. CASE ~more
    <3>1. pos + 1 \in 1..(Len(list) + 1) /\ 0 \in 0..(BLOCK - 1)
      BY <1>1, <1>2
    <3>2. pos + 1 <= Len(list) => pos + 1 \in DOMAIN list
      BY <1>2
    <3>3. QED
      BY <1>6, <2>2, <3>1, <3>2 DEF AtLane, list
  <2>3. QED
    BY <2>1, <2>2
<1> DEFINE start == BlockStart(b)
           end == BlockEnd(b, mask.len)
<1>8. /\ more => (pos2 = pos /\ lane2 = lane + 1)
      /\ ~more => (/\ pos2 = pos + 1 /\ lane2 = 0
                   /\ ~(0 <= lane + 1 /\ start + (lane + 1) < end))
  BY <1>2, <1>5
<1> HIDE DEF pos2, lane2
<1>9. ASSUME NEW s \in Chosen(mask)
      PROVE  s \in Seen(mask, pos2, lane2) <=> (s \in Seen(mask, pos, lane) \/ s = slot)
  <2>1. /\ s \in 0..(mask.len - 1) /\ s \in Nat /\ Block(s) \in 0..(n_blocks(mask.len) - 1)
    BY <1>1, ChosenPlace
  <2>2. PICK p \in DOMAIN list : list[p] = Block(s)
    BY <1>1
  <2>3. ASSUME NEW q \in DOMAIN list, list[q] = Block(s)
        PROVE  q = p
    <3>1. ~(q < p) /\ ~(p < q)
      BY <1>1, <2>1, <2>2, <2>3
    <3>2. QED
      BY <1>2, <3>1
  <2>4. ASSUME NEW o, NEW l
        PROVE  s \in Seen(mask, o, l) <=> (p < o \/ (p = o /\ s < BlockStart(Block(s)) + l))
    BY <2>2, <2>3, Zenon DEF Seen, list
  <2>5. /\ BlockStart(Block(s)) \in Nat /\ BlockEnd(Block(s), mask.len) \in Nat
        /\ BlockStart(Block(s)) <= s /\ s < BlockEnd(Block(s), mask.len)
    <3>1. /\ BlockStart(Block(s)) \in Nat /\ BlockEnd(Block(s), mask.len) \in Nat
          /\ s \in BlockStart(Block(s))..(BlockEnd(Block(s), mask.len) - 1)
      BY <1>1, <2>1, BlockSlots
    <3>2. QED
      BY <2>1, <3>1
  <2>6. Block(s) = b <=> p = pos
    BY <1>2, <2>2, <2>3 DEF b
  <2>7. s = slot => p = pos
    BY <1>4, <2>6
  <2>8. /\ p \in Int /\ pos2 \in Int /\ lane2 \in Int /\ lane \in Int
        /\ s \in Seen(mask, pos, lane) <=> (p < pos \/ (p = pos /\ s < BlockStart(Block(s)) + lane))
        /\ s \in Seen(mask, pos2, lane2) <=> (p < pos2 \/ (p = pos2 /\ s < BlockStart(Block(s)) + lane2))
    <3>1. p \in Int /\ pos2 \in Int /\ lane2 \in Int /\ lane \in Int
      <4>1. p \in Int /\ pos \in Int /\ lane \in Int
        BY <1>2
      <4>2. QED
        BY <1>8, <4>1
    <3>2. QED
      BY <2>4, <3>1
  <2>9. CASE p # pos
    <3>1. pos2 = pos + 1 /\ p = pos2 => ~(s < BlockStart(Block(s)) + lane2)
      BY <1>2, <1>8, <2>1, <2>5, <2>8
    <3>2. s \in Seen(mask, pos2, lane2) <=> p < pos
      BY <1>2, <1>8, <2>8, <2>9, <3>1
    <3>3. s \in Seen(mask, pos, lane) <=> p < pos
      BY <2>8, <2>9
    <3>4. QED
      BY <2>7, <2>9, <3>2, <3>3
  <2>10. CASE p = pos
    <3>1. /\ Block(s) = b /\ start \in Nat /\ end \in Nat /\ start <= s /\ s < end
          /\ BlockStart(Block(s)) = start
      BY <2>5, <2>6, <2>10
    <3>2. s = slot <=> s = start + lane
      OBVIOUS
    <3> HIDE DEF start, end, slot
    <3>3. s \in Seen(mask, pos, lane) <=> s < start + lane
      BY <1>2, <2>8, <2>10, <3>1
    <3>4. CASE more
      <4>1. s \in Seen(mask, pos2, lane2) <=> s < start + (lane + 1)
        BY <1>2, <1>8, <2>8, <2>10, <3>1, <3>4
      <4>2. QED
        BY <2>1, <2>8, <3>1, <3>2, <3>3, <4>1
    <3>5. CASE ~more
      <4>1. s \in Seen(mask, pos2, lane2)
        BY <1>2, <1>8, <2>8, <2>10, <3>5
      <4>2. lane \in Nat /\ ~(start + (lane + 1) < end)
        BY <1>2, <1>8, <3>5
      <4>3. QED
        BY <2>1, <3>1, <3>2, <3>3, <4>1, <4>2
    <3>6. QED
      BY <3>4, <3>5
  <2>11. QED
    BY <2>9, <2>10
<1>10. Seen(mask, pos2, lane2) = Seen(mask, pos, lane) \cup ({slot} \cap Chosen(mask))
  <2>1. Seen(mask, pos2, lane2) \subseteq Chosen(mask) /\ Seen(mask, pos, lane) \subseteq Chosen(mask)
    BY DEF Seen
  <2> HIDE DEF slot, pos2, lane2
  <2>2. QED
    BY <1>9, <2>1
<1>11. QED
  BY <1>7, <1>10 DEF list, b, pos2, lane2

\* At the end everything has been seen, at the start nothing.
LEMMA SeenAll ==
  ASSUME MaskInv(mask)
  PROVE  /\ Seen(mask, Len(BlockList(mask)) + 1, 0) = Chosen(mask)
         /\ Seen(mask, 1, 0) = {} /\ AtLane(mask, 1, 0)
<1> DEFINE list == BlockList(mask)
<1>1. /\ mask.len \in Nat /\ list \in Seq(0..(n_blocks(mask.len) - 1)) /\ BLOCK \in Nat \ {0}
      /\ Sorts(list, {Block(s) : s \in Chosen(mask)})
  BY BlockListSorts, MaskConstantsOK DEF MaskInv, Typed
<1>2. DOMAIN list = 1..Len(list) /\ Len(list) \in Nat
      /\ \A p \in DOMAIN list : list[p] \in 0..(n_blocks(mask.len) - 1)
  <2> HIDE DEF list
  <2>1. list \in Seq(0..(n_blocks(mask.len) - 1))
    BY <1>1
  <2>2. \A p \in DOMAIN list : list[p] \in 0..(n_blocks(mask.len) - 1)
    BY <2>1, Element
  <2>3. DOMAIN list = 1..Len(list) /\ Len(list) \in Nat
    BY <2>1
  <2>4. QED
    BY <2>2, <2>3
<1> HIDE DEF list
<1>3. ASSUME NEW s \in Chosen(mask)
      PROVE  /\ \E p \in DOMAIN list : list[p] = Block(s)
             /\ ~(s < BlockStart(Block(s)) + 0)
  <2>1. s \in 0..(mask.len - 1) /\ s \in Nat /\ Block(s) \in 0..(n_blocks(mask.len) - 1)
    BY <1>1, ChosenPlace
  <2>2. /\ BlockStart(Block(s)) \in Nat /\ BlockEnd(Block(s), mask.len) \in Nat
        /\ s \in BlockStart(Block(s))..(BlockEnd(Block(s), mask.len) - 1)
    BY <1>1, <2>1, BlockSlots
  <2>3. ~(s < BlockStart(Block(s)) + 0)
    BY <2>1, <2>2
  <2>4. QED
    BY <1>1, <2>3 DEF Sorts
<1>4. Seen(mask, Len(list) + 1, 0) = Chosen(mask)
  <2> DEFINE end == Len(list) + 1
  <2>1. \A p \in DOMAIN list : p < end
    BY <1>2
  <2> HIDE DEF end
  <2>2. ASSUME NEW s \in Chosen(mask)
        PROVE  s \in Seen(mask, end, 0)
    <3>1. PICK p \in DOMAIN list : list[p] = Block(s)
      BY <1>3
    <3>2. p < end
      BY <2>1
    <3>3. QED
      BY <3>1, <3>2, Zenon DEF Seen, list
  <2>3. Seen(mask, end, 0) \subseteq Chosen(mask)
    BY DEF Seen
  <2>4. QED
    BY <2>2, <2>3 DEF end
<1>5. Seen(mask, 1, 0) = {}
  <2>1. \A p \in DOMAIN list : ~(p < 1)
    BY <1>2
  <2>2. QED
    BY <1>3, <2>1 DEF Seen, list
<1>6. AtLane(mask, 1, 0)
  <2>1. 1 \in 1..(Len(list) + 1) /\ 0 \in 0..(BLOCK - 1)
    BY <1>1, <1>2
  <2>2. ASSUME 1 <= Len(list)
        PROVE  0 \in Lanes(mask, list[1])
    <3>1. list[1] \in 0..(n_blocks(mask.len) - 1)
      BY <1>2, <2>2
    <3>2. QED
      BY <1>1, <3>1, LanesAre
  <2>3. QED
    BY <2>1, <2>2 DEF AtLane, list
<1>7. QED
  BY <1>4, <1>5, <1>6 DEF list

-----------------------------------------------------------------------------
\* The heap of a search.

Hit == [score : Nat, slot : Nat]

LEMMA HitsOf ==
  ASSUME NEW heap \in Seq(Hit)
  PROVE  /\ DOMAIN heap = 1..Len(heap) /\ Len(heap) \in Nat
         /\ \A i \in DOMAIN heap : heap[i] \in Hit /\ heap[i].score \in Nat /\ heap[i].slot \in Nat
<1>1. DOMAIN heap = 1..Len(heap) /\ Len(heap) \in Nat
  OBVIOUS
<1>2. ASSUME NEW i \in DOMAIN heap
      PROVE  heap[i] \in Hit
  BY Element
<1>3. QED
  BY <1>1, <1>2 DEF Hit

LEMMA MinPlaceIs ==
  ASSUME NEW heap \in Seq(Hit), Len(heap) > 0
  PROVE  /\ MinPlace(heap) \in DOMAIN heap
         /\ \A j \in DOMAIN heap : heap[MinPlace(heap)].score <= heap[j].score
<1>1. /\ DOMAIN heap = 1..Len(heap) /\ Len(heap) \in Nat
      /\ \A i \in DOMAIN heap : heap[i].score \in Nat
  BY HitsOf
<1>2. 1 \in DOMAIN heap /\ heap[1].score \in Nat
  BY <1>1
<1> DEFINE low == {x \in 0..heap[1].score : \E i \in DOMAIN heap : heap[i].score = x}
<1>3. low \in SUBSET (0..heap[1].score) /\ low # {}
  <2>1. heap[1].score \in low
    BY <1>2
  <2>2. QED
    BY <2>1
<1>4. PICK x \in low : \A l \in low : x <= l
  <2> HIDE DEF low
  <2>1. 0 \in Int /\ heap[1].score \in Int
    BY <1>2
  <2>2. QED
    BY <1>3, <2>1, LeastPosition
<1>5. ASSUME NEW j \in DOMAIN heap
      PROVE  x <= heap[j].score
  <2>1. heap[j].score \in Nat /\ x \in Nat /\ x <= heap[1].score
    BY <1>1, <1>2
  <2>2. CASE heap[j].score <= heap[1].score
    <3>1. heap[j].score \in low
      BY <1>2, <2>1, <2>2
    <3>2. QED
      BY <1>4, <3>1
  <2>3. QED
    BY <1>2, <2>1, <2>2
<1> DEFINE places == {i \in 1..Len(heap) : heap[i].score = x}
<1>6. places \in SUBSET (1..Len(heap)) /\ places # {}
  BY <1>1
<1>7. PICK i \in places : \A l \in places : i <= l
  <2> HIDE DEF places
  <2>1. 1 \in Int /\ Len(heap) \in Int
    BY <1>1
  <2>2. QED
    BY <1>6, <2>1, LeastPosition
<1>8. ASSUME NEW j \in DOMAIN heap
      PROVE  /\ heap[i].score <= heap[j].score
             /\ j < i => heap[i].score < heap[j].score
  <2>1. heap[i].score = x /\ x <= heap[j].score /\ heap[j].score \in Nat /\ x \in Nat
    BY <1>1, <1>2, <1>5
  <2>2. j < i => heap[j].score # x
    BY <1>1, <1>7
  <2>3. QED
    BY <2>1, <2>2
<1>9. \E p \in DOMAIN heap : \A j \in DOMAIN heap : /\ heap[p].score <= heap[j].score
                                                    /\ j < p => heap[p].score < heap[j].score
  BY <1>1, <1>8
<1>10. QED
  BY <1>9, Zenon DEF MinPlace

\* The heap holds the best k of the allowed slots seen.
Best(heap, k, score, seen) ==
  /\ heap \in Seq(Hit) /\ Len(heap) <= k
  /\ \A i \in DOMAIN heap : heap[i].slot \in seen /\ heap[i].score = score[heap[i].slot]
  /\ \A i, j \in DOMAIN heap : heap[i].slot = heap[j].slot => i = j
  /\ \A s \in seen : \/ \E i \in DOMAIN heap : heap[i].slot = s
                     \/ Len(heap) = k /\ \A i \in DOMAIN heap : score[s] <= heap[i].score

\* A threshold is never above the minimum of a full heap.
Below(t, heap, k) ==
  t = Padding.score \/ (t \in Nat /\ Len(heap) = k /\ \A i \in DOMAIN heap : t <= heap[i].score)

LEMMA ConsideredBest ==
  ASSUME NEW k \in Nat \ {0}, NEW heap, NEW score, NEW seen, Best(heap, k, score, seen),
         NEW slot \in Nat, slot \notin seen, \A s \in seen \cup {slot} : score[s] \in Nat
  PROVE  LET hit == [score |-> score[slot], slot |-> slot]
         IN  /\ Best(Considered(heap, k, hit), k, score, seen \cup {slot})
             /\ \A t : Below(t, heap, k) => Below(t, Considered(heap, k, hit), k)
<1> DEFINE hit == [score |-> score[slot], slot |-> slot]
           next == Considered(heap, k, hit)
<1>1. /\ heap \in Seq(Hit) /\ Len(heap) <= k /\ Len(heap) \in Nat /\ DOMAIN heap = 1..Len(heap)
      /\ \A i \in DOMAIN heap : heap[i] \in Hit /\ heap[i].score \in Nat /\ heap[i].slot \in Nat
  BY HitsOf DEF Best
<1>2. /\ \A i \in DOMAIN heap : heap[i].slot \in seen /\ heap[i].score = score[heap[i].slot]
      /\ \A i, j \in DOMAIN heap : heap[i].slot = heap[j].slot => i = j
      /\ \A s \in seen : \/ \E i \in DOMAIN heap : heap[i].slot = s
                         \/ Len(heap) = k /\ \A i \in DOMAIN heap : score[s] <= heap[i].score
  BY DEF Best
<1>3. /\ hit \in Hit /\ hit.slot = slot /\ hit.score = score[slot] /\ score[slot] \in Nat
      /\ \A i \in DOMAIN heap : heap[i].slot # slot
  BY <1>2 DEF Hit
<1> HIDE DEF hit
<1>6. Len(heap) < k \/ Len(heap) = k
  <2>1. Len(heap) \in Nat /\ Len(heap) <= k
    BY <1>1
  <2> HIDE DEF next
  <2>2. QED
    BY <2>1, SMT
<1>4. CASE Len(heap) < k
  <2>10. Len(heap) # k
    <3>1. Len(heap) \in Nat
      BY <1>1
    <3>2. QED
      BY <1>4, <3>1
  <2>1. next = Append(heap, hit)
    BY <1>4 DEF Considered
  <2>2. /\ next \in Seq(Hit) /\ Len(next) = Len(heap) + 1 /\ DOMAIN next = 1..(Len(heap) + 1)
        /\ \A i \in DOMAIN heap : next[i] = heap[i]
        /\ next[Len(heap) + 1] = hit
    BY <1>1, <1>3, <2>1
  <2> HIDE DEF next
  <2>3. /\ \A i \in DOMAIN next : i \in DOMAIN heap \/ i = Len(heap) + 1
        /\ \A i \in DOMAIN heap : i \in DOMAIN next
        /\ Len(heap) + 1 \in DOMAIN next /\ Len(next) <= k
    BY <1>1, <1>4, <2>2
  <2>4. \A i \in DOMAIN next : next[i].slot \in seen \cup {slot} /\ next[i].score = score[next[i].slot]
    BY <1>2, <1>3, <2>2, <2>3
  <2>5. ASSUME NEW i \in DOMAIN next, NEW j \in DOMAIN next, next[i].slot = next[j].slot
        PROVE  i = j
    BY <1>2, <1>3, <2>2, <2>3, <2>5
  <2>6. ASSUME NEW s \in seen \cup {slot}
        PROVE  \E i \in DOMAIN next : next[i].slot = s
    <3>1. CASE s = slot
      BY <1>3, <2>2, <2>3, <3>1
    <3>2. CASE s \in seen
      <4>1. PICK i \in DOMAIN heap : heap[i].slot = s
        BY <1>2, <2>10, <3>2
      <4>2. QED
        BY <2>2, <2>3, <4>1
    <3>3. QED
      BY <3>1, <3>2
  <2>7. Best(next, k, score, seen \cup {slot})
    BY <2>2, <2>3, <2>4, <2>5, <2>6 DEF Best
  <2>8. ASSUME NEW t, Below(t, heap, k)
        PROVE  Below(t, next, k)
    BY <2>8, <2>10 DEF Below
  <2>9. QED
    BY <2>7, <2>8 DEF next, hit
<1>5. CASE Len(heap) = k
  <2> DEFINE mi == MinPlace(heap)
  <2>1. mi \in DOMAIN heap /\ \A j \in DOMAIN heap : heap[mi].score <= heap[j].score
    <3>1. Len(heap) > 0
      BY <1>5
    <3>2. QED
      BY <1>1, <3>1, MinPlaceIs
  <2>2. next = IF hit.score > heap[mi].score THEN [heap EXCEPT ![mi] = hit] ELSE heap
    BY <1>1, <1>5 DEF Considered
  <2> HIDE DEF mi
  <2>3. CASE ~(hit.score > heap[mi].score)
    <3>1. next = heap
      BY <2>2, <2>3
    <3>2. \A i \in DOMAIN heap : score[slot] <= heap[i].score
      <4>1. ASSUME NEW i \in DOMAIN heap
            PROVE  score[slot] <= heap[i].score
        <5>1. /\ heap[mi].score \in Nat /\ heap[i].score \in Nat /\ heap[mi].score <= heap[i].score
              /\ ~(score[slot] > heap[mi].score) /\ score[slot] \in Nat
          BY <1>1, <1>3, <2>1, <2>3
        <5>2. QED
          BY <5>1
      <4>2. QED
        BY <4>1
    <3>3. Best(heap, k, score, seen \cup {slot})
      BY <1>1, <1>2, <1>5, <3>2 DEF Best
    <3>4. QED
      BY <3>1, <3>3 DEF next, hit
  <2>4. CASE hit.score > heap[mi].score
    <3>1. next = [heap EXCEPT ![mi] = hit]
      BY <2>2, <2>4
    <3>2. /\ next \in Seq(Hit) /\ Len(next) = Len(heap) /\ DOMAIN next = DOMAIN heap
          /\ next[mi] = hit /\ \A i \in DOMAIN heap : i # mi => next[i] = heap[i]
      BY <1>1, <1>3, <2>1, <3>1
    <3> HIDE DEF next
    <3>3. ASSUME NEW i \in DOMAIN next
          PROVE  next[i].slot \in seen \cup {slot} /\ next[i].score = score[next[i].slot]
      <4>1. CASE i = mi
        BY <1>3, <3>2, <4>1
      <4>2. CASE i # mi
        BY <1>2, <3>2, <4>2
      <4>3. QED
        BY <4>1, <4>2
    <3>4. ASSUME NEW i \in DOMAIN next, NEW j \in DOMAIN next, next[i].slot = next[j].slot
          PROVE  i = j
      <4>1. \A l \in DOMAIN next : l = mi <=> next[l].slot = slot
        BY <1>3, <3>2
      <4>2. CASE i = mi \/ j = mi
        BY <3>4, <4>1, <4>2
      <4>3. CASE i # mi /\ j # mi
        BY <1>2, <3>2, <3>4, <4>3
      <4>4. QED
        BY <4>2, <4>3
    <3>5. ASSUME NEW i \in DOMAIN heap
          PROVE  heap[mi].score <= next[i].score /\ heap[i].score <= next[i].score
      <4>1. heap[mi].score \in Nat /\ heap[i].score \in Nat /\ heap[mi].score <= heap[i].score
        BY <1>1, <2>1
      <4>2. CASE i = mi
        BY <1>3, <2>4, <3>2, <4>1, <4>2
      <4>3. CASE i # mi
        BY <3>2, <4>1, <4>3
      <4>4. QED
        BY <4>2, <4>3
    <3>6. ASSUME NEW s \in seen \cup {slot}
          PROVE  \/ \E i \in DOMAIN next : next[i].slot = s
                 \/ Len(next) = k /\ \A i \in DOMAIN next : score[s] <= next[i].score
      <4>1. CASE s = slot
        BY <1>3, <2>1, <3>2, <4>1
      <4>2. CASE s \in seen /\ \E i \in DOMAIN heap : heap[i].slot = s
        <5>1. PICK i \in DOMAIN heap : heap[i].slot = s
          BY <4>2
        <5>2. CASE i # mi
          BY <3>2, <5>1, <5>2
        <5>3. CASE i = mi
          <6>1. score[s] = heap[mi].score
            BY <1>2, <5>1, <5>3
          <6>2. QED
            BY <1>5, <3>2, <3>5, <6>1
        <5>4. QED
          BY <5>2, <5>3
      <4>3. CASE s \in seen /\ \A i \in DOMAIN heap : score[s] <= heap[i].score
        <5>1. ASSUME NEW i \in DOMAIN heap
              PROVE  score[s] <= next[i].score
          <6>1. /\ score[s] \in Nat /\ heap[i].score \in Nat /\ next[i].score \in Nat
                /\ score[s] <= heap[i].score /\ heap[i].score <= next[i].score
            BY <1>1, <3>2, <3>5, <4>3, HitsOf
          <6>2. QED
            BY <6>1
        <5>2. QED
          BY <1>5, <3>2, <5>1
      <4>4. QED
        BY <1>2, <4>1, <4>2, <4>3
    <3>7. Best(next, k, score, seen \cup {slot})
      BY <1>5, <3>2, <3>3, <3>4, <3>6 DEF Best
    <3>8. ASSUME NEW t, Below(t, heap, k)
          PROVE  Below(t, next, k)
      <4>1. ASSUME t \in Nat, NEW i \in DOMAIN heap, t <= heap[i].score
            PROVE  t <= next[i].score
        <5>1. heap[i].score \in Nat /\ next[i].score \in Nat /\ heap[i].score <= next[i].score
          BY <1>1, <3>2, <3>5, HitsOf
        <5>2. QED
          BY <4>1, <5>1
      <4>2. QED
        BY <3>2, <3>8, <4>1 DEF Below
    <3>9. QED
      BY <3>7, <3>8 DEF next, hit
  <2>5. QED
    BY <2>3, <2>4
<1>7. QED
  BY <1>4, <1>5, <1>6

\* A slot that does not beat a threshold need not be looked at.
LEMMA SkippedBest ==
  ASSUME NEW k \in Nat \ {0}, NEW heap, NEW score, NEW seen, Best(heap, k, score, seen),
         NEW slot, score[slot] \in Nat, NEW t, Below(t, heap, k), ~(score[slot] > t)
  PROVE  Best(heap, k, score, seen \cup {slot})
<1>1. t \in Nat /\ Len(heap) = k /\ \A i \in DOMAIN heap : t <= heap[i].score
  BY DEF Below, Padding
<1>2. heap \in Seq(Hit) /\ \A i \in DOMAIN heap : heap[i].score \in Nat
  BY HitsOf DEF Best
<1>3. ASSUME NEW i \in DOMAIN heap
      PROVE  score[slot] <= heap[i].score
  <2>1. heap[i].score \in Nat /\ t <= heap[i].score
    BY <1>1, <1>2
  <2>2. QED
    BY <1>1, <2>1
<1>4. QED
  BY <1>1, <1>3 DEF Best

-----------------------------------------------------------------------------
\* The search.

\* q is a search of the mask m that has come to its place with the best of what
\* it has seen.
Scanning(m, q) ==
  /\ DOMAIN q = {"phase", "k", "score", "kernel", "pos", "lane", "thr", "heap"}
  /\ q.k \in 1..m.count /\ q.score \in [Slots(m) -> Scores]
  /\ AtLane(m, q.pos, q.lane)
  /\ Best(q.heap, q.k, q.score, Seen(m, q.pos, q.lane))
  /\ q.lane > 0 => Below(q.thr, q.heap, q.k)

HitsOn(m) == [score : Scores, slot : Slots(m)]

SlotsOf(heap) == {heap[i].slot : i \in DOMAIN heap}

\* q is a search of m that has its answer.
Finished(m, q) ==
  /\ q.k \in 1..m.count /\ q.heap \in Seq(HitsOn(m)) /\ q.lane \in 0..(BLOCK - 1)
  /\ SlotsOf(q.heap) \subseteq Chosen(m) /\ Cardinality(SlotsOf(q.heap)) = q.k
  /\ \A s \in Chosen(m) \ SlotsOf(q.heap) : \A i \in DOMAIN q.heap : q.score[s] <= q.heap[i].score
  /\ \A i, j \in DOMAIN q.heap : i < j => q.heap[i].score >= q.heap[j].score

SearchInv ==
  /\ search.phase \in {"idle", "scan", "done"}
  /\ search.phase = "scan" => Scanning(mask, search)
  /\ search.phase = "done" => Finished(mask, search)

LEMMA CountBounds ==
  ASSUME MaskInv(mask)
  PROVE  mask.len \in Nat /\ mask.count \in Nat /\ mask.count = Cardinality(Chosen(mask))
<1>1. mask.len \in Nat /\ mask.count = Cardinality(Chosen(mask))
  BY DEF MaskInv, Typed, CountExact
<1>2. QED
  BY <1>1, ChosenFinite

LEMMA BeginKeeps ==
  ASSUME MaskInv(mask), NEW k \in Ks, NEW kernel, NEW score \in [Slots(mask) -> Scores],
         BeginSearch(k, score, kernel)
  PROVE  mask' = mask /\ search'.phase = "scan" /\ Scanning(mask, search')
<1>1. mask.count \in Nat /\ k \in Nat
  BY CountBounds, KernelConstantsOK
<1> DEFINE top == SmallerOf(k, mask.count)
<1>2. /\ mask' = mask
      /\ search' = [phase |-> "scan", k |-> top, score |-> score, kernel |-> kernel,
                    pos |-> 1, lane |-> 0, thr |-> Padding.score, heap |-> << >>]
      /\ top > 0
  BY DEF BeginSearch, maskVars
<1>3. top \in 1..mask.count
  BY <1>1, <1>2 DEF SmallerOf
<1> HIDE DEF top
<1>4. Best(<< >>, top, score, {})
  BY <1>3 DEF Best
<1>5. Seen(mask, 1, 0) = {} /\ AtLane(mask, 1, 0)
  BY SeenAll
<1>6. /\ DOMAIN search' = {"phase", "k", "score", "kernel", "pos", "lane", "thr", "heap"}
      /\ search'.phase = "scan" /\ search'.k = top /\ search'.score = score
      /\ search'.pos = 1 /\ search'.lane = 0 /\ search'.heap = << >>
  BY <1>2
<1>7. ~(0 > 0)
  OBVIOUS
<1>8. QED
  BY <1>2, <1>3, <1>4, <1>5, <1>6, <1>7, Zenon DEF Scanning

LEMMA ThresholdBelow ==
  ASSUME Scanning(mask, search)
  PROVE  Below(Threshold, search.heap, search.k)
<1>1. /\ search.lane \in 0..(BLOCK - 1) /\ BLOCK \in Nat /\ search.k \in 1..mask.count
      /\ search.heap \in Seq(Hit)
      /\ search.lane > 0 => Below(search.thr, search.heap, search.k)
  BY MaskConstantsOK DEF Scanning, AtLane, Best
<1>2. CASE search.lane > 0
  BY <1>1, <1>2 DEF Threshold
<1>3. CASE ~(search.lane > 0) /\ Len(search.heap) = search.k
  <2>1. Len(search.heap) > 0
    BY <1>1, <1>3
  <2>2. /\ MinPlace(search.heap) \in DOMAIN search.heap
        /\ \A j \in DOMAIN search.heap : search.heap[MinPlace(search.heap)].score <= search.heap[j].score
    BY <1>1, <2>1, MinPlaceIs
  <2>3. search.heap[MinPlace(search.heap)].score \in Nat
    BY <1>1, <2>2, HitsOf
  <2>4. Threshold = search.heap[MinPlace(search.heap)].score
    BY <1>3 DEF Threshold
  <2>5. QED
    BY <1>3, <2>2, <2>3, <2>4 DEF Below
<1>4. CASE ~(search.lane > 0) /\ Len(search.heap) # search.k
  BY <1>4 DEF Threshold, Below
<1>5. QED
  BY <1>2, <1>3, <1>4

LEMMA ScanKeeps ==
  ASSUME MaskInv(mask), Scanning(mask, search), ScanLane
  PROVE  mask' = mask /\ search'.phase = "scan" /\ Scanning(mask, search')
<1> DEFINE b == BlockList(mask)[search.pos]
           slot == BlockStart(b) + search.lane
           hit == [score |-> search.score[slot], slot |-> slot]
           seen == Seen(mask, search.pos, search.lane)
           heap == IF LooksAt /\ MaskAllows THEN Considered(search.heap, search.k, hit) ELSE search.heap
           more == search.lane + 1 \in Lanes(mask, b)
           pos2 == IF more THEN search.pos ELSE search.pos + 1
           lane2 == IF more THEN search.lane + 1 ELSE 0
<1>1. /\ DOMAIN search = {"phase", "k", "score", "kernel", "pos", "lane", "thr", "heap"}
      /\ search.k \in 1..mask.count /\ search.score \in [Slots(mask) -> Scores]
      /\ AtLane(mask, search.pos, search.lane) /\ search.pos <= Len(BlockList(mask))
      /\ Best(search.heap, search.k, search.score, seen)
  BY DEF Scanning, ScanLane
<1>2. /\ b \in 0..(n_blocks(mask.len) - 1) /\ slot \in Slots(mask) /\ slot \in Nat
      /\ slot \notin seen
  BY <1>1, LaneSlot
<1>3. /\ AtLane(mask, pos2, lane2)
      /\ Seen(mask, pos2, lane2) = seen \cup ({slot} \cap Chosen(mask))
  BY <1>1, SeenGrows
<1>4. /\ BlockNow = b /\ SlotNow = slot /\ LanesOf(BlockNow) = Lanes(mask, b)
      /\ search.lane \in Lanes(mask, b)
  BY <1>1 DEF BlockNow, SlotNow, LanesOf, Lanes, AtLane
<1>5. /\ mask' = mask
      /\ search' = [search EXCEPT !.thr = Threshold, !.heap = heap, !.lane = lane2, !.pos = pos2]
      /\ search.phase = "scan"
  BY <1>4 DEF ScanLane, maskVars
<1>6. MaskAllows <=> slot \in Chosen(mask)
  <2>1. is_all(mask) => Chosen(mask) = Slots(mask)
    BY AllIsAll
  <2>2. QED
    BY <1>2, <1>4, <2>1 DEF MaskAllows, Chosen
<1>7. ~LooksAt => ~(search.score[slot] > Threshold)
  <2>1. Cardinality(Lanes(mask, b)) <= BLOCK /\ Cardinality(Lanes(mask, b)) \in Nat /\ BLOCK \in Nat
    BY <1>2, CountBounds, LanesAre, MaskConstantsOK
  <2>2. Cardinality(Lanes(mask, b)) = BLOCK \/ Cardinality(Lanes(mask, b)) < BLOCK
    BY <2>1
  <2>3. Beats(search.lane) <=> search.score[slot] > Threshold
    BY <1>4 DEF Beats
  <2>4. Beats(search.lane) => LooksAt
    BY <1>4, <2>2, Zenon DEF LooksAt
  <2>5. QED
    BY <2>3, <2>4
<1>8. /\ Below(Threshold, search.heap, search.k)
      /\ \A s \in seen \cup {slot} : search.score[s] \in Nat
  <2>1. seen \subseteq Slots(mask)
    BY DEF Seen, Chosen
  <2> HIDE DEF seen, slot
  <2>2. QED
    BY <1>1, <1>2, <2>1, ThresholdBelow, KernelConstantsOK
<1>9. search.k \in Nat \ {0}
  BY <1>1, CountBounds
<1> HIDE DEF b, slot, seen, more, pos2, lane2
<1>10. /\ Best(heap, search.k, search.score, seen \cup ({slot} \cap Chosen(mask)))
       /\ Below(Threshold, heap, search.k)
  <2>1. CASE slot \notin Chosen(mask)
    <3>1. heap = search.heap /\ seen \cup ({slot} \cap Chosen(mask)) = seen
      BY <1>6, <2>1
    <3> HIDE DEF heap
    <3>2. QED
      BY <1>1, <1>8, <3>1
  <2>2. CASE slot \in Chosen(mask) /\ LooksAt
    <3>1. /\ heap = Considered(search.heap, search.k, hit)
          /\ seen \cup ({slot} \cap Chosen(mask)) = seen \cup {slot}
      BY <1>6, <2>2
    <3> HIDE DEF heap
    <3>2. /\ Best(Considered(search.heap, search.k, hit), search.k, search.score, seen \cup {slot})
          /\ Below(Threshold, Considered(search.heap, search.k, hit), search.k)
      BY <1>1, <1>2, <1>8, <1>9, ConsideredBest
    <3>3. QED
      BY <3>1, <3>2
  <2>3. CASE slot \in Chosen(mask) /\ ~LooksAt
    <3>1. heap = search.heap /\ seen \cup ({slot} \cap Chosen(mask)) = seen \cup {slot}
      BY <2>3
    <3> HIDE DEF heap
    <3>2. Best(search.heap, search.k, search.score, seen \cup {slot})
      BY <1>1, <1>7, <1>8, <1>9, <2>3, SkippedBest
    <3>3. QED
      BY <1>8, <3>1, <3>2
  <2>4. QED
    BY <2>1, <2>2, <2>3
<1> HIDE DEF heap
<1>11. /\ DOMAIN search' = DOMAIN search /\ search'.phase = "scan" /\ search'.k = search.k
       /\ search'.score = search.score /\ search'.thr = Threshold /\ search'.heap = heap
       /\ search'.lane = lane2 /\ search'.pos = pos2
  BY <1>1, <1>5
<1>12. QED
  BY <1>1, <1>3, <1>5, <1>10, <1>11 DEF Scanning

\* Different hits are of different slots.
LEMMA SlotsCount ==
  ASSUME NEW k, NEW heap, NEW score, NEW seen, Best(heap, k, score, seen)
  PROVE  Cardinality(SlotsOf(heap)) = Len(heap)
<1> DEFINE places == 1..Len(heap)
           S == SlotsOf(heap)
           f == [i \in places |-> heap[i].slot]
<1>1. /\ Len(heap) \in Nat /\ DOMAIN heap = places
      /\ \A i, j \in DOMAIN heap : heap[i].slot = heap[j].slot => i = j
  BY HitsOf DEF Best
<1>2. IsFiniteSet(places) /\ Cardinality(places) = Len(heap)
  <2>1. 1 \in Int /\ Len(heap) \in Int /\ (1 > Len(heap) => Len(heap) = 0) /\ Len(heap) - 1 + 1 = Len(heap)
    BY <1>1
  <2>2. QED
    BY <2>1, FS_Interval
<1> HIDE DEF places
<1>3. f \in Surjection(places, S)
  BY <1>1 DEF SlotsOf, Surjection
<1>4. ASSUME NEW i \in places, NEW j \in places, f[i] = f[j]
      PROVE  i = j
  BY <1>1, <1>4
<1> HIDE DEF f, S
<1>5. f \in Injection(places, S)
  BY <1>3, <1>4 DEF Surjection, Injection, IsInjective
<1>6. QED
  BY <1>2, <1>3, <1>5, FS_Surjection DEF S

LEMMA FinishKeeps ==
  ASSUME MaskInv(mask), Scanning(mask, search), FinishSearch
  PROVE  mask' = mask /\ search'.phase = "done" /\ Finished(mask, search')
<1> DEFINE heap == search.heap
           k == search.k
           score == search.score
<1>1. /\ DOMAIN search = {"phase", "k", "score", "kernel", "pos", "lane", "thr", "heap"}
      /\ k \in 1..mask.count /\ score \in [Slots(mask) -> Scores]
      /\ AtLane(mask, search.pos, search.lane) /\ search.pos > Len(BlockList(mask))
      /\ Best(heap, k, score, Seen(mask, search.pos, search.lane))
      /\ mask' = mask
  BY DEF Scanning, FinishSearch, maskVars
<1>2. PICK hits \in Sorted(heap) :
        search' = [search EXCEPT
          !.phase = "done",
          !.heap = [i \in 1..k |-> IF i \in DOMAIN hits THEN hits[i] ELSE Padding]]
  BY DEF FinishSearch
<1>3. Seen(mask, search.pos, search.lane) = Chosen(mask)
  <2>1. Len(BlockList(mask)) \in Nat
    BY BlockListSorts
  <2>2. search.pos = Len(BlockList(mask)) + 1 /\ search.lane = 0
    BY <1>1, <2>1 DEF AtLane
  <2>3. QED
    BY <2>2, SeenAll
<1>4. /\ heap \in Seq(Hit) /\ Len(heap) <= k /\ Len(heap) \in Nat /\ DOMAIN heap = 1..Len(heap)
      /\ k \in Nat \ {0} /\ k <= mask.count
      /\ Best(heap, k, score, Chosen(mask))
  BY <1>1, <1>3, CountBounds, HitsOf DEF Best
<1> HIDE DEF heap, k, score
<1>5. Len(heap) = k
  <2>1. ASSUME Len(heap) # k
        PROVE  FALSE
    <3>1. SlotsOf(heap) = Chosen(mask)
      <4>1. \A s \in Chosen(mask) : \E i \in DOMAIN heap : heap[i].slot = s
        BY <1>4, <2>1, Zenon DEF Best
      <4>2. \A i \in DOMAIN heap : heap[i].slot \in Chosen(mask)
        BY <1>4 DEF Best
      <4>3. QED
        BY <4>1, <4>2 DEF SlotsOf
    <3>2. Cardinality(SlotsOf(heap)) = Len(heap)
      BY <1>4, SlotsCount
    <3>3. mask.count = Len(heap) /\ mask.count \in Nat
      BY <3>1, <3>2, CountBounds
    <3>4. QED
      <4>1. Len(heap) \in Nat /\ Len(heap) <= k /\ k \in Nat /\ k <= Len(heap)
        BY <1>4, <3>3
      <4>2. QED
        BY <2>1, <4>1
  <2>2. QED
    BY <2>1
<1>6. /\ hits \in [1..k -> {heap[i] : i \in 1..k}]
      /\ \A i \in 1..k : \E j \in 1..k : hits[j] = heap[i]
      /\ \A i, j \in 1..k : i < j => hits[i].score >= hits[j].score
  BY <1>2, <1>4, <1>5 DEF Sorted
<1>7. /\ search'.phase = "done" /\ search'.k = k /\ search'.score = score /\ search'.lane = search.lane
      /\ search'.heap = hits
  <2>1. [i \in 1..k |-> IF i \in DOMAIN hits THEN hits[i] ELSE Padding] = hits
    BY <1>6
  <2>2. search' = [search EXCEPT !.phase = "done", !.heap = hits]
    BY <1>2, <2>1
  <2>3. QED
    BY <1>1, <2>2 DEF k, score
<1>8. ASSUME NEW i \in 1..k
      PROVE  /\ \E j \in 1..k : hits[i] = heap[j]
             /\ heap[i] \in HitsOn(mask)
  <2>1. heap[i] \in Hit /\ heap[i].slot \in Chosen(mask) /\ heap[i].score = score[heap[i].slot]
    BY <1>4, <1>5, HitsOf DEF Best
  <2>2. heap[i].slot \in Slots(mask)
    BY <2>1 DEF Chosen
  <2>3. heap[i].score \in Scores
    BY <1>1, <2>1, <2>2 DEF score
  <2>4. heap[i] \in HitsOn(mask)
    BY <2>1, <2>2, <2>3 DEF Hit, HitsOn
  <2>5. QED
    BY <1>6, <2>4
<1>9. hits \in Seq(HitsOn(mask)) /\ DOMAIN hits = 1..k
  <2>1. hits \in [1..k -> HitsOn(mask)]
    BY <1>6, <1>8
  <2>2. QED
    BY <1>4, <2>1, ArrayIsSeq
<1>10. SlotsOf(hits) = SlotsOf(heap)
  <2>1. DOMAIN heap = 1..k /\ DOMAIN hits = 1..k
    BY <1>4, <1>5, <1>9
  <2>2. /\ \A i \in 1..k : \E j \in 1..k : hits[j] = heap[i]
        /\ \A i \in 1..k : \E j \in 1..k : hits[i] = heap[j]
    BY <1>6, <1>8
  <2>3. ASSUME NEW i \in 1..k
        PROVE  hits[i].slot \in SlotsOf(heap) /\ heap[i].slot \in SlotsOf(hits)
    <3>1. (\E j \in 1..k : hits[i] = heap[j]) /\ (\E j \in 1..k : hits[j] = heap[i])
      BY <2>2
    <3>2. QED
      BY <2>1, <3>1 DEF SlotsOf
  <2>4. QED
    BY <2>1, <2>3 DEF SlotsOf
<1>11. SlotsOf(hits) \subseteq Chosen(mask) /\ Cardinality(SlotsOf(hits)) = k
  <2>1. SlotsOf(heap) \subseteq Chosen(mask)
    BY <1>4 DEF Best, SlotsOf
  <2>2. QED
    BY <1>4, <1>5, <1>10, <2>1, SlotsCount
<1>12. ASSUME NEW s \in Chosen(mask) \ SlotsOf(hits), NEW i \in 1..k
       PROVE  score[s] <= hits[i].score
  <2>1. \A j \in 1..k : score[s] <= heap[j].score
    <3>1. s \in Chosen(mask) /\ ~ \E j \in DOMAIN heap : heap[j].slot = s
      BY <1>10, <1>12 DEF SlotsOf
    <3>2. \A j \in DOMAIN heap : score[s] <= heap[j].score
      BY <1>4, <3>1, Zenon DEF Best
    <3>3. QED
      BY <1>4, <1>5, <3>2
  <2>2. QED
    BY <1>8, <2>1
<1>13. search.lane \in 0..(BLOCK - 1)
  BY <1>1 DEF AtLane
<1>14. k \in 1..mask.count
  BY <1>1 DEF k
<1>15. QED
  BY <1>1, <1>6, <1>7, <1>9, <1>11, <1>12, <1>13, <1>14 DEF Finished

-----------------------------------------------------------------------------
\* The theorems.

SystemInv == MaskInv(mask) /\ IterInv /\ SearchInv

LEMMA InitSound ==
  ASSUME Init
  PROVE  SystemInv
<1>1. mask = NewMask(0) /\ iter = NoIter /\ search = NoSearch
  BY DEF Init, MaskInit
<1>2. MaskInv(mask)
  BY <1>1, NewSound
<1>3. QED
  BY <1>1, <1>2 DEF SystemInv, IterInv, SearchInv, NoIter, NoSearch

LEMMA SystemStep ==
  ASSUME SystemInv, [Next]_vars
  PROVE  SystemInv'
<1>1. MaskInv(mask) /\ IterInv /\ SearchInv
  BY DEF SystemInv
<1>2. [MaskNext]_maskVars
  BY DEF Next, vars, BeginSearch, ScanLane, FinishSearch, Return
<1>3. MaskInv(mask') /\ IterInv'
  BY <1>1, <1>2, MaskStep, IterStep
<1>4. ASSUME search.phase = "idle", UNCHANGED search
      PROVE  SearchInv'
  BY <1>4 DEF SearchInv
<1>5. ASSUME UNCHANGED vars
      PROVE  SearchInv'
  <2>1. mask' = mask /\ search' = search
    BY <1>5 DEF vars, maskVars
  <2>2. QED
    BY <1>1, <2>1 DEF SearchInv
<1>6. ASSUME NEW k \in Ks, NEW kernel \in Kernels, NEW score \in [Slots(mask) -> Scores],
             BeginSearch(k, score, kernel)
      PROVE  SearchInv'
  <2>1. mask' = mask /\ search'.phase = "scan" /\ Scanning(mask, search')
    BY <1>1, <1>6, BeginKeeps
  <2>2. QED
    BY <2>1 DEF SearchInv
<1>7. ASSUME ScanLane
      PROVE  SearchInv'
  <2>1. Scanning(mask, search)
    BY <1>1, <1>7 DEF SearchInv, ScanLane
  <2>2. mask' = mask /\ search'.phase = "scan" /\ Scanning(mask, search')
    BY <1>1, <1>7, <2>1, ScanKeeps
  <2>3. QED
    BY <2>2 DEF SearchInv
<1>8. ASSUME FinishSearch
      PROVE  SearchInv'
  <2>1. Scanning(mask, search)
    BY <1>1, <1>8 DEF SearchInv, FinishSearch
  <2>2. mask' = mask /\ search'.phase = "done" /\ Finished(mask, search')
    BY <1>1, <1>8, <2>1, FinishKeeps
  <2>3. QED
    BY <2>2 DEF SearchInv
<1>9. ASSUME Return
      PROVE  SearchInv'
  BY <1>9 DEF Return, NoSearch, SearchInv
<1>10. SearchInv'
  BY <1>4, <1>5, <1>6, <1>7, <1>8, <1>9 DEF Next
<1>11. QED
  BY <1>3, <1>10 DEF SystemInv

\* Whatever is called, the mask, the iterator and the search are what the next
\* call takes them to be.
THEOREM SystemSound == Spec => []SystemInv
<1>1. Init => SystemInv
  BY InitSound
<1>2. SystemInv /\ [Next]_vars => SystemInv'
  BY SystemStep
<1>3. QED
  BY <1>1, <1>2, PTL DEF Spec

\* The words, counts and lists of a mask have their bounds (SlotMask), a search
\* has a place in a block and a heap of hits.
THEOREM TypesCorrect == Spec => []TypeOK
<1>1. ASSUME SystemInv
      PROVE  TypeOK
  <2>1. MaskInv(mask) /\ IterInv /\ SearchInv
    BY <1>1 DEF SystemInv
  <2>2. mask.len \in Nat /\ mask.count \in 0..mask.len
    BY <2>1, CountBounds, ChosenFinite
  <2>3. mask.block_counts \in [0..(n_blocks(mask.len) - 1) -> 0..BLOCK]
    <3>1. mask.block_counts \in [0..(n_blocks(mask.len) - 1) -> Nat]
      BY <2>1 DEF MaskInv
    <3>2. ASSUME NEW b \in 0..(n_blocks(mask.len) - 1)
          PROVE  mask.block_counts[b] \in 0..BLOCK
      <4>1. mask.block_counts[b] = Cardinality(InBlock(mask, b))
        BY <2>1, <3>1 DEF MaskInv, BlockCountsExact, InBlock
      <4>2. QED
        BY <2>2, <4>1, BlockFits
    <3>3. QED
      BY <3>1, <3>2
  <2>4. MaskTypeOK
    BY <2>1, <2>2, <2>3 DEF MaskTypeOK, MaskInv, Typed, IterInv
  <2>5. ASSUME search.phase = "scan"
        PROVE  /\ search.k \in 1..mask.count /\ search.lane \in 0..(BLOCK - 1)
               /\ search.heap \in Seq(HitsOn(mask))
    <3>1. /\ search.k \in 1..mask.count /\ search.score \in [Slots(mask) -> Scores]
          /\ search.lane \in 0..(BLOCK - 1)
          /\ search.heap \in Seq(Hit)
          /\ \A i \in DOMAIN search.heap :
               /\ search.heap[i].slot \in Seen(mask, search.pos, search.lane)
               /\ search.heap[i].score = search.score[search.heap[i].slot]
      BY <2>1, <2>5 DEF SearchInv, Scanning, AtLane, Best
    <3>2. ASSUME NEW i \in DOMAIN search.heap
          PROVE  search.heap[i] \in HitsOn(mask)
      <4>1. search.heap[i] \in Hit /\ search.heap[i].slot \in Slots(mask)
        BY <3>1, HitsOf DEF Seen, Chosen
      <4>2. search.heap[i].score \in Scores
        BY <3>1, <4>1
      <4>3. QED
        BY <4>1, <4>2 DEF Hit, HitsOn
    <3>3. search.heap \in [1..Len(search.heap) -> HitsOn(mask)] /\ Len(search.heap) \in Nat
      BY <3>1, <3>2
    <3>4. QED
      BY <3>1, <3>3, ArrayIsSeq
  <2>6. ASSUME search.phase = "done"
        PROVE  /\ search.k \in 1..mask.count /\ search.lane \in 0..(BLOCK - 1)
               /\ search.heap \in Seq(HitsOn(mask))
    BY <2>1, <2>6 DEF SearchInv, Finished
  <2>7. search.phase \in {"idle", "scan", "done"}
    BY <2>1 DEF SearchInv
  <2>8. QED
    BY <2>4, <2>5, <2>6, <2>7 DEF TypeOK, HitsOn
<1>2. QED
  BY <1>1, SystemSound, PTL

\* The count, the counts per block and the list of blocks say what the bits say
\* after any calls of allow, disallow, clear, the constructors and the set
\* operations of mask.rs.
THEOREM MasksAreSets == Spec => []RepresentsASet
<1>1. SystemInv => RepresentsASet
  BY DEF SystemInv, MaskInv, Typed, RepresentsASet
<1>2. QED
  BY <1>1, SystemSound, PTL

\* AllowedSlots returns the allowed slots in order, and ends neither early nor
\* late.
THEOREM IterationIsExact == Spec => []IterationExact
<1>1. SystemInv => IterationExact
  BY IterationFollows DEF SystemInv
<1>2. QED
  BY <1>1, SystemSound, PTL

\* Whichever kernel scans, and whatever lanes and chunks it skips by a threshold
\* it has not refreshed, a masked search returns as many different allowed slots
\* as it can, the best, best first.
THEOREM SearchesAreExact == Spec => []SearchIsExact
<1>1. ASSUME SystemInv
      PROVE  SearchIsExact
  <2>1. search.phase = "done" => Finished(mask, search)
    BY <1>1 DEF SystemInv, SearchInv
  <2>2. HitSlots = SlotsOf(search.heap)
    BY DEF HitSlots, SlotsOf
  <2>3. QED
    BY <2>1, <2>2 DEF SearchIsExact, HitsAllowed, HitsAreBest, Finished
<1>2. QED
  BY <1>1, SystemSound, PTL

=============================================================================
