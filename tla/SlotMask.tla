------------------------------ MODULE SlotMask ------------------------------
(***************************************************************************)
(* Packed slot masks (turbo-graph/src/mask.rs): a set of slots as bits in  *)
(* words, with a count, a count per SIMD block and a sorted list of the    *)
(* blocks that have any.  allow and disallow maintain the three, the set   *)
(* operations recompute them, and the search kernel (SearchKernel) and the *)
(* iterator rely on them without looking.                                  *)
(*                                                                         *)
(* A word is the set of its bits.  from_slots of a short list, and         *)
(* search_with_mask, are New and one Allow per slot, which are steps here; *)
(* FromSlots is from_slots of a long list.  A call that panics changes     *)
(* nothing: the mask it worked on is dropped.                              *)
(***************************************************************************)
EXTENDS Integers, Sequences, FiniteSets

CONSTANTS
  WordBits,  \* bits of a word: 64
  BLOCK,     \* slots of a SIMD block: 32
  Lens       \* bound: lengths of masks

ASSUME MaskConstantsOK ==
  /\ WordBits \in Nat \ {0} /\ BLOCK \in Nat \ {0} /\ Lens \subseteq Nat

VARIABLES
  mask,  \* a SlotMask
  iter   \* an AllowedSlots over it with what it has returned, or NoIter
maskVars == <<mask, iter>>

NoIter == [active |-> FALSE]

-----------------------------------------------------------------------------
\* Words and blocks.

n_words(len) == (len + WordBits - 1) \div WordBits
n_blocks(len) == (len + BLOCK - 1) \div BLOCK

WordOf(slot) == slot \div WordBits
BitOf(slot) == slot % WordBits
HasBit(words, slot) == BitOf(slot) \in words[WordOf(slot)]

SmallerOf(a, b) == IF a < b THEN a ELSE b

\* count_bits_in_range: the bits from start to end, word by word, the first
\* and the last word cut at both ends.
BitsInRange(words, start, end) ==
  IF start >= end THEN {}
  ELSE UNION {
         LET lo == IF w = WordOf(start) THEN BitOf(start) ELSE 0
             hi == IF w = WordOf(end - 1) THEN BitOf(end - 1) + 1 ELSE WordBits
         IN  {w * WordBits + i : i \in words[w] \cap lo..(hi - 1)} :
       w \in WordOf(start)..WordOf(end - 1)}

BlockStart(b) == b * BLOCK
BlockEnd(b, len) == SmallerOf(BlockStart(b) + BLOCK, len)
BlockBits(words, len, b) == BitsInRange(words, BlockStart(b), BlockEnd(b, len))

\* A set of numbers in ascending order.
Ascending(S) ==
  [i \in 1..Cardinality(S) |-> CHOOSE x \in S : Cardinality({y \in S : y < x}) = i - 1]

\* insert_sorted and remove_sorted.
InsertSorted(values, value) ==
  LET pos == Cardinality({i \in DOMAIN values : values[i] < value})
  IN  SubSeq(values, 1, pos) \o <<value>> \o SubSeq(values, pos + 1, Len(values))
RemoveSorted(values, value) ==
  LET pos == Cardinality({i \in DOMAIN values : values[i] < value})
  IN  SubSeq(values, 1, pos) \o SubSeq(values, pos + 2, Len(values))

-----------------------------------------------------------------------------
\* What the constructors and operations return.

NewMask(len) ==
  [len |-> len, words |-> [w \in 0..(n_words(len) - 1) |-> {}], count |-> 0,
   block_counts |-> [b \in 0..(n_blocks(len) - 1) |-> 0], active_blocks |-> << >>]

\* clear_tail_bits
ClearTailBits(len, words) ==
  IF len % WordBits = 0 THEN words
  ELSE [words EXCEPT ![n_words(len) - 1] = @ \cap 0..((len % WordBits) - 1)]

AllMask(len) ==
  [len |-> len,
   words |-> ClearTailBits(len, [w \in 0..(n_words(len) - 1) |-> 0..(WordBits - 1)]),
   count |-> len,
   block_counts |-> [b \in 0..(n_blocks(len) - 1) |-> BlockEnd(b, len) - BlockStart(b)],
   active_blocks |-> [i \in 1..n_blocks(len) |-> i - 1]]

\* rebuild_counts_and_blocks
Rebuild(m) ==
  LET bits == [b \in 0..(n_blocks(m.len) - 1) |-> BlockBits(m.words, m.len, b)]
  IN  [m EXCEPT !.count = Cardinality(UNION {bits[b] : b \in DOMAIN bits}),
                !.block_counts = [b \in DOMAIN bits |-> Cardinality(bits[b])],
                !.active_blocks = Ascending({b \in DOMAIN bits : bits[b] # {}})]

\* from_slots of a long list, or of one whose length is not known.
FromSlots(len, slots) ==
  Rebuild([NewMask(len) EXCEPT
             !.words = [w \in DOMAIN @ |-> {BitOf(s) : s \in {s \in slots : WordOf(s) = w}}]])

Block(slot) == slot \div BLOCK

Allowed(m, slot) ==
  [m EXCEPT !.words[WordOf(slot)] = @ \cup {BitOf(slot)},
            !.count = @ + 1,
            !.block_counts[Block(slot)] = @ + 1,
            !.active_blocks = IF m.block_counts[Block(slot)] = 0
                              THEN InsertSorted(@, Block(slot)) ELSE @]

\* Mutant: the block leaves the list with any of its slots.
DisallowedWithBlock(m, slot) ==
  [m EXCEPT !.words[WordOf(slot)] = @ \ {BitOf(slot)},
            !.count = @ - 1,
            !.block_counts[Block(slot)] = @ - 1,
            !.active_blocks = RemoveSorted(@, Block(slot))]

Disallowed(m, slot) ==
  [m EXCEPT !.words[WordOf(slot)] = @ \ {BitOf(slot)},
            !.count = @ - 1,
            !.block_counts[Block(slot)] = @ - 1,
            !.active_blocks = IF m.block_counts[Block(slot)] = 1
                              THEN RemoveSorted(@, Block(slot)) ELSE @]

Union(m, others) ==
  Rebuild([m EXCEPT !.words = [w \in DOMAIN @ |-> @[w] \cup UNION {o.words[w] : o \in others}]])
Intersection(m, others) ==
  Rebuild([m EXCEPT !.words = [w \in DOMAIN @ |-> {i \in @[w] : \A o \in others : i \in o.words[w]}]])

-----------------------------------------------------------------------------
\* Mutations.  The borrow checker keeps them apart from a running iterator.

Slots(m) == 0..(m.len - 1)

Unborrowed == ~iter.active
Replace(m) == Unborrowed /\ mask' = m /\ iter' = iter

New(len) == Replace(NewMask(len))
All(len) == Replace(AllMask(len))
FromLongList(len, slots) == Replace(FromSlots(len, slots))

\* Mutant: a slot that is allowed already is counted again.
AllowAgain(slot) == slot \in Slots(mask) /\ Replace(Allowed(mask, slot))

Allow(slot) == slot \in Slots(mask) /\ ~HasBit(mask.words, slot) /\ Replace(Allowed(mask, slot))
Disallow(slot) == slot \in Slots(mask) /\ HasBit(mask.words, slot) /\ Replace(Disallowed(mask, slot))
Clear == Replace(NewMask(mask.len))

\* union_with, union_with_many and the intersections, with masks of the same
\* length.
UnionWithMany(others) == (\A o \in others : o.len = mask.len) /\ Replace(Union(mask, others))
IntersectWithMany(others) ==
  (\A o \in others : o.len = mask.len) /\ Replace(Intersection(mask, others))

-----------------------------------------------------------------------------
\* allowed_slots.  The iterator stops when it has returned as many slots as
\* were counted, not when the bits run out.

BeginIter ==
  /\ Unborrowed
  /\ iter' = [active |-> TRUE, word_idx |-> 0, base_slot |-> 0, current_word |-> {},
              remaining |-> mask.count, returned |-> << >>]
  /\ mask' = mask

\* Mutant: the base of the word is the number of words read.
LoadWordOffByOne ==
  /\ iter.active /\ iter.remaining > 0 /\ iter.current_word = {}
  /\ iter.word_idx < n_words(mask.len)
  /\ iter' = [iter EXCEPT !.base_slot = (iter.word_idx + 1) * WordBits,
                          !.current_word = mask.words[iter.word_idx],
                          !.word_idx = @ + 1]
  /\ mask' = mask

LoadWord ==
  /\ iter.active /\ iter.remaining > 0 /\ iter.current_word = {}
  /\ iter.word_idx < n_words(mask.len)
  /\ iter' = [iter EXCEPT !.base_slot = iter.word_idx * WordBits,
                          !.current_word = mask.words[iter.word_idx],
                          !.word_idx = @ + 1]
  /\ mask' = mask

\* The lowest bit is taken; past the end it is dropped.
TakeBit ==
  /\ iter.active /\ iter.remaining > 0 /\ iter.current_word # {}
  /\ LET bit == CHOOSE i \in iter.current_word : \A j \in iter.current_word : i <= j
         slot == iter.base_slot + bit
         rest == [iter EXCEPT !.current_word = @ \ {bit}]
     IN  iter' = IF slot < mask.len
                 THEN [rest EXCEPT !.remaining = @ - 1, !.returned = Append(@, slot)]
                 ELSE rest
  /\ mask' = mask

\* The caller drops the iterator, at its end or before.
EndIter == iter.active /\ iter' = NoIter /\ mask' = mask

-----------------------------------------------------------------------------

\* Operands are masks too; RepresentsASet says they are all of this form.
MasksOf(len) == {FromSlots(len, slots) : slots \in SUBSET (0..(len - 1))}

MaskInit == mask = NewMask(0) /\ iter = NoIter

MaskNext ==
  \/ \E len \in Lens : \/ New(len) \/ All(len)
                       \/ \E slots \in SUBSET (0..(len - 1)) : FromLongList(len, slots)
  \/ \E slot \in Slots(mask) : Allow(slot) \/ Disallow(slot)
  \/ Clear
  \/ \E o, p \in MasksOf(mask.len) : UnionWithMany({o, p}) \/ IntersectWithMany({o, p})
  \/ UnionWithMany({}) \/ IntersectWithMany({})
  \/ BeginIter \/ LoadWord \/ TakeBit \/ EndIter

MaskSpec == MaskInit /\ [][MaskNext]_maskVars

-----------------------------------------------------------------------------
\* Properties.

Chosen(m) == {s \in Slots(m) : HasBit(m.words, s)}

MaskTypeOK ==
  /\ mask.len \in Nat
  /\ mask.words \in [0..(n_words(mask.len) - 1) -> SUBSET (0..(WordBits - 1))]
  /\ mask.count \in 0..mask.len
  /\ mask.block_counts \in [0..(n_blocks(mask.len) - 1) -> 0..BLOCK]
  /\ mask.active_blocks \in Seq(0..(n_blocks(mask.len) - 1))
  /\ iter.active \in BOOLEAN

\* No bit past the last slot is set.
TailClear(m) == \A w \in DOMAIN m.words : \A i \in m.words[w] : w * WordBits + i < m.len

\* count is the number of allowed slots: searches size their result by it and
\* is_all takes the unmasked path by it.
CountExact(m) == m.count = Cardinality(Chosen(m))

BlockCountsExact(m) ==
  \A b \in DOMAIN m.block_counts :
    m.block_counts[b] = Cardinality({s \in Chosen(m) : Block(s) = b})

\* The kernel visits each block that has an allowed slot, once and in order.
ActiveBlocksExact(m) ==
  /\ {m.active_blocks[i] : i \in DOMAIN m.active_blocks} = {Block(s) : s \in Chosen(m)}
  /\ \A i, j \in DOMAIN m.active_blocks : i < j => m.active_blocks[i] < m.active_blocks[j]

\* A mask is determined by its length and its set of slots, whatever calls led
\* to it: two masks that allow the same slots are equal (derive(PartialEq)).
RepresentsASet ==
  TailClear(mask) /\ CountExact(mask) /\ BlockCountsExact(mask) /\ ActiveBlocksExact(mask)

\* The iterator returns the allowed slots in ascending order, remaining
\* (ExactSizeIterator) is the number still to come, and the words do not run
\* out before they have come.
IterationExact ==
  iter.active =>
    /\ iter.remaining = mask.count - Len(iter.returned)
    /\ iter.current_word = {} /\ iter.word_idx = n_words(mask.len) => iter.remaining = 0
    /\ \A i \in DOMAIN iter.returned :
         /\ iter.returned[i] \in Chosen(mask)
         /\ {s \in Chosen(mask) : s < iter.returned[i]} = {iter.returned[j] : j \in 1..(i - 1)}

=============================================================================
