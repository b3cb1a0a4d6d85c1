---------------------------- MODULE SearchKernel ----------------------------
(***************************************************************************)
(* One query of a masked top-k search (turbo-graph/src/search.rs, and the  *)
(* checks of search_with_slot_mask in lib.rs): the blocks a mask lists are *)
(* scanned lane by lane into a bounded heap that replaces its minimum.     *)
(* The vector kernels skip lanes by a threshold they read when they enter  *)
(* a block and do not refresh.                                             *)
(*                                                                         *)
(* The queries of a batch have heaps of their own and are scanned alike;   *)
(* one is modelled.  Its scores are given: a number per slot, above the    *)
(* score of padding.  BlockedIsCurrent of TurboQuantIndex says what they   *)
(* are the scores of.  The mask is borrowed while a search runs.           *)
(***************************************************************************)
EXTENDS SlotMask

CONSTANTS
  CHUNK,    \* lanes of one vector comparison: 8
  Scores,   \* possible scores
  Ks,       \* bound: numbers of results asked for
  Kernels   \* kernels looked at; NEON scans its scores as the scalar kernel does

ASSUME KernelConstantsOK ==
  /\ CHUNK \in Nat \ {0}
  /\ Scores \subseteq Nat /\ Ks \subseteq Nat
  /\ Kernels \subseteq {"scalar", "avx2", "avx512bw"}

VARIABLE search  \* the search that runs or returns, or NoSearch
vars == <<maskVars, search>>

NoSearch == [phase |-> "idle"]

\* What a short result is filled up with: minus infinity, slot 0.
Padding == [score |-> -1, slot |-> 0]

\* A mask that allows everything is not passed on.
is_all(m) == m.count = m.len

\* block_iter
BlockList(m) == IF is_all(m) THEN [i \in 1..n_blocks(m.len) |-> i - 1] ELSE m.active_blocks

\* heap_mi: the first place of a minimum.
MinPlace(heap) ==
  CHOOSE i \in DOMAIN heap :
    \A j \in DOMAIN heap : /\ heap[i].score <= heap[j].score
                           /\ j < i => heap[i].score < heap[j].score

\* consider, and the heap updates of the other kernels.
Considered(heap, k, hit) ==
  IF Len(heap) < k THEN Append(heap, hit)
  ELSE LET mi == MinPlace(heap)
       IN  IF hit.score > heap[mi].score THEN [heap EXCEPT ![mi] = hit] ELSE heap

BlockNow == BlockList(mask)[search.pos]
SlotNow == BlockStart(BlockNow) + search.lane

\* The threshold read on entering a block with a full heap; below every score
\* otherwise.
Threshold ==
  IF search.lane > 0 THEN search.thr
  ELSE IF Len(search.heap) = search.k THEN search.heap[MinPlace(search.heap)].score
  ELSE Padding.score

Beats(lane) == search.score[BlockStart(BlockNow) + lane] > Threshold

LanesOf(b) == 0..(BlockEnd(b, mask.len) - BlockStart(b) - 1)

\* Mutant: one lane speaks for its chunk.
FirstLaneBeats ==
  \/ search.kernel = "scalar"
  \/ Beats((search.lane \div CHUNK) * CHUNK)

\* The scalar kernel looks at each lane.  AVX2 skips a chunk none of whose lanes
\* beats the threshold; AVX-512 does so lane by lane if the block is whole.
LooksAt ==
  \/ search.kernel = "scalar"
  \/ search.kernel = "avx512bw" /\ Cardinality(LanesOf(BlockNow)) = BLOCK /\ Beats(search.lane)
  \/ /\ search.kernel = "avx512bw" => Cardinality(LanesOf(BlockNow)) < BLOCK
     /\ \E lane \in LanesOf(BlockNow) :
          lane \div CHUNK = search.lane \div CHUNK /\ Beats(lane)

\* Mutant: the mask is trusted to be one of whole blocks.
AnySlot == TRUE

\* mask_allows
MaskAllows == is_all(mask) \/ HasBit(mask.words, SlotNow)

-----------------------------------------------------------------------------

\* The kernel is the one the processor has; AVX-512 is for searches without
\* a mask, the others take AVX2.
Dispatches(kernel, m) == kernel = "avx512bw" => is_all(m)

BeginSearch(k, score, kernel) ==
  /\ Unborrowed /\ search.phase = "idle"
  /\ SmallerOf(k, mask.count) > 0
  /\ Dispatches(kernel, mask)
  /\ search' = [phase |-> "scan", k |-> SmallerOf(k, mask.count), score |-> score,
                kernel |-> kernel, pos |-> 1, lane |-> 0, thr |-> Padding.score, heap |-> << >>]
  /\ UNCHANGED maskVars

ScanLane ==
  /\ search.phase = "scan" /\ search.pos <= Len(BlockList(mask))
  /\ LET hit == [score |-> search.score[SlotNow], slot |-> SlotNow]
         more == search.lane + 1 \in LanesOf(BlockNow)
     IN  search' = [search EXCEPT
           !.thr = Threshold,
           !.heap = IF LooksAt /\ MaskAllows THEN Considered(@, search.k, hit) ELSE @,
           !.lane = IF more THEN @ + 1 ELSE 0,
           !.pos = IF more THEN @ ELSE @ + 1]
  /\ UNCHANGED maskVars

\* An unstable sort by descending score, padded to k.
Sorted(heap) ==
  {hits \in [DOMAIN heap -> {heap[i] : i \in DOMAIN heap}] :
     /\ \A i \in DOMAIN heap : \E j \in DOMAIN heap : hits[j] = heap[i]
     /\ \A i, j \in DOMAIN heap : i < j => hits[i].score >= hits[j].score}

FinishSearch ==
  /\ search.phase = "scan" /\ search.pos > Len(BlockList(mask))
  /\ \E hits \in Sorted(search.heap) :
       search' = [search EXCEPT
         !.phase = "done",
         !.heap = [i \in 1..search.k |-> IF i \in DOMAIN hits THEN hits[i] ELSE Padding]]
  /\ UNCHANGED maskVars

Return == search.phase = "done" /\ search' = NoSearch /\ UNCHANGED maskVars

-----------------------------------------------------------------------------

Init == MaskInit /\ search = NoSearch

Next ==
  \/ search.phase = "idle" /\ MaskNext /\ UNCHANGED search
  \/ \E k \in Ks, kernel \in Kernels, score \in [Slots(mask) -> Scores] :
       BeginSearch(k, score, kernel)
  \/ ScanLane \/ FinishSearch \/ Return

Spec == Init /\ [][Next]_vars

-----------------------------------------------------------------------------
\* Properties.

TypeOK ==
  /\ MaskTypeOK
  /\ search.phase \in {"idle", "scan", "done"}
  /\ search.phase # "idle" =>
       /\ search.k \in 1..mask.count
       /\ search.heap \in Seq([score : Scores, slot : Slots(mask)])
       /\ search.lane \in 0..(BLOCK - 1)

HitSlots == {search.heap[i].slot : i \in DOMAIN search.heap}

\* A search returns as many hits as it can, all allowed and all different,
\* and never the padding.
HitsAllowed ==
  search.phase = "done" =>
    /\ HitSlots \subseteq Chosen(mask)
    /\ Cardinality(HitSlots) = search.k

\* No allowed slot that was left out scores higher than one that was returned,
\* whichever kernel skipped which lanes, and the hits come best first.
HitsAreBest ==
  search.phase = "done" =>
    /\ \A s \in Chosen(mask) \ HitSlots : \A i \in DOMAIN search.heap :
         search.score[s] <= search.heap[i].score
    /\ \A i, j \in DOMAIN search.heap : i < j => search.heap[i].score >= search.heap[j].score

\* A search answers with the best of the allowed slots.
SearchIsExact == HitsAllowed /\ HitsAreBest

=============================================================================
