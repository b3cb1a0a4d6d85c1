----------------------------- MODULE GraphViews -----------------------------
(***************************************************************************)
(* How a memory graph is expanded from seed ids into the ids a search may  *)
(* return (turbo-graph/src/graph_memory.rs): breadth-first within a hop    *)
(* limit, or strongest path first within a budget.                         *)
(*                                                                         *)
(* A weight is the exponent of a power of one half, so that multiplying    *)
(* path weights is adding them and a stronger path has the smaller one;    *)
(* negative exponents are weights above 1.  edges is a partial function    *)
(* from <<from, to>> to weights, slot_of one from live ids to slots.       *)
(***************************************************************************)
EXTENDS Integers, FiniteSets, Sequences, Slots

CONSTANTS BLOCK,      \* slots per SIMD block
          NoParent,   \* a seed was not reached over an edge
          BadWeight   \* NaN, infinite, zero or negative

\* The ids within max_hops edges of a live seed.
Reach(edges, slot_of, seeds, max_hops) ==
  LET within[n \in Nat] ==
        IF n = 0 THEN seeds \cap DOMAIN slot_of
        ELSE LET near == within[n - 1]
             IN  near \cup {e[2] : e \in {e \in DOMAIN edges : e[1] \in near}}
  IN  within[max_hops]

-----------------------------------------------------------------------------
\* Budgeted expansion.  A key has fields seeds, max_hops, max_nodes,
\* max_active_blocks and min_weight; a queue item or visit has fields id,
\* depth, parent and weight.

\* What GraphViewPolicy can ask for, once normalize_min_path_weight has clamped it.
IsPolicyKey(key) == /\ key.seeds \subseteq Nat /\ IsFiniteSet(key.seeds)
                    /\ {key.max_hops, key.max_nodes, key.max_active_blocks, key.min_weight}
                         \subseteq Nat

BlockOf(slot) == (slot - 1) \div BLOCK

\* Mutant: weights above 1 are taken as they are.
Unclamped(w) == w

\* normalize_edge_weight: no usable edge is stronger than 1.
Normalize(w) == IF w < 0 THEN 0 ELSE w

\* Mutant: shallower first.
ShallowFirst(i, j) ==
  \/ i.depth < j.depth
  \/ i.depth = j.depth /\ i.weight < j.weight
  \/ i.depth = j.depth /\ i.weight = j.weight /\ i.id <= j.id

\* The order of the heap: stronger, then shallower, then smaller id.
PopsBefore(i, j) ==
  \/ i.weight < j.weight
  \/ i.weight = j.weight /\ i.depth < j.depth
  \/ i.weight = j.weight /\ i.depth = j.depth /\ i.id <= j.id

Seeded(slot_of, key) ==
  {[id |-> s, depth |-> 0, parent |-> NoParent, weight |-> 0] :
     s \in key.seeds \cap DOMAIN slot_of}

VisitedIds(visits) == {visits[i].id : i \in 1..Len(visits)}

\* An item is visited if it is live, new, and in a block that is in use
\* already or still within the block budget.
Admits(slot_of, key, visits, item) ==
  /\ item.id \in DOMAIN slot_of
  /\ item.id \notin VisitedIds(visits)
  /\ LET used == {BlockOf(slot_of[i]) : i \in VisitedIds(visits)}
     IN  BlockOf(slot_of[item.id]) \in used \/ Cardinality(used) < key.max_active_blocks

\* Mutant: a hop is lost.
OffersShort(edges, key, visits, item) ==
  LET usable == {e \in DOMAIN edges : e[1] = item.id /\ edges[e] # BadWeight}
      offered == {[id |-> e[2], depth |-> item.depth + 1, parent |-> item.id,
                   weight |-> item.weight + Normalize(edges[e])] : e \in usable}
  IN  IF item.depth + 1 >= key.max_hops THEN {}
      ELSE {o \in offered : /\ o.id \notin VisitedIds(visits)
                            /\ o.id # item.id
                            /\ o.weight <= key.min_weight}

\* The neighbours a visited item pushes, unless it is at the hop limit.
Offers(edges, key, visits, item) ==
  LET usable == {e \in DOMAIN edges : e[1] = item.id /\ edges[e] # BadWeight}
      offered == {[id |-> e[2], depth |-> item.depth + 1, parent |-> item.id,
                   weight |-> item.weight + Normalize(edges[e])] : e \in usable}
  IN  IF item.depth = key.max_hops THEN {}
      ELSE {o \in offered : /\ o.id \notin VisitedIds(visits)
                            /\ o.id # item.id
                            /\ o.weight <= key.min_weight}

\* Mutant: a node in a block too many ends the expansion.
TurnOrStop(edges, slot_of, key, st) ==
  LET item == CHOOSE i \in st.heap : \A j \in st.heap : PopsBefore(i, j)
      rest == st.heap \ {item}
  IN  IF Admits(slot_of, key, st.visits, item)
      THEN [heap |-> rest \cup Offers(edges, key, st.visits, item),
            visits |-> Append(st.visits, item)]
      ELSE [st EXCEPT !.heap = IF item.id \in VisitedIds(st.visits) THEN rest ELSE {}]

\* One turn of the loop: pop the best item, and visit or drop it.
Turn(edges, slot_of, key, st) ==
  LET item == CHOOSE i \in st.heap : \A j \in st.heap : PopsBefore(i, j)
      rest == st.heap \ {item}
  IN  IF Admits(slot_of, key, st.visits, item)
      THEN [heap |-> rest \cup Offers(edges, key, st.visits, item),
            visits |-> Append(st.visits, item)]
      ELSE [st EXCEPT !.heap = rest]

\* Mutant: one node more than allowed.
FinishedLate(key, st) == st.heap = {} \/ Len(st.visits) > key.max_nodes

Finished(key, st) == st.heap = {} \/ Len(st.visits) >= key.max_nodes

\* weighted_graph_visits.  Each turn pops one item, and no more are pushed
\* than there are seeds and edges.
WeightedVisits(edges, slot_of, key) ==
  LET turns[n \in Nat] ==
        IF n = 0 THEN [heap |-> Seeded(slot_of, key), visits |-> << >>]
        ELSE LET st == turns[n - 1]
             IN  IF Finished(key, st) THEN st ELSE Turn(edges, slot_of, key, st)
  IN  IF key.max_nodes = 0 \/ key.max_active_blocks = 0 THEN << >>
      ELSE turns[Cardinality(key.seeds) + Cardinality(DOMAIN edges)].visits

=============================================================================
