--------------------------- MODULE MCGraphSession ---------------------------
(***************************************************************************)
(* An instance of GraphSession for TLC: a seed and a chain of two nodes it *)
(* may be linked to.                                                       *)
(***************************************************************************)
EXTENDS GraphSession

PlainRecord == [tags |-> {}, source |-> NoSource, time |-> NoTime]
TaggedRecord == [tags |-> {"x"}, source |-> NoSource, time |-> NoTime]
BothRecords == {PlainRecord, TaggedRecord}
ChainCalls == {{<<1, 2>>}, {<<2, 3>>}}

\* Saves pair any two memories with a third, so theirs are the smallest.
SomeUses ==
  [views |-> [ids |-> 1..3, records |-> BothRecords, nodes |-> 3],
   policies |-> [ids |-> 1..2, records |-> BothRecords, nodes |-> 2],
   prepare |-> [ids |-> 1..3, records |-> BothRecords, nodes |-> 2],
   save |-> [ids |-> 1..2, records |-> {TaggedRecord}, nodes |-> 2]]

OneView == {[seeds |-> {1}, max_hops |-> 2]}
OnePolicy == {[seeds |-> {1}, max_hops |-> 2, max_nodes |-> 2, max_active_blocks |-> 2,
               min_weight |-> 1]}
TagFilter == {[tags |-> {"x"}, sources |-> {}, from |-> NoTime, to |-> NoTime]}
NoFilter == {Unfiltered}

\* A trim that leaves only plans; a changed record leaves the reverse.
KeepPlans == {[c \in CacheNames |-> IF c \in {"combined", "combined_policy"} THEN 9 ELSE 0]}

OneQuery == {[v \in Vectors |-> IF v = "near" THEN 8 ELSE 4]}

\* Weights that let a linked node outrank a nearer one, normalizations, and a
\* configuration with nothing to spare.
Plain == [vector_weight |-> 1, graph_weight |-> 0, candidate_weight |-> 0,
          normalization |-> "none", prefetch_factor |-> 0, min_prefetch |-> 0]
SomeBlends ==
  {[Plain EXCEPT !.vector_weight = NotFinite, !.graph_weight = 3, !.candidate_weight = 2,
                 !.normalization = "min_max", !.prefetch_factor = 2],
   [Plain EXCEPT !.graph_weight = NotFinite, !.candidate_weight = 3,
                 !.normalization = "max_abs", !.min_prefetch = 4]}

\* A duplicate with a worse score, an id that may be missing, a score that is
\* not finite.
SomeLists ==
  {<<[id |-> 1, score |-> 2], [id |-> 3, score |-> 10], [id |-> 1, score |-> -1],
     [id |-> 2, score |-> 6]>>,
   <<[id |-> 2, score |-> NotFinite], [id |-> 3, score |-> 4]>>}

\* A preset that asks for nothing.
EmptyPreset == {[seeds |-> {1, 2}, max_hops |-> 0, min_weight |-> 0, target_active_blocks |-> 0,
                 nodes_per_active_block |-> 0, blend |-> Plain]}

\* A pair of files of version 1.
OldContents == [shape |-> "a", slot_to_id |-> <<2>>, nodes |-> [i \in {2} |-> <<"far", [tags |-> {"x"}]>>], edges |-> EmptyFn]
OldPair == {[index_file |-> [shape |-> "a", rows |-> <<"far">>, wrote |-> OldContents],
             sidecar |-> [version |-> 1, shape |-> "a", slot_to_id |-> <<2>>,
                          records |-> [i \in {2} |-> [tags |-> {"x"}]], edges |-> EmptyFn,
                          wrote |-> OldContents]]}

=============================================================================
