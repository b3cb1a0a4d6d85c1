---------------------------- MODULE MCGraphMemory ----------------------------
(***************************************************************************)
(* Instances of GraphMemory for TLC.  A behaviour is one of four sessions, *)
(* which limit what is called so that together they stay small: one for    *)
(* vectors, good and bad, one for views of a graph, one for metadata and   *)
(* its filters, one for hops and blocks on a wider graph.  The session is  *)
(* chosen at the start.                                                    *)
(***************************************************************************)
EXTENDS GraphMemory

VARIABLE session

\* Records that differ in tag, source and timestamp.
PlainRecord == [tags |-> {}, source |-> NoSource, time |-> NoTime]
PlainRecords == {PlainRecord}
FullRecord == [tags |-> {"x", "y"}, source |-> "s", time |-> 5]
EarlyRecord == [tags |-> {"x"}, source |-> "r", time |-> 4]
MixedRecords == {PlainRecord, FullRecord, EarlyRecord}

\* A chain with a way back, a shortcut and a loop; or one two-way link.
ChainCalls == {{<<1, 2>>}, {<<2, 3>>}, {<<1, 3>>, <<3, 1>>}, {<<2, 2>>}}
PairCalls == {{<<1, 2>>}, {<<1, 2>>, <<2, 1>>}}

\* Weights above 1, below 1 and unusable.
MixedWeights == {-1, 1, BadWeight}

NoViews == {}

\* Views from one seed at two depths.
SeedViews == {[seeds |-> {1}, max_hops |-> h] : h \in 1..2}
OneView == {[seeds |-> {1}, max_hops |-> 1]}

\* Budgets that bite on a chain of three: two nodes, or one block of the two
\* the slots are spread over.
Budgeted == {[seeds |-> {1}, max_hops |-> 2, max_nodes |-> 2, max_active_blocks |-> 2,
              min_weight |-> 1],
             [seeds |-> {1, 2}, max_hops |-> 1, max_nodes |-> 3, max_active_blocks |-> 1,
              min_weight |-> 1]}
OneNode == {[seeds |-> {1, 2}, max_hops |-> 1, max_nodes |-> 1, max_active_blocks |-> 1,
             min_weight |-> 1]}

\* A way from 1 to 3 that is longer and may be stronger than the edge between
\* them, and a node behind it: two hops or one block may not be enough.
DetourCalls == {{<<1, 2>>}, {<<2, 3>>}, {<<1, 3>>}, {<<3, 4>>}}
Detours == {[seeds |-> {1}, max_hops |-> 2, max_nodes |-> 4, max_active_blocks |-> 2,
             min_weight |-> 2],
            [seeds |-> {1}, max_hops |-> 3, max_nodes |-> 4, max_active_blocks |-> 1,
             min_weight |-> 2]}

\* A filter of every kind; the half-open window starts at one timestamp and
\* would include the earlier one only if it were wrong about its bounds.
NoFilters == {}
SomeFilters ==
  {[tags |-> {"x"}, sources |-> {"s", "r"}, from |-> 4, to |-> 5],
   [tags |-> {"x", "y"}, sources |-> {}, from |-> NoTime, to |-> NoTime]}

NoPolicies == {}
NoBudgets == {}

\* clear_query_caches, clear_metadata_caches, and a trim to one entry each.
SomeBudgets ==
  {[c \in CacheNames |-> IF c \in GraphCaches THEN 0 ELSE 9],
   [c \in CacheNames |-> IF c \in {"tag", "source", "time"} THEN 0 ELSE 9],
   [c \in CacheNames |-> 1]}

\* What each session may call.
Limits ==
  [vectors |->
     [ids |-> 1..3, vectors |-> {"v1", "v2", "nan"}, batch |-> 2, records |-> PlainRecords,
      links |-> PairCalls, weights |-> {0}, views |-> OneView,
      policies |-> NoPolicies, filters |-> NoFilters, budgets |-> NoBudgets],
   views |->
     [ids |-> 1..3, vectors |-> {"v1"}, batch |-> 1, records |-> PlainRecords,
      links |-> ChainCalls, weights |-> MixedWeights, views |-> SeedViews,
      policies |-> Budgeted, filters |-> NoFilters, budgets |-> SomeBudgets],
   metadata |->
     [ids |-> 1..2, vectors |-> {"v1", "nan"}, batch |-> 2, records |-> MixedRecords,
      links |-> PairCalls, weights |-> {0}, views |-> OneView,
      policies |-> OneNode, filters |-> SomeFilters, budgets |-> SomeBudgets],
   hops |->
     [ids |-> 1..4, vectors |-> {"v1"}, batch |-> 1, records |-> PlainRecords,
      links |-> DetourCalls, weights |-> {0, 1}, views |-> NoViews,
      policies |-> Detours, filters |-> NoFilters, budgets |-> NoBudgets]]

AllLinks == ChainCalls \cup PairCalls \cup DetourCalls
AllWeights == MixedWeights \cup {0}
AllPolicies == Budgeted \cup OneNode \cup Detours

MCMutation(l) ==
  \/ \E n \in 0..l.batch :
       \E ids \in [1..n -> l.ids], vs \in [1..n -> l.vectors], rs \in [1..n -> l.records] :
         AddRecords(ids, vs, rs)
  \/ \E i \in l.ids, v \in l.vectors : ReplaceEmbedding(i, v)
  \/ \E i \in l.ids, r \in l.records : ReplaceMetadata(i, r)
  \/ \E i \in l.ids : RemoveNode(i)
  \/ \E pairs \in l.links, w \in l.weights : Link(pairs, w)

MCLookups(l) ==
  \/ \E k \in l.views : GraphView(k) \/ \E f \in l.filters : MetadataPlan(k, f) \/ TraceSearch(k, f)
  \/ \E k \in l.policies : \/ PolicyView(k) \/ ExplainPolicyView(k)
                           \/ \E f \in l.filters : PolicyMetadataPlan(k, f) \/ RerankSearch(k, f)
  \/ l.filters # {} /\ \E t \in Tags : TagView(t)
  \/ l.filters # {} /\ \E s \in Sources : SourceView(s)
  \/ \E f \in l.filters : TimeView(Window(f))
  \/ \E b \in l.budgets : Trim(b)

MCInit == Init /\ session \in DOMAIN Limits
MCNext == (MCMutation(Limits[session]) \/ MCLookups(Limits[session])) /\ UNCHANGED session
MCSpec == MCInit /\ [][MCNext]_<<vars, session>>

=============================================================================
