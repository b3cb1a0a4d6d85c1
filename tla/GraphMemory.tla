----------------------------- MODULE GraphMemory -----------------------------
(***************************************************************************)
(* The graph memory (turbo-graph/src/graph_memory.rs, GraphMemoryIndex):   *)
(* records and edges beside the positional index, three metadata indexes,  *)
(* and eight caches of compiled slot masks.  Every operation takes         *)
(* &mut self, so operations are atomic; what can go wrong is what one of   *)
(* them forgets to move, unindex or invalidate for the next.               *)
(*                                                                         *)
(* Abstractions.  The inner index is the array of its vectors (module      *)
(* TurboQuantIndex has the rest of it).  A mask is its length and its set  *)
(* of slots.  The metadata indexes are sets where the code keeps sorted or *)
(* insertion-ordered vectors: only membership reaches a mask.  Counters of *)
(* cache hits, titles and scoring are left out.                            *)
(***************************************************************************)
EXTENDS GraphViews

CONSTANTS
  Ids,           \* memory ids
  Vectors, BadVectors,
  Tags, Sources, NoSource, NoTime,
  Metadata,      \* records a caller may store: [tags, source, time]
  Weights,       \* weights a caller may give an edge
  LinkCalls,     \* edges one call sets: one, or both directions of a pair
  MaxBatch,      \* bound: records per add_records call
  ViewKeys,      \* [seeds, max_hops]
  PolicyKeys,    \* [seeds, max_hops, max_nodes, max_active_blocks, min_weight]
  Filters,       \* [tags, sources, from, to]
  Budgets        \* by cache name: entries that survive a trim

ASSUME GraphConstantsOK ==
  /\ Ids \subseteq Nat /\ NoParent \notin Nat
  /\ BLOCK \in Nat \ {0}
  /\ BadVectors \subseteq Vectors
  /\ MaxBatch \in Nat
  /\ Metadata \subseteq [tags : SUBSET Tags, source : Sources \cup {NoSource},
                         time : Int \cup {NoTime}]
  /\ LinkCalls \subseteq SUBSET (Ids \X Ids)
  /\ \A pairs \in LinkCalls : IsFiniteSet(pairs)
  /\ Weights \subseteq Int \cup {BadWeight} /\ BadWeight \notin Int
  /\ NoSource \notin Sources /\ NoTime \notin Int
  /\ ViewKeys \subseteq [seeds : SUBSET Nat, max_hops : Nat]
  /\ \A k \in PolicyKeys : IsPolicyKey(k)
  /\ Filters \subseteq [tags : SUBSET Tags, sources : SUBSET Sources,
                        from : Int \cup {NoTime}, to : Int \cup {NoTime}]

VARIABLES
  rows,            \* index: the vector in each slot
  slot_to_id,      \* the id in each slot
  id_to_slot,      \* partial function from ids to slots
  records,         \* partial function from ids to metadata
  edges,           \* partial function from <<from, to>> to weights
  tag_to_ids,      \* ids that carry each tag
  source_to_ids,   \* ids of each source
  time_index,      \* pairs <<timestamp, id>>
  caches           \* by cache name: partial function from keys

nodes == <<rows, slot_to_id, id_to_slot>>
metadata == <<records, tag_to_ids, source_to_ids, time_index>>
vars == <<nodes, metadata, edges, caches>>

Live == DOMAIN id_to_slot

CacheNames == {"view", "policy_visit", "policy_view", "combined", "combined_policy",
               "tag", "source", "time"}

\* Mutants: an invalidation that forgets one cache.
GraphCachesButView == {"policy_visit", "policy_view", "combined", "combined_policy"}
GraphCachesButVisits == {"view", "policy_view", "combined", "combined_policy"}
MetadataCachesButSource == {"tag", "time", "combined", "combined_policy"}
MetadataCachesButPlans == {"tag", "source", "time", "combined_policy"}

\* Caches of expansions of the graph, and those that depend on metadata.
GraphCaches == {"view", "policy_visit", "policy_view", "combined", "combined_policy"}
MetadataCaches == {"tag", "source", "time", "combined", "combined_policy"}

EmptyFn == [x \in {} |-> NoParent]

\* The caches once those of the given names are cleared.
Clear(names) == [c \in CacheNames |-> IF c \in names THEN EmptyFn ELSE caches[c]]

-----------------------------------------------------------------------------
\* Masks, as the code computes them on a cache miss.

MaskOf(ids) == [len |-> Len(slot_to_id), slots |-> {id_to_slot[i] : i \in ids \cap Live}]

ViewMask(k) == MaskOf(Reach(edges, id_to_slot, k.seeds, k.max_hops))
Visits(k) == WeightedVisits(edges, id_to_slot, k)
TagMask(t) == MaskOf(tag_to_ids[t])
SourceMask(s) == MaskOf(source_to_ids[s])

\* A half-open window; without a bound on one side every timestamp passes.
InWindow(t, w) == /\ w.from = NoTime \/ t >= w.from
                  /\ w.to = NoTime \/ t < w.to
TimeMask(w) == MaskOf({e[2] : e \in {e \in time_index : InWindow(e[1], w)}})

\* The cached value of a key, or the one that is computed and then cached.
Lookup(c, k, computed) == IF k \in DOMAIN caches[c] THEN caches[c][k] ELSE computed

Fill(c, k, value) ==
  [x \in DOMAIN caches[c] \cup {k} |-> IF x \in DOMAIN caches[c] THEN caches[c][x] ELSE value]

-----------------------------------------------------------------------------
\* Metadata indexes.

IndexTags(index, i, r) == [t \in Tags |-> IF t \in r.tags THEN index[t] \cup {i} ELSE index[t]]

\* Mutants: the old tags stay behind; a record without a timestamp is listed.
KeepTags(index, i, r) == index
TimeEntryAlways(i, r) == {<<r.time, i>>}

UnindexTags(index, i, r) == [t \in Tags |-> IF t \in r.tags THEN index[t] \ {i} ELSE index[t]]
IndexSource(index, i, r) == [s \in Sources |-> IF s = r.source THEN index[s] \cup {i} ELSE index[s]]
UnindexSource(index, i, r) == [s \in Sources |-> IF s = r.source THEN index[s] \ {i} ELSE index[s]]
TimeEntry(i, r) == IF r.time = NoTime THEN {} ELSE {<<r.time, i>>}

-----------------------------------------------------------------------------
\* Mutations.

\* add_records: ids are checked against the memory and each other, then the
\* index accepts or refuses the vectors, then the sidecars follow.  An empty
\* batch stores nothing but clears the caches.
AddRecords(ids, vs, rs) ==
  LET base == Len(slot_to_id)
      new == Elements(ids)
      of(i) == rs[PositionIn(ids, i)]
  IN  /\ Len(vs) = Len(ids) /\ Len(rs) = Len(ids)
      /\ new \cap Live = {} /\ IsDistinct(ids)
      /\ Elements(vs) \cap BadVectors = {}
      /\ rows' = rows \o vs
      /\ slot_to_id' = slot_to_id \o ids
      /\ id_to_slot' = [i \in Live \cup new |->
                          IF i \in new THEN base + PositionIn(ids, i) ELSE id_to_slot[i]]
      /\ records' = [i \in DOMAIN records \cup new |->
                       IF i \in new THEN of(i) ELSE records[i]]
      /\ tag_to_ids' = [t \in Tags |-> tag_to_ids[t] \cup {i \in new : t \in of(i).tags}]
      /\ source_to_ids' = [s \in Sources |->
                             source_to_ids[s] \cup {i \in new : s = of(i).source}]
      /\ time_index' = time_index \cup UNION {TimeEntry(i, of(i)) : i \in new}
      /\ caches' = Clear(CacheNames)
      /\ UNCHANGED edges

\* Mutant: the old vector is taken out with Vec::remove, which shifts.
ReplaceShifting(i, v) ==
  /\ i \in Live /\ v \notin BadVectors
  /\ LET s == id_to_slot[i]
     IN  rows' = SubSeq(rows, 1, s - 1) \o SubSeq(rows, s + 1, Len(rows)) \o <<v>>
  /\ UNCHANGED <<slot_to_id, id_to_slot, metadata, edges, caches>>

\* Mutant: the node is removed and added again, so it and the last one move.
ReplaceAtEnd(i, v) ==
  /\ i \in Live /\ v \notin BadVectors
  /\ rows' = Append(SwapRemove(rows, id_to_slot[i]), v)
  /\ slot_to_id' = Append(SwapRemove(slot_to_id, id_to_slot[i]), i)
  /\ id_to_slot' = [j \in Live |-> PositionIn(slot_to_id', j)]
  /\ UNCHANGED <<metadata, edges, caches>>

\* replace_embedding: the new vector is appended and swap_remove moves it
\* into the old slot; nothing else changes, no cache is cleared.
ReplaceEmbedding(i, v) ==
  /\ i \in Live
  /\ v \notin BadVectors
  /\ rows' = SwapRemove(Append(rows, v), id_to_slot[i])
  /\ UNCHANGED <<slot_to_id, id_to_slot, metadata, edges, caches>>

\* replace_record_metadata: the old record leaves the indexes before the new
\* one enters them; views of the graph alone stay cached.
ReplaceMetadata(i, r) ==
  /\ i \in Live
  /\ LET old == records[i]
     IN  /\ tag_to_ids' = IndexTags(UnindexTags(tag_to_ids, i, old), i, r)
         /\ source_to_ids' = IndexSource(UnindexSource(source_to_ids, i, old), i, r)
         /\ time_index' = (time_index \ TimeEntry(i, old)) \cup TimeEntry(i, r)
  /\ records' = [records EXCEPT ![i] = r]
  /\ caches' = Clear(MetadataCaches)
  /\ UNCHANGED <<nodes, edges>>

\* Mutant: edges that lead to the node stay.
EdgesNotFrom(i) == [e \in {e \in DOMAIN edges : e[1] # i} |-> edges[e]]

EdgesWithout(i) == [e \in {e \in DOMAIN edges : e[1] # i /\ e[2] # i} |-> edges[e]]

\* remove_node: the last slot moves into the hole, and the id leaves every
\* table, index and edge.
RemoveNode(i) ==
  /\ i \in Live
  /\ LET slot == id_to_slot[i]
         last == Len(slot_to_id)
         old == records[i]
     IN  /\ rows' = SwapRemove(rows, slot)
         /\ slot_to_id' = SwapRemove(slot_to_id, slot)
         /\ id_to_slot' = [j \in Live \ {i} |->
                             IF slot # last /\ j = slot_to_id[last] THEN slot
                             ELSE id_to_slot[j]]
         /\ tag_to_ids' = UnindexTags(tag_to_ids, i, old)
         /\ source_to_ids' = UnindexSource(source_to_ids, i, old)
         /\ time_index' = time_index \ TimeEntry(i, old)
  /\ records' = [j \in DOMAIN records \ {i} |-> records[j]]
  /\ edges' = EdgesWithout(i)
  /\ caches' = Clear(CacheNames)

\* Mutant: only the source of the edge is checked.
LinkUncheckedTarget(pairs, w) ==
  /\ \A e \in pairs : e[1] \in Live
  /\ edges' = [e \in DOMAIN edges \cup pairs |-> IF e \in pairs THEN w ELSE edges[e]]
  /\ caches' = Clear(GraphCaches)
  /\ UNCHANGED <<nodes, metadata>>

\* link_directed and link_bidirectional: both ends must exist; linking again
\* replaces the weight.
Link(pairs, w) ==
  /\ \A e \in pairs : e[1] \in Live /\ e[2] \in Live
  /\ edges' = [e \in DOMAIN edges \cup pairs |-> IF e \in pairs THEN w ELSE edges[e]]
  /\ caches' = Clear(GraphCaches)
  /\ UNCHANGED <<nodes, metadata>>

-----------------------------------------------------------------------------
\* Queries.  Each returns a mask and leaves it in a cache.

Query(updated) == /\ caches' = [c \in CacheNames |->
                                  IF c \in DOMAIN updated THEN updated[c] ELSE caches[c]]
                  /\ UNCHANGED <<nodes, metadata, edges>>

\* graph_view_mask_with_stats
ViewOf(k) == Lookup("view", k, ViewMask(k))
GraphView(k) == Query([view |-> Fill("view", k, ViewOf(k))])

\* policy_visits, graph_view_mask_with_policy_stats
VisitsOf(k) == Lookup("policy_visit", k, Visits(k))
PolicyViewOf(k) == Lookup("policy_view", k, MaskOf(VisitedIds(VisitsOf(k))))
VisitsNeeded(k) == IF k \in DOMAIN caches["policy_view"] THEN caches["policy_visit"]
                   ELSE Fill("policy_visit", k, VisitsOf(k))

PolicyView(k) ==
  Query([policy_view |-> Fill("policy_view", k, PolicyViewOf(k)),
         policy_visit |-> VisitsNeeded(k)])

\* explain_graph_view_with_policy and prepare_graph_view_with_policy need
\* the visits even when the mask was cached.
ExplainPolicyView(k) ==
  Query([policy_view |-> Fill("policy_view", k, PolicyViewOf(k)),
         policy_visit |-> Fill("policy_visit", k, VisitsOf(k))])

TagOf(t) == Lookup("tag", t, TagMask(t))
SourceOf(s) == Lookup("source", s, SourceMask(s))
Window(f) == [from |-> f.from, to |-> f.to]
TimeOf(w) == Lookup("time", w, TimeMask(w))
Bounded(w) == w.from # NoTime \/ w.to # NoTime

TagView(t) == Query([tag |-> Fill("tag", t, TagOf(t))])
SourceView(s) == Query([source |-> Fill("source", s, SourceOf(s))])
TimeView(w) == Query([time |-> Fill("time", w, TimeOf(w))])

\* apply_metadata_filters: all tags, any of the sources, within the window.
Filtered(mask, f) ==
  [mask EXCEPT !.slots =
     {s \in @ : /\ \A t \in f.tags : s \in TagOf(t).slots
                /\ f.sources = {} \/ \E src \in f.sources : s \in SourceOf(src).slots
                /\ Bounded(Window(f)) => s \in TimeOf(Window(f)).slots}]

\* The metadata caches after the filters were applied.
FilterFills(f) ==
  [tag |-> [t \in DOMAIN caches["tag"] \cup f.tags |-> TagOf(t)],
   source |-> [s \in DOMAIN caches["source"] \cup f.sources |-> SourceOf(s)],
   time |-> IF Bounded(Window(f)) THEN Fill("time", Window(f), TimeOf(Window(f)))
            ELSE caches["time"]]

CachedPlan(mask, f) == [mask |-> Filtered(mask, f), graph_slots |-> Cardinality(mask.slots)]

\* graph_view_mask_with_metadata_plan: a combined hit touches nothing else.
MetadataPlan(k, f) ==
  /\ <<k, f>> \notin DOMAIN caches["combined"]
  /\ LET fills == FilterFills(f)
     IN  Query([view |-> Fill("view", k, ViewOf(k)),
                tag |-> fills.tag, source |-> fills.source, time |-> fills.time,
                combined |-> Fill("combined", <<k, f>>, CachedPlan(ViewOf(k), f))])

\* graph_view_mask_with_policy_metadata_plan, when it is not cached.
NewPolicyPlan(k, f, visits) ==
  /\ <<k, f>> \notin DOMAIN caches["combined_policy"]
  /\ LET fills == FilterFills(f)
     IN  Query([policy_view |-> Fill("policy_view", k, PolicyViewOf(k)),
                policy_visit |-> visits,
                tag |-> fills.tag, source |-> fills.source, time |-> fills.time,
                combined_policy |-> Fill("combined_policy", <<k, f>>,
                                         CachedPlan(PolicyViewOf(k), f))])

PolicyMetadataPlan(k, f) == NewPolicyPlan(k, f, VisitsNeeded(k))

\* The rerank and hybrid searches, and prepare_graph_view_with_policy_metadata,
\* score hits by the visits and so need them even when the plan was cached.
RerankSearch(k, f) ==
  LET visits == Fill("policy_visit", k, VisitsOf(k))
  IN  \/ NewPolicyPlan(k, f, visits)
      \/ /\ <<k, f>> \in DOMAIN caches["combined_policy"]
         /\ Query([policy_visit |-> visits])

\* search_graph_view_with_trace and its metadata variant filter the traced
\* view without looking for a plan or leaving one.
TraceSearch(k, f) ==
  LET fills == FilterFills(f)
  IN  Query([view |-> Fill("view", k, ViewOf(k)),
             tag |-> fills.tag, source |-> fills.source, time |-> fills.time])

\* clear_*_caches and trim_*_caches: each cache with more entries than its
\* budget keeps that many.  Which ones is up to the debug order of the keys.
Survivors(c, budget) ==
  IF Cardinality(DOMAIN caches[c]) <= budget THEN DOMAIN caches[c]
  ELSE CHOOSE K \in SUBSET DOMAIN caches[c] : Cardinality(K) = budget

Trim(budgets) ==
  /\ caches' = [c \in CacheNames |->
                  [k \in DOMAIN caches[c] \cap Survivors(c, budgets[c]) |-> caches[c][k]]]
  /\ UNCHANGED <<nodes, metadata, edges>>

-----------------------------------------------------------------------------

Init ==
  /\ rows = << >> /\ slot_to_id = << >> /\ id_to_slot = EmptyFn
  /\ records = EmptyFn /\ edges = EmptyFn
  /\ tag_to_ids = [t \in Tags |-> {}] /\ source_to_ids = [s \in Sources |-> {}]
  /\ time_index = {}
  /\ caches = [c \in CacheNames |-> EmptyFn]

Mutation ==
  \/ \E n \in 0..MaxBatch :
       \E ids \in [1..n -> Ids], vs \in [1..n -> Vectors], rs \in [1..n -> Metadata] :
         AddRecords(ids, vs, rs)
  \/ \E i \in Ids, v \in Vectors : ReplaceEmbedding(i, v)
  \/ \E i \in Ids, r \in Metadata : ReplaceMetadata(i, r)
  \/ \E i \in Ids : RemoveNode(i)
  \/ \E pairs \in LinkCalls, w \in Weights : Link(pairs, w)

Lookups ==
  \/ \E k \in ViewKeys : GraphView(k) \/ \E f \in Filters : MetadataPlan(k, f) \/ TraceSearch(k, f)
  \/ \E k \in PolicyKeys : \/ PolicyView(k) \/ ExplainPolicyView(k)
                           \/ \E f \in Filters : PolicyMetadataPlan(k, f) \/ RerankSearch(k, f)
  \/ \E t \in Tags : TagView(t)
  \/ \E s \in Sources : SourceView(s)
  \/ \E f \in Filters : TimeView(Window(f))
  \/ \E b \in Budgets : Trim(b)

Next == Mutation \/ Lookups

Spec == Init /\ [][Next]_vars

-----------------------------------------------------------------------------
\* Properties.

Keys(c) ==
  IF c = "view" THEN ViewKeys
  ELSE IF c \in {"policy_visit", "policy_view"} THEN PolicyKeys
  ELSE IF c = "combined" THEN ViewKeys \X Filters
  ELSE IF c = "combined_policy" THEN PolicyKeys \X Filters
  ELSE IF c = "tag" THEN Tags
  ELSE IF c = "source" THEN Sources
  ELSE {Window(f) : f \in Filters}

TypeOK ==
  /\ rows \in Seq(Vectors)
  /\ slot_to_id \in Seq(Ids)
  /\ Live \subseteq Ids /\ id_to_slot \in [Live -> Nat]
  /\ DOMAIN records \subseteq Ids /\ records \in [DOMAIN records -> Metadata]
  /\ DOMAIN edges \subseteq Ids \X Ids /\ edges \in [DOMAIN edges -> Weights]
  /\ tag_to_ids \in [Tags -> SUBSET Ids]
  /\ source_to_ids \in [Sources -> SUBSET Ids]
  /\ time_index \subseteq Int \X Ids
  /\ DOMAIN caches = CacheNames
  /\ \A c \in CacheNames : DOMAIN caches[c] \subseteq Keys(c)

\* Index, slot tables and records describe the same nodes in the same slots,
\* after any mix of adds, removals and replacements.
NodesAligned ==
  /\ Len(rows) = Len(slot_to_id)
  /\ Live = Elements(slot_to_id)
  /\ \A s \in 1..Len(slot_to_id) : id_to_slot[slot_to_id[s]] = s
  /\ DOMAIN records = Live

\* Removing a node leaves no edge to or from it behind, so an id that is
\* added again starts unlinked.
EdgesLive == \A e \in DOMAIN edges : e[1] \in Live /\ e[2] \in Live

\* The three metadata indexes say what the records say: no removed node or
\* old tag lingers, none is missing.
RecordsIndexed ==
  /\ \A t \in Tags : tag_to_ids[t] = {i \in Live : t \in records[i].tags}
  /\ \A s \in Sources : source_to_ids[s] = {i \in Live : records[i].source = s}
  /\ time_index = {<<records[i].time, i>> : i \in {i \in Live : records[i].time # NoTime}}

\* Slots, records, edges and metadata indexes agree in every state, also in the
\* one that load puts together from two files.
MemorySound == NodesAligned /\ EdgesLive /\ RecordsIndexed

\* The ids a mask selects, and that it fits the index it will be used on.
Selects(mask, ids) == /\ mask.len = Len(rows)
                      /\ mask.slots \subseteq 1..Len(slot_to_id)
                      /\ {slot_to_id[s] : s \in mask.slots} = ids

\* Reference: the ids at the end of a path from a seed.
Connected(k) ==
  {i \in Live : \E n \in 0..k.max_hops : \E p \in [0..n -> Live] :
     /\ p[0] \in k.seeds /\ p[n] = i
     /\ \A j \in 0..(n - 1) : <<p[j], p[j + 1]>> \in DOMAIN edges}

\* Reference: the records a filter lets through.
Matches(r, f) ==
  /\ f.tags \subseteq r.tags
  /\ f.sources # {} => r.source \in f.sources
  /\ Bounded(Window(f)) => r.time # NoTime /\ InWindow(r.time, f)

\* A cached graph view selects exactly the ids within its hops today,
\* whatever was linked, removed, re-added or moved since it was compiled.
ViewsCurrent ==
  \A k \in DOMAIN caches["view"] : Selects(caches["view"][k], Connected(k))

\* Cached policy visits and the mask built from them are those of today's
\* graph and slots, though each has a cache of its own.
PolicyViewsCurrent ==
  /\ \A k \in DOMAIN caches["policy_visit"] : caches["policy_visit"][k] = Visits(k)
  /\ \A k \in DOMAIN caches["policy_view"] :
       Selects(caches["policy_view"][k], VisitedIds(Visits(k)))

\* Cached tag, source and time masks select the nodes whose record says so.
MetadataMasksCurrent ==
  /\ \A t \in DOMAIN caches["tag"] :
       Selects(caches["tag"][t], {i \in Live : t \in records[i].tags})
  /\ \A s \in DOMAIN caches["source"] :
       Selects(caches["source"][s], {i \in Live : records[i].source = s})
  /\ \A w \in DOMAIN caches["time"] :
       Selects(caches["time"][w],
               {i \in Live : records[i].time # NoTime /\ InWindow(records[i].time, w)})

\* A cached plan is what filtering today's view by today's records gives,
\* and reports that view's size, although view, tags, source, time and plan
\* are cached, trimmed and invalidated separately.
PlansCurrent ==
  /\ \A kf \in DOMAIN caches["combined"] :
       LET plan == caches["combined"][kf]
           ids == Connected(kf[1])
       IN  /\ Selects(plan.mask, {i \in ids : Matches(records[i], kf[2])})
           /\ plan.graph_slots = Cardinality(ids)
  /\ \A kf \in DOMAIN caches["combined_policy"] :
       LET plan == caches["combined_policy"][kf]
           ids == VisitedIds(Visits(kf[1]))
       IN  /\ Selects(plan.mask, {i \in ids : Matches(records[i], kf[2])})
           /\ plan.graph_slots = Cardinality(ids)

\* Budgeted expansion visits in order of strength: no path gains by another
\* edge.  That orders what is visited, and says nothing of what a budget leaves
\* out: see BudgetsAccounted.
VisitsStrongestFirst ==
  \A k \in PolicyKeys : LET visits == Visits(k)
                        IN  \A m, n \in DOMAIN visits : m < n => visits[m].weight <= visits[n].weight

BlocksOf(visits) == {BlockOf(id_to_slot[i]) : i \in VisitedIds(visits)}

WithinBudgets(k, visits) ==
  /\ Len(visits) <= k.max_nodes /\ Cardinality(BlocksOf(visits)) <= k.max_active_blocks
  /\ \A n \in DOMAIN visits : visits[n].depth <= k.max_hops /\ visits[n].weight <= k.min_weight

\* What became of an id that was queued with weight w: it is visited, no
\* weaker; or all the nodes allowed are visited, none of them weaker; or its
\* block is not in use and all the blocks allowed were opened by nodes that are
\* no weaker, the only case in which weaker nodes may be visited in its stead.
Accounted(k, visits, i, w) ==
  \/ \E n \in DOMAIN visits : visits[n].id = i /\ visits[n].weight <= w
  \/ Len(visits) = k.max_nodes /\ \A n \in DOMAIN visits : visits[n].weight <= w
  \/ /\ Cardinality(BlocksOf(visits)) = k.max_active_blocks
     /\ BlockOf(id_to_slot[i]) \notin BlocksOf(visits)
     /\ \A b \in BlocksOf(visits) :
          \E n \in DOMAIN visits : BlockOf(id_to_slot[visits[n].id]) = b /\ visits[n].weight <= w

\* No budget is overdrawn, and none is wasted: every live seed, and every
\* usable edge from a visit that had a hop left and a path strong enough, led to
\* a visit or to a node that the node or block budget had no room for.  Hops are
\* counted along the path a node was settled on, the strongest, so a longer path
\* may use up the hops of a shorter and weaker one to the same node.
BudgetsAccounted ==
  \A k \in PolicyKeys :
    LET visits == Visits(k)
    IN  /\ WithinBudgets(k, visits)
        /\ \A s \in k.seeds \cap Live : Accounted(k, visits, s, 0)
        /\ \A n \in DOMAIN visits :
             visits[n].depth < k.max_hops =>
               \A e \in {e \in DOMAIN edges : e[1] = visits[n].id /\ edges[e] # BadWeight} :
                 LET w == visits[n].weight + Normalize(edges[e])
                 IN  w <= k.min_weight => Accounted(k, visits, e[2], w)

\* Reference: the weights of all walks from an id, of at most as many edges as
\* there are nodes.
WalkWeights(from) ==
  LET upto[n \in Nat] ==
        IF n = 0 THEN [i \in Live |-> IF i = from THEN {0} ELSE {}]
        ELSE [i \in Live |-> upto[n - 1][i] \cup
                UNION {{w + Normalize(edges[e]) : w \in upto[n - 1][e[1]]} :
                         e \in {e \in DOMAIN edges : e[2] = i /\ edges[e] # BadWeight}}]
  IN  upto[Cardinality(Live)]

\* Without budgets, every node that a strong enough walk reaches is visited,
\* along a strongest one, although a node is settled when it is first popped.
StrongestPathsFound ==
  \A i \in Live, m \in {k.min_weight : k \in PolicyKeys} :
    LET walks == WalkWeights(i)
        visits == Visits([seeds |-> {i}, max_hops |-> Cardinality(Live), min_weight |-> m,
                          max_nodes |-> Cardinality(Live), max_active_blocks |-> Cardinality(Live)])
    IN  /\ VisitedIds(visits) = {j \in Live : \E w \in walks[j] : w <= m}
        /\ \A n \in DOMAIN visits : /\ visits[n].weight \in walks[visits[n].id]
                                   /\ \A w \in walks[visits[n].id] : visits[n].weight <= w

\* Best-first expansion is what its name says, with budgets and without: it
\* visits in order of strength, gives each node its strongest path, and leaves
\* out only what a budget that is used up has no room for.
BestFirst == VisitsStrongestFirst /\ BudgetsAccounted /\ StrongestPathsFound

Embeddings == [i \in Live |-> rows[id_to_slot[i]]]
Store == INSTANCE VectorStore WITH store <- Embeddings, saved <- NoTime, NoSaved <- NoTime

\* To its callers the memory is a map from ids to embeddings: replacing one
\* in place, or moving rows on removal, never gives an id another's vector.
ImplementsVectorStore == Store!Spec

=============================================================================
