----------------------------- MODULE GraphSearch -----------------------------
(***************************************************************************)
(* Searches of the graph memory (turbo-graph/src/graph_memory.rs): a plan  *)
(* compiles a mask, candidates from outside narrow it, the index returns   *)
(* the best slots under it, and vector, graph and candidate scores are     *)
(* blended into a ranking.  Mask, visits and plan of one search come from  *)
(* caches of their own.  A prepared view is a mask a caller keeps.         *)
(*                                                                         *)
(* Abstractions.  Scores are integers: a path of weight 1 scores Unit.  A  *)
(* query is the score it gives each vector.  The index returns some best   *)
(* slots (HitsAreBest of SearchKernel).  The rows of a batch are searched  *)
(* alike; one is modelled.  Timings, cache-hit flags and copied record     *)
(* fields are left out of reports.                                         *)
(***************************************************************************)
EXTENDS GraphMemory, FiniteSetsExt

CONSTANTS
  Unit,            \* the score of a path of weight 1
  NotFinite,       \* NaN or an infinity, as a weight or a candidate score
  AnyIds,          \* no candidate list was given
  Queries,         \* bound: functions from Vectors to scores
  Ks,              \* bound: numbers of hits asked for
  Blends,          \* rerank configurations
  CandidateLists,  \* bound: sequences of [id, score]
  Presets,         \* search presets with the seeds they are used on
  NoView, NoAnswer

\* f32 weights and scores; a configuration of GraphRerankConfig or its hybrid form.
Floats == Int \cup {NotFinite}
BlendConfigs == [vector_weight : Floats, graph_weight : Floats, candidate_weight : Floats,
                 normalization : {"none", "min_max", "max_abs"},
                 prefetch_factor : Nat, min_prefetch : Nat]

\* A view under a GraphViewPolicy, as a caller or a preset asks for it.
PolicyViews == [seeds : SUBSET Nat, max_hops : Nat, max_nodes : Nat,
                max_active_blocks : Nat, min_weight : Nat]

ASSUME SearchConstantsOK ==
  /\ Unit \in Nat \ {0} /\ Ks \subseteq Nat
  /\ Queries \subseteq [Vectors -> Int]
  /\ NotFinite \notin Int /\ Blends \subseteq BlendConfigs
  /\ CandidateLists \subseteq Seq([id : Nat, score : Floats])
  /\ AnyIds \notin Seq([id : Nat, score : Floats])
  /\ \A p \in Presets :
       /\ p.seeds \subseteq Nat /\ IsFiniteSet(p.seeds) /\ p.blend \in BlendConfigs
       /\ {p.max_hops, p.min_weight, p.target_active_blocks, p.nodes_per_active_block}
            \subseteq Nat
  /\ PolicyKeys \subseteq PolicyViews /\ NoView \notin ViewKeys \cup PolicyViews

VARIABLES
  prepared,  \* the prepared view a caller keeps, or NoView
  answer     \* the request and the report of the last search, or NoAnswer
searchVars == <<vars, prepared, answer>>

\* The elements of a finite set in the order of a total relation.
InOrder(S, Before(_, _)) ==
  [i \in 1..Cardinality(S) |->
     CHOOSE x \in S : Cardinality({y \in S : Before(y, x)}) = i - 1]

FirstOf(s, k) == SubSeq(s, 1, Min({k, Len(s)}))

\* The entries of a sequence at some of its places.
EntriesAt(s, places) == LET at == InOrder(places, LAMBDA m, n : m < n)
                        IN  [n \in DOMAIN at |-> s[at[n]]]

\* finite_or
FiniteOr(x, fallback) == IF x = NotFinite THEN fallback ELSE x

-----------------------------------------------------------------------------
\* Candidates from outside.

CandidateIds(list) == {list[i].id : i \in DOMAIN list}

\* candidate_id_mask_with_stats: ids that are not live are ignored.
CandidateMask(list) == MaskOf(CandidateIds(list))

\* candidate_score_mask_with_stats: the best score an id was given.
CandidateScores(list) ==
  [s \in CandidateMask(list).slots |->
     Max({FiniteOr(list[i].score, 0) :
                 i \in {i \in DOMAIN list : list[i].id = slot_to_id[s]}})]

\* *_candidates_plan: the plan's mask, narrowed for this call only.
Narrowed(mask, list) ==
  IF list = AnyIds THEN mask ELSE [mask EXCEPT !.slots = @ \cap CandidateMask(list).slots]

\* Mutant: the scale is that of every live candidate.
ScaledOverAll(scores, blend, mask) ==
  LET all == {scores[s] : s \in DOMAIN scores}
      low == Min(all)
      high == Max(all)
  IN  IF all = {} \/ blend.normalization # "min_max" THEN scores
      ELSE [s \in DOMAIN scores |->
              IF high = low THEN Unit ELSE ((scores[s] - low) * Unit) \div (high - low)]

\* normalize_candidate_score_map: the scale is that of the candidates the mask
\* selects, and only theirs are scaled.
Scaled(scores, blend, mask) ==
  LET inside == DOMAIN scores \cap mask.slots
      values == {scores[s] : s \in inside}
      low == Min(values)
      high == Max(values)
      max_abs == Max(values \cup {-x : x \in values} \cup {0})
      scale(x) ==
        CASE blend.normalization = "min_max" ->
               IF high > low THEN ((x - low) * Unit) \div (high - low) ELSE Unit
          [] blend.normalization = "max_abs" ->
               IF max_abs > 0 THEN (x * Unit) \div max_abs ELSE x
          [] OTHER -> x
  IN  [s \in DOMAIN scores |-> IF s \in inside THEN scale(scores[s]) ELSE scores[s]]

-----------------------------------------------------------------------------
\* Searching under a mask.

ScoreAt(query, s) == query[rows[s]]

\* What the index may return: as many of the mask's slots as there are and were
\* asked for, best first, none left out that is better.
TopSlots(query, k, mask) ==
  LET n == Min({k, Cardinality(mask.slots)})
  IN  {slots \in [1..n -> mask.slots] :
         /\ IsDistinct(slots)
         /\ \A i, j \in 1..n : i < j => ScoreAt(query, slots[i]) >= ScoreAt(query, slots[j])
         /\ \A s \in mask.slots \ Elements(slots), i \in 1..n :
              ScoreAt(query, s) <= ScoreAt(query, slots[i])}

\* hits_from_results
HitAt(query, s) == [id |-> slot_to_id[s], score |-> ScoreAt(query, s)]

\* search_with_slot_mask: a mask of another length than the index panics, unless
\* it is empty or no hit is asked for.
Usable(k, mask) == k = 0 \/ mask.slots = {} \/ mask.len = Len(rows)
PlainHits(query, k, mask) ==
  {[i \in DOMAIN slots |-> HitAt(query, slots[i])] : slots \in TopSlots(query, k, mask)}

\* Mutant: no more than k slots are fetched for reranking.
PrefetchOnlyK(blend, k, selected) == Min({k, selected})

\* GraphRerankConfig::prefetch_k, and that of the hybrid configuration.
prefetch_k(blend, k, selected) ==
  IF k = 0 \/ selected = 0 THEN 0
  ELSE LET factor == Max({blend.prefetch_factor, 1})
       IN  Min({Max({k * factor, blend.min_prefetch, k}), selected})

Prefetched(query, k, mask, blend) ==
  {Elements(slots) : slots \in TopSlots(query, prefetch_k(blend, k, Cardinality(mask.slots)), mask)}

\* path_weight as a score.
Strength(weight) ==
  LET halved[n \in Nat] == IF n = 0 THEN Unit ELSE halved[n - 1] \div 2 IN halved[weight]

\* weighted_visits_by_slot
PathsBySlot(visits) ==
  LET live == {i \in DOMAIN visits : visits[i].id \in Live}
  IN  [s \in {id_to_slot[visits[i].id] : i \in live} |->
         visits[CHOOSE i \in live : id_to_slot[visits[i].id] = s]]

\* Higher score, then vector score, then graph score, then candidate score, then
\* the smaller id.
Outranks(a, b) ==
  LET x == <<a.score, a.vector, a.graph, a.candidate>>
      y == <<b.score, b.vector, b.graph, b.candidate>>
      differ == {i \in 1..4 : x[i] # y[i]}
  IN  IF differ = {} THEN a.id < b.id ELSE x[Min(differ)] > y[Min(differ)]

\* hybrid_hits_from_results_for_query: slots without a path are dropped.
HybridHit(query, s, paths, scores, blend) ==
  LET vector == ScoreAt(query, s)
      graph == Strength(paths[s].weight)
      candidate == IF s \in DOMAIN scores THEN scores[s] ELSE 0
  IN  [id |-> slot_to_id[s], vector |-> vector, graph |-> graph, candidate |-> candidate,
       score |-> FiniteOr(blend.vector_weight, 1) * vector
                 + FiniteOr(blend.graph_weight, 0) * graph
                 + FiniteOr(blend.candidate_weight, 0) * candidate]

HybridHits(query, slots, paths, scores, blend) ==
  InOrder({HybridHit(query, s, paths, scores, blend) : s \in slots \cap DOMAIN paths}, Outranks)

\* reranked_hits_from_results_for_query: there is no candidate score.
RerankedHits(query, slots, paths, blend) == HybridHits(query, slots, paths, EmptyFn, blend)

-----------------------------------------------------------------------------
\* Traces.

EdgesAmong(ids) == {e \in DOMAIN edges : e[1] \in ids /\ e[2] \in ids}

\* build_policy_graph_view_trace
PolicyTrace(visits) ==
  [nodes |-> EntriesAt(visits, {n \in DOMAIN visits : visits[n].id \in Live}),
   edges |-> EdgesAmong(VisitedIds(visits))]

NearerFirst(x, y) == \/ x.depth < y.depth
                     \/ x.depth = y.depth /\ x.id < y.id

\* build_graph_view_trace, which walks the graph again.  Which of several
\* parents a node gets is up to the order of the edges and left out.
ViewTrace(k) ==
  LET ids == Reach(edges, id_to_slot, k.seeds, k.max_hops)
      depth(i) == Min({n \in 0..k.max_hops : i \in Reach(edges, id_to_slot, k.seeds, n)})
  IN  [nodes |-> InOrder({[id |-> i, depth |-> depth(i)] : i \in ids \cap Live},
                         NearerFirst),
       edges |-> EdgesAmong(ids)]

\* debug_snapshot: the rank of each traced node among the hits, or 0.
HitRanks(hits, trace) ==
  [n \in DOMAIN trace.nodes |->
     LET ranks == {r \in DOMAIN hits : hits[r].id = trace.nodes[n].id}
     IN  IF ranks = {} THEN 0 ELSE Max(ranks)]

-----------------------------------------------------------------------------
\* Searches.  A request has the fields of Asked; a report adds mask, hits and
\* trace, and whether the mask was compiled on the memory as it is.

NoTrace == [untraced |-> TRUE]
Unfiltered == [tags |-> {}, sources |-> {}, from |-> NoTime, to |-> NoTime]

Asked(kind, view, filter, list, k, query, blend) ==
  [kind |-> kind, view |-> view, filter |-> filter, list |-> list, k |-> k,
   query |-> query, blend |-> blend]

Answer(asked, mask, hits, trace, current) ==
  /\ answer' = [asked |-> asked, mask |-> mask, hits |-> hits, trace |-> trace,
                current |-> current]
  /\ prepared' = prepared

NoBlend == [prefetch_factor |-> 1]

\* graph_view_mask_with_metadata_plan and its mask, cached or not.
Planned(v, f) == \/ MetadataPlan(v, f)
                 \/ <<v, f>> \in DOMAIN caches["combined"] /\ UNCHANGED vars
PlanMask(v, f) == Lookup("combined", <<v, f>>, CachedPlan(ViewOf(v), f)).mask

\* The same with a policy.
PolicyPlanned(p, f) == \/ PolicyMetadataPlan(p, f)
                       \/ <<p, f>> \in DOMAIN caches["combined_policy"] /\ UNCHANGED vars
PolicyPlanMask(p, f) == Lookup("combined_policy", <<p, f>>, CachedPlan(PolicyViewOf(p), f)).mask

\* search_graph_view, with statistics, metadata, a plan, or for a batch.
SearchView(v, f, k, query) ==
  /\ Planned(v, f)
  /\ \E hits \in PlainHits(query, k, PlanMask(v, f)) :
       Answer(Asked("plain", v, f, AnyIds, k, query, NoBlend), PlanMask(v, f), hits, NoTrace, TRUE)

\* search_graph_view_with_metadata_candidates_plan and its batch form.
SearchViewCandidates(v, f, list, k, query) ==
  /\ Planned(v, f)
  /\ LET mask == Narrowed(PlanMask(v, f), list)
     IN  \E hits \in PlainHits(query, k, mask) :
           Answer(Asked("plain", v, f, list, k, query, NoBlend), mask, hits, NoTrace, TRUE)

\* search_graph_view_with_policy_metadata_plan, with or without candidates.
SearchPolicyView(p, f, list, k, query) ==
  /\ PolicyPlanned(p, f)
  /\ LET mask == Narrowed(PolicyPlanMask(p, f), list)
     IN  \E hits \in PlainHits(query, k, mask) :
           Answer(Asked("plain", p, f, list, k, query, NoBlend), mask, hits, NoTrace, TRUE)

\* The hits of a rerank search, and of a hybrid search.
RerankHits(p, f, list, k, query, blend) ==
  {FirstOf(RerankedHits(query, slots, PathsBySlot(VisitsOf(p)), blend), k) :
     slots \in Prefetched(query, k, Narrowed(PolicyPlanMask(p, f), list), blend)}

HybridSearchHits(p, f, list, k, query, blend) ==
  LET mask == Narrowed(PolicyPlanMask(p, f), list)
      scores == Scaled(CandidateScores(list), blend, mask)
  IN  {FirstOf(HybridHits(query, slots, PathsBySlot(VisitsOf(p)), scores, blend), k) :
         slots \in Prefetched(query, k, mask, blend)}

\* search_graph_view_with_policy_metadata_rerank
SearchRerank(p, f, k, query, blend) ==
  /\ RerankSearch(p, f)
  /\ \E hits \in RerankHits(p, f, AnyIds, k, query, blend) :
       Answer(Asked("rerank", p, f, AnyIds, k, query, blend), PolicyPlanMask(p, f), hits,
              NoTrace, TRUE)

\* search_graph_view_with_policy_metadata_candidates_rerank
SearchCandidatesRerank(p, f, list, k, query, blend) ==
  /\ RerankSearch(p, f)
  /\ \E hits \in RerankHits(p, f, list, k, query, blend) :
       Answer(Asked("rerank", p, f, list, k, query, blend),
              Narrowed(PolicyPlanMask(p, f), list), hits, NoTrace, TRUE)

\* search_graph_view_with_policy_metadata_candidate_scores_hybrid
SearchHybrid(p, f, list, k, query, blend) ==
  /\ RerankSearch(p, f)
  /\ \E hits \in HybridSearchHits(p, f, list, k, query, blend) :
       Answer(Asked("hybrid", p, f, list, k, query, blend),
              Narrowed(PolicyPlanMask(p, f), list), hits, NoTrace, TRUE)

\* The caches after a rerank search and then explain_graph_view_with_policy,
\* which needs the view too if only the plan was cached.
ExplainedSearch(p, f) ==
  LET visits == Fill("policy_visit", p, VisitsOf(p))
  IN  \/ NewPolicyPlan(p, f, visits)
      \/ /\ <<p, f>> \in DOMAIN caches["combined_policy"]
         /\ Query([policy_visit |-> visits, policy_view |-> Fill("policy_view", p, PolicyViewOf(p))])

\* explain_graph_search_with_policy_metadata_rerank_timed
ExplainRerank(p, f, k, query, blend) ==
  /\ ExplainedSearch(p, f)
  /\ \E hits \in RerankHits(p, f, AnyIds, k, query, blend) :
       Answer(Asked("rerank", p, f, AnyIds, k, query, blend), PolicyPlanMask(p, f), hits,
              PolicyTrace(VisitsOf(p)), TRUE)

\* explain_graph_search_with_policy_metadata_candidates_rerank_timed
ExplainCandidatesRerank(p, f, list, k, query, blend) ==
  /\ ExplainedSearch(p, f)
  /\ \E hits \in RerankHits(p, f, list, k, query, blend) :
       Answer(Asked("rerank", p, f, list, k, query, blend),
              Narrowed(PolicyPlanMask(p, f), list), hits, PolicyTrace(VisitsOf(p)), TRUE)

\* explain_graph_search_with_policy_metadata_candidate_scores_hybrid_timed
ExplainHybrid(p, f, list, k, query, blend) ==
  /\ ExplainedSearch(p, f)
  /\ \E hits \in HybridSearchHits(p, f, list, k, query, blend) :
       Answer(Asked("hybrid", p, f, list, k, query, blend),
              Narrowed(PolicyPlanMask(p, f), list), hits, PolicyTrace(VisitsOf(p)), TRUE)

\* Mutant: a preset of no blocks or nodes is taken at its word.
TuneUnclamped(preset, k) ==
  [seeds |-> preset.seeds, max_hops |-> preset.max_hops, min_weight |-> preset.min_weight,
   max_active_blocks |-> preset.target_active_blocks,
   max_nodes |-> Min({preset.target_active_blocks * preset.nodes_per_active_block,
                        Len(slot_to_id)})]

\* GraphSearchPreset::tune, with the seeds of the search.
Tune(preset, k) ==
  LET total == Len(slot_to_id)
      blocks == (total + BLOCK - 1) \div BLOCK
      active == IF blocks = 0 THEN 0
                ELSE Min({Max({preset.target_active_blocks, 1}), blocks})
      per_block == Max({preset.nodes_per_active_block, 1})
  IN  [seeds |-> preset.seeds, max_hops |-> preset.max_hops, min_weight |-> preset.min_weight,
       max_active_blocks |-> active, max_nodes |-> Min({Max({active * per_block, k}), total})]

\* explain_graph_search_with_preset
ExplainWithPreset(preset, f, k, query) == ExplainRerank(Tune(preset, k), f, k, query, preset.blend)

\* search_graph_view_with_trace and its metadata form: the mask is that of the
\* traced nodes, filtered.
SearchTrace(v, f, k, query) ==
  /\ TraceSearch(v, f)
  /\ LET trace == ViewTrace(v)
         mask == Filtered(MaskOf({trace.nodes[n].id : n \in DOMAIN trace.nodes}), f)
     IN  \E hits \in PlainHits(query, k, mask) :
           Answer(Asked("plain", v, f, AnyIds, k, query, NoBlend), mask, hits, trace, TRUE)

\* search_global
SearchGlobal(k, query) ==
  /\ LET mask == MaskOf(Live)
     IN  \E hits \in PlainHits(query, k, mask) :
           Answer(Asked("plain", NoView, Unfiltered, AnyIds, k, query, NoBlend), mask, hits,
                  NoTrace, TRUE)
  /\ UNCHANGED vars

-----------------------------------------------------------------------------
\* Prepared views.

\* history: current says that nothing the view depends on was changed since.
Prepare(view, filter, mask, paths) ==
  /\ prepared' = [view |-> view, filter |-> filter, mask |-> mask, paths |-> paths,
                  current |-> TRUE]
  /\ answer' = answer

\* prepare_graph_view, and with metadata.
PrepareView(v) == GraphView(v) /\ Prepare(v, Unfiltered, ViewOf(v), EmptyFn)
PrepareFiltered(v, f) == Planned(v, f) /\ Prepare(v, f, PlanMask(v, f), EmptyFn)

\* prepare_graph_view_with_policy, and with metadata.
PreparePolicyView(p) ==
  ExplainPolicyView(p) /\ Prepare(p, Unfiltered, PolicyViewOf(p), PathsBySlot(VisitsOf(p)))
PreparePolicyFiltered(p, f) ==
  RerankSearch(p, f) /\ Prepare(p, f, PolicyPlanMask(p, f), PathsBySlot(VisitsOf(p)))

\* GraphPreparedView::search and GraphPreparedPolicyView::search
SearchPrepared(k, query) ==
  /\ prepared # NoView /\ Usable(k, prepared.mask)
  /\ \E hits \in PlainHits(query, k, prepared.mask) :
       Answer(Asked("plain", prepared.view, prepared.filter, AnyIds, k, query, NoBlend),
              prepared.mask, hits, NoTrace, prepared.current)
  /\ UNCHANGED vars

\* search_rerank of a policy view: visits and mask are the ones it was prepared
\* with.
SearchPreparedRerank(k, query, blend) ==
  /\ prepared # NoView /\ "max_nodes" \in DOMAIN prepared.view
  /\ Usable(k, prepared.mask)
  /\ \E slots \in Prefetched(query, k, prepared.mask, blend) :
       Answer(Asked("rerank", prepared.view, prepared.filter, AnyIds, k, query, blend),
              prepared.mask, FirstOf(RerankedHits(query, slots, prepared.paths, blend), k),
              NoTrace, prepared.current)
  /\ UNCHANGED vars

Return == answer # NoAnswer /\ answer' = NoAnswer /\ UNCHANGED <<vars, prepared>>

\* Mutations, and what they mean for a view that was prepared before.
Keeps(kept) == /\ answer' = answer
               /\ prepared' = IF prepared = NoView \/ kept THEN prepared
                              ELSE [prepared EXCEPT !.current = FALSE]

Embed(i, v) == ReplaceEmbedding(i, v) /\ Keeps(TRUE)
Retag(i, r) == ReplaceMetadata(i, r) /\ Keeps(prepared # NoView /\ prepared.filter = Unfiltered)
Restructure ==
  /\ \/ \E n \in 0..MaxBatch :
          \E ids \in [1..n -> Ids], vs \in [1..n -> Vectors], rs \in [1..n -> Metadata] :
            AddRecords(ids, vs, rs)
     \/ \E i \in Ids : RemoveNode(i)
     \/ \E pairs \in LinkCalls, w \in Weights : Link(pairs, w)
  /\ Keeps(FALSE)

Mutate == \/ \E i \in Ids, v \in Vectors : Embed(i, v)
          \/ \E i \in Ids, r \in Metadata : Retag(i, r)
          \/ Restructure

TrimCaches == \E b \in Budgets : Trim(b) /\ Keeps(TRUE)

SearchInit == Init /\ prepared = NoView /\ answer = NoAnswer

\* Searches of a view within some hops, and of a view under a policy.
SearchViews ==
  \E k \in Ks, q \in Queries :
    \/ SearchGlobal(k, q)
    \/ \E v \in ViewKeys, f \in Filters :
         \/ SearchView(v, f, k, q) \/ SearchTrace(v, f, k, q)
         \/ \E list \in CandidateLists : SearchViewCandidates(v, f, list, k, q)

SearchPolicies ==
  \E k \in Ks, q \in Queries, f \in Filters :
    \/ \E p \in PolicyKeys :
         \/ \E list \in CandidateLists \cup {AnyIds} : SearchPolicyView(p, f, list, k, q)
         \/ \E b \in Blends :
              \/ SearchRerank(p, f, k, q, b) \/ ExplainRerank(p, f, k, q, b)
              \/ \E list \in CandidateLists :
                   \/ SearchCandidatesRerank(p, f, list, k, q, b)
                   \/ SearchHybrid(p, f, list, k, q, b)
                   \/ ExplainCandidatesRerank(p, f, list, k, q, b)
                   \/ ExplainHybrid(p, f, list, k, q, b)
    \/ \E preset \in Presets : ExplainWithPreset(preset, f, k, q)

PrepareOrSearch ==
  \/ \E v \in ViewKeys : PrepareView(v) \/ \E f \in Filters : PrepareFiltered(v, f)
  \/ \E p \in PolicyKeys : PreparePolicyView(p) \/ \E f \in Filters : PreparePolicyFiltered(p, f)
  \/ \E k \in Ks, q \in Queries :
       SearchPrepared(k, q) \/ \E b \in Blends : SearchPreparedRerank(k, q, b)

-----------------------------------------------------------------------------
\* Properties.

Answered == answer # NoAnswer

\* Today's ids of a view, and those a request wants: in its view, let through
\* by its filter, and among its candidates.
ViewIds(view) == IF view = NoView THEN Live
                 ELSE IF "max_nodes" \in DOMAIN view THEN VisitedIds(Visits(view))
                 ELSE Connected(view)
Wanted(asked) == {i \in ViewIds(asked.view) :
                    /\ Matches(records[i], asked.filter)
                    /\ asked.list # AnyIds => i \in CandidateIds(asked.list)}

\* Every hit names a node that is in the memory now, once, with the score of
\* the embedding that node has now, even when a view that was prepared before
\* nodes were added, moved or removed is searched.
HitsLive ==
  Answered =>
    LET hits == answer.hits
        vector(h) == IF answer.asked.kind = "plain" THEN h.score ELSE h.vector
    IN  /\ \A n \in DOMAIN hits : /\ hits[n].id \in Live
                                 /\ vector(hits[n])
                                      = ScoreAt(answer.asked.query, id_to_slot[hits[n].id])
        /\ \A m, n \in DOMAIN hits : hits[m].id = hits[n].id => m = n

\* A search returns as many hits as it was asked for and its request leaves,
\* all from today's view, records and candidates, whichever of the masks,
\* visits and plans it combined were cached, when, and trimmed since.
AnswersWanted ==
  Answered /\ answer.current =>
    /\ {answer.hits[n].id : n \in DOMAIN answer.hits} \subseteq Wanted(answer.asked)
    /\ Len(answer.hits) = Min({answer.asked.k, Cardinality(Wanted(answer.asked))})

\* The ranking of every slot of the mask by a rerank request.
Blended(asked, mask) ==
  LET scores == IF asked.kind = "hybrid" THEN Scaled(CandidateScores(asked.list), asked.blend, mask)
                ELSE EmptyFn
  IN  HybridHits(asked.query, mask.slots, PathsBySlot(Visits(asked.view)), scores, asked.blend)

\* When no fewer slots are prefetched than the mask selects, what a rerank or
\* hybrid search returns is the head of the ranking of the whole view.
BestBlend ==
  Answered /\ answer.current /\ answer.asked.kind # "plain" =>
    LET asked == answer.asked
        selected == Cardinality(answer.mask.slots)
        factor == asked.blend.prefetch_factor
    IN  \/ asked.blend.min_prefetch >= selected \/ asked.k * factor >= selected
        => answer.hits = FirstOf(Blended(asked, answer.mask), asked.k)

\* Candidates outside the view, the filter or the memory do not change the
\* scale of those inside: a hybrid search returns what it would return had
\* it been given the wanted candidates alone.
NormalizationLocal ==
  Answered /\ answer.asked.kind = "hybrid" =>
    LET asked == answer.asked
        list == asked.list
        wanted == EntriesAt(list, {n \in DOMAIN list : list[n].id \in Wanted(asked)})
    IN  answer.hits \in HybridSearchHits(asked.view, asked.filter, wanted, asked.k,
                                         asked.query, asked.blend)

\* A prepared view selects what its request means today, with today's paths,
\* until something it depends on changes; a replaced embedding is not such a
\* change, though it is appended and moved into place.
PreparedCurrent ==
  prepared # NoView /\ prepared.current =>
    /\ Selects(prepared.mask, {i \in ViewIds(prepared.view) : Matches(records[i], prepared.filter)})
    /\ "max_nodes" \in DOMAIN prepared.view => prepared.paths = PathsBySlot(Visits(prepared.view))

\* The trace of an explained search has every hit among its nodes, each node
\* once, live, and after another that is one hop nearer and linked to it: it
\* explains the answer although both are put together from separate caches.
HitsExplained ==
  Answered /\ answer.trace # NoTrace =>
    LET nodes_ == answer.trace.nodes
        ids == [n \in DOMAIN nodes_ |-> nodes_[n].id]
    IN  /\ {answer.hits[n].id : n \in DOMAIN answer.hits} \subseteq Elements(ids)
        /\ IsDistinct(ids) /\ Elements(ids) \subseteq Live
        /\ \A n \in DOMAIN nodes_ : nodes_[n].depth > 0 =>
             \E m \in 1..(n - 1) : /\ nodes_[m].depth = nodes_[n].depth - 1
                                  /\ <<ids[m], ids[n]>> \in answer.trace.edges
        /\ answer.trace.edges = EdgesAmong(Elements(ids))
        /\ \A r \in DOMAIN answer.hits : r \in Elements(HitRanks(answer.hits, answer.trace))

\* A preset never tunes its budgets to nothing: a search from a seed that is
\* in the memory visits at least one, whatever numbers the preset holds.
PresetNeverStarves ==
  \A preset \in Presets, k \in Ks :
    preset.seeds \cap Live # {} => Visits(Tune(preset, k)) # << >>

\* A trace explains its answer, whatever the preset made of its budgets.
TracesExplain == HitsExplained /\ PresetNeverStarves

=============================================================================
