-------------------------- MODULE GraphMemory_proofs --------------------------
(***************************************************************************)
(* The tables, indexes and caches of GraphMemory stay in step with its     *)
(* records and edges, for every set of ids, records, keys and weights.     *)
(***************************************************************************)
EXTENDS GraphMemory, GraphViews_proofs

\* Every cached value is the one a miss would compute now.
FreshPlan(mask, f) ==
  [mask |-> [mask EXCEPT !.slots =
               {s \in @ : /\ \A t \in f.tags : s \in TagMask(t).slots
                          /\ f.sources = {} \/ \E src \in f.sources : s \in SourceMask(src).slots
                          /\ Bounded(Window(f)) => s \in TimeMask(Window(f)).slots}],
   graph_slots |-> Cardinality(mask.slots)]

PolicyMask(k) == MaskOf(VisitedIds(Visits(k)))

FreshValue(c, k) ==
  IF c = "view" THEN ViewMask(k)
  ELSE IF c = "policy_visit" THEN Visits(k)
  ELSE IF c = "policy_view" THEN PolicyMask(k)
  ELSE IF c = "combined" THEN FreshPlan(ViewMask(k[1]), k[2])
  ELSE IF c = "combined_policy" THEN FreshPlan(PolicyMask(k[1]), k[2])
  ELSE IF c = "tag" THEN TagMask(k)
  ELSE IF c = "source" THEN SourceMask(k)
  ELSE TimeMask(k)

CachesFresh == \A c \in CacheNames : \A k \in DOMAIN caches[c] : caches[c][k] = FreshValue(c, k)

\* What the tables hold.  Records need not be among Metadata, nor keys among
\* those of the runs: neither a file nor a preset is bound to them.
Record == [tags : SUBSET Tags, source : Sources \cup {NoSource}, time : Int \cup {NoTime}]

Tables ==
  /\ rows \in Seq(Vectors)
  /\ slot_to_id \in Seq(Ids)
  /\ Live \subseteq Ids /\ id_to_slot \in [Live -> Nat]
  /\ DOMAIN records \subseteq Ids /\ records \in [DOMAIN records -> Record]
  /\ DOMAIN edges \subseteq Ids \X Ids /\ edges \in [DOMAIN edges -> Weights]
  /\ IsFiniteSet(DOMAIN edges)
  /\ tag_to_ids \in [Tags -> SUBSET Ids]
  /\ source_to_ids \in [Sources -> SUBSET Ids]
  /\ time_index \subseteq Int \X Ids
  /\ DOMAIN caches = CacheNames

IInv == /\ Tables
        /\ NodesAligned
        /\ EdgesLive
        /\ RecordsIndexed
        /\ CachesFresh

-----------------------------------------------------------------------------
\* What a query may do: add fresh entries to some caches.

\* The names are ten distinct strings, listed once for the provers.
LEMMA Names == CacheNames = {"view", "policy_visit", "policy_view", "combined",
                             "combined_policy", "tag", "source", "time"}
  BY DEF CacheNames, GraphCaches, MetadataCaches

\* A step that changes only caches, and leaves fresh values in each, preserves
\* the invariant.
LEMMA CacheStep ==
  ASSUME IInv, UNCHANGED <<nodes, metadata, edges>>,
         DOMAIN caches' = CacheNames,
         \A c \in CacheNames : \A k \in DOMAIN caches'[c] : caches'[c][k] = FreshValue(c, k)
  PROVE  IInv'
<1>1. /\ rows' = rows /\ slot_to_id' = slot_to_id /\ id_to_slot' = id_to_slot
      /\ records' = records /\ tag_to_ids' = tag_to_ids
      /\ source_to_ids' = source_to_ids /\ time_index' = time_index
      /\ edges' = edges
  BY DEF nodes, metadata
<1>2. \A c, k : FreshValue(c, k)' = FreshValue(c, k)
  BY <1>1 DEF FreshValue, FreshPlan, PolicyMask, ViewMask, Visits, TagMask, SourceMask,
              TimeMask, MaskOf, Live
<1>3. CachesFresh'
  BY <1>2 DEF CachesFresh
<1>4. Tables'
  BY <1>1 DEF IInv, Tables, Live
<1>5. NodesAligned' /\ EdgesLive' /\ RecordsIndexed'
  BY <1>1 DEF IInv, NodesAligned, EdgesLive, RecordsIndexed, Live
<1>6. QED
  BY <1>3, <1>4, <1>5 DEF IInv

\* A hit returns the fresh value, and so does a miss.
LEMMA LookupIsFresh ==
  ASSUME IInv, NEW c \in CacheNames, NEW k
  PROVE  Lookup(c, k, FreshValue(c, k)) = FreshValue(c, k)
  BY DEF IInv, CachesFresh, Lookup

\* Filling a cache with a fresh value keeps it fresh.
LEMMA FillIsFresh ==
  ASSUME IInv, NEW c \in CacheNames, NEW k
  PROVE  \A x \in DOMAIN Fill(c, k, FreshValue(c, k)) :
           Fill(c, k, FreshValue(c, k))[x] = FreshValue(c, x)
  BY DEF IInv, CachesFresh, Fill

LEMMA OldIsFresh ==
  ASSUME IInv, NEW c \in CacheNames
  PROVE  \A x \in DOMAIN caches[c] : caches[c][x] = FreshValue(c, x)
  BY DEF IInv, CachesFresh

LEMMA GraphViewStep ==
  ASSUME IInv, NEW k, GraphView(k)
  PROVE  IInv'
<1> DEFINE filled == Fill("view", k, FreshValue("view", k))
<1>1. "view" \in CacheNames
  BY Names
<1>2. ViewOf(k) = FreshValue("view", k)
  BY <1>1, LookupIsFresh DEF ViewOf, FreshValue
<1>3. /\ caches' = [c \in CacheNames |-> IF c = "view" THEN filled ELSE caches[c]]
      /\ UNCHANGED <<nodes, metadata, edges>>
  BY <1>2 DEF GraphView, Query
<1> HIDE DEF filled
<1>4. \A c \in CacheNames : \A x \in DOMAIN caches'[c] :
        caches'[c][x] = FreshValue(c, x)
  BY <1>1, <1>3, FillIsFresh, OldIsFresh DEF filled
<1>5. QED
  BY <1>3, <1>4, CacheStep

\* Whatever a query looks up is fresh, cached or not.
LEMMA LookupsAreFresh ==
  ASSUME IInv
  PROVE  /\ \A k : ViewOf(k) = ViewMask(k)
         /\ \A k : VisitsOf(k) = Visits(k)
         /\ \A k : PolicyViewOf(k) = PolicyMask(k)
         /\ \A t : TagOf(t) = TagMask(t)
         /\ \A s : SourceOf(s) = SourceMask(s)
         /\ \A w : TimeOf(w) = TimeMask(w)
         /\ \A mask, f : CachedPlan(mask, f) = FreshPlan(mask, f)
<1>1. \A k : ViewOf(k) = ViewMask(k)
  BY Names, LookupIsFresh DEF ViewOf, FreshValue
<1>2. \A k : VisitsOf(k) = Visits(k)
  BY Names, LookupIsFresh DEF VisitsOf, FreshValue
<1>3. \A k : PolicyViewOf(k) = PolicyMask(k)
  BY <1>2, Names, LookupIsFresh DEF PolicyViewOf, PolicyMask, FreshValue
<1>4. \A t : TagOf(t) = TagMask(t)
  BY Names, LookupIsFresh DEF TagOf, FreshValue
<1>5. \A s : SourceOf(s) = SourceMask(s)
  BY Names, LookupIsFresh DEF SourceOf, FreshValue
<1>6. \A w : TimeOf(w) = TimeMask(w)
  BY Names, LookupIsFresh DEF TimeOf, FreshValue
<1>7. \A mask, f : CachedPlan(mask, f) = FreshPlan(mask, f)
  BY <1>4, <1>5, <1>6 DEF CachedPlan, Filtered, FreshPlan
<1>8. QED
  BY <1>1, <1>2, <1>3, <1>4, <1>5, <1>6, <1>7

\* The caches a query touches, as the fills it leaves in them.
FreshFill(c, k) == Fill(c, k, FreshValue(c, k))

LEMMA PolicyFills ==
  ASSUME IInv, NEW k
  PROVE  /\ Fill("policy_view", k, PolicyViewOf(k)) = FreshFill("policy_view", k)
         /\ Fill("policy_visit", k, VisitsOf(k)) = FreshFill("policy_visit", k)
         /\ VisitsNeeded(k) \in {caches["policy_visit"], FreshFill("policy_visit", k)}
         /\ \A x \in DOMAIN FreshFill("policy_view", k) :
              FreshFill("policy_view", k)[x] = FreshValue("policy_view", x)
         /\ \A x \in DOMAIN FreshFill("policy_visit", k) :
              FreshFill("policy_visit", k)[x] = FreshValue("policy_visit", x)
<1>1. PolicyViewOf(k) = FreshValue("policy_view", k) /\ VisitsOf(k) = FreshValue("policy_visit", k)
  BY LookupsAreFresh DEF FreshValue
<1>2. QED
  BY <1>1, Names, FillIsFresh DEF FreshFill, VisitsNeeded

LEMMA PolicyViewStep ==
  ASSUME IInv, NEW k, PolicyView(k) \/ ExplainPolicyView(k)
  PROVE  IInv'
<1>1. PICK visits \in {caches["policy_visit"], FreshFill("policy_visit", k)} :
        /\ caches' = [c \in CacheNames |->
                        IF c = "policy_view" THEN FreshFill("policy_view", k)
                        ELSE IF c = "policy_visit" THEN visits ELSE caches[c]]
        /\ UNCHANGED <<nodes, metadata, edges>>
  BY PolicyFills DEF PolicyView, ExplainPolicyView, Query
<1>2. \A c \in CacheNames : \A x \in DOMAIN caches'[c] :
        caches'[c][x] = FreshValue(c, x)
  BY <1>1, PolicyFills, OldIsFresh, Names
<1>3. QED
  BY <1>1, <1>2, CacheStep

LEMMA MaskQueryStep ==
  ASSUME IInv,
         \/ \E t \in Tags : TagView(t)
         \/ \E s \in Sources : SourceView(s)
         \/ \E f \in Filters : TimeView(Window(f))
  PROVE  IInv'
<1>1. ASSUME NEW n \in {"tag", "source", "time"}, NEW k,
             caches' = [c \in CacheNames |-> IF c = n THEN FreshFill(n, k) ELSE caches[c]],
             UNCHANGED <<nodes, metadata, edges>>
      PROVE  IInv'
  <2>1. n \in CacheNames
    BY Names
  <2>2. \A c \in CacheNames : \A x \in DOMAIN caches'[c] :
          caches'[c][x] = FreshValue(c, x)
    BY <1>1, <2>1, FillIsFresh, OldIsFresh DEF FreshFill
  <2>3. QED
    BY <1>1, <2>2, CacheStep
<1>2. ASSUME NEW t \in Tags, TagView(t)
      PROVE  IInv'
  <2>1. TagOf(t) = FreshValue("tag", t)
    BY LookupsAreFresh DEF FreshValue
  <2>2. /\ caches' = [c \in CacheNames |-> IF c = "tag" THEN FreshFill("tag", t) ELSE caches[c]]
        /\ UNCHANGED <<nodes, metadata, edges>>
    BY <1>2, <2>1 DEF TagView, Query, FreshFill
  <2>3. QED
    BY <1>1, <2>1, <2>2
<1>3. ASSUME NEW s \in Sources, SourceView(s)
      PROVE  IInv'
  <2>1. SourceOf(s) = FreshValue("source", s)
    BY LookupsAreFresh DEF FreshValue
  <2>2. /\ caches' = [c \in CacheNames |->
                        IF c = "source" THEN FreshFill("source", s) ELSE caches[c]]
        /\ UNCHANGED <<nodes, metadata, edges>>
    BY <1>3, <2>1 DEF SourceView, Query, FreshFill
  <2>3. QED
    BY <1>1, <2>1, <2>2
<1>4. ASSUME NEW f, TimeView(Window(f))
      PROVE  IInv'
  <2>1. TimeOf(Window(f)) = FreshValue("time", Window(f))
    BY LookupsAreFresh DEF FreshValue
  <2>2. /\ caches' = [c \in CacheNames |->
                        IF c = "time" THEN FreshFill("time", Window(f)) ELSE caches[c]]
        /\ UNCHANGED <<nodes, metadata, edges>>
    BY <1>4, <2>1 DEF TimeView, Query, FreshFill
  <2>3. QED
    BY <1>1, <2>1, <2>2
<1>5. QED
  BY <1>2, <1>3, <1>4

\* The metadata caches after filtering hold fresh masks.
LEMMA FilterFillsFresh ==
  ASSUME IInv, NEW f
  PROVE  /\ \A x \in DOMAIN FilterFills(f).tag :
              FilterFills(f).tag[x] = FreshValue("tag", x)
         /\ \A x \in DOMAIN FilterFills(f).source :
              FilterFills(f).source[x] = FreshValue("source", x)
         /\ \A x \in DOMAIN FilterFills(f).time :
              FilterFills(f).time[x] = FreshValue("time", x)
<1>3. \A x \in DOMAIN FilterFills(f).tag :
        FilterFills(f).tag[x] = FreshValue("tag", x)
  BY LookupsAreFresh DEF FilterFills, FreshValue
<1>4. \A x \in DOMAIN FilterFills(f).source :
        FilterFills(f).source[x] = FreshValue("source", x)
  BY LookupsAreFresh DEF FilterFills, FreshValue
<1>5. \A x \in DOMAIN FilterFills(f).time :
        FilterFills(f).time[x] = FreshValue("time", x)
  <2>1. TimeOf(Window(f)) = FreshValue("time", Window(f))
    BY LookupsAreFresh DEF FreshValue
  <2>2. FilterFills(f).time \in {caches["time"], FreshFill("time", Window(f))}
    BY <2>1 DEF FilterFills, FreshFill
  <2>3. QED
    BY <2>1, <2>2, Names, FillIsFresh, OldIsFresh DEF FreshFill
<1>6. QED
  BY <1>3, <1>4, <1>5

LEMMA MetadataPlanStep ==
  ASSUME IInv, NEW k, NEW f, MetadataPlan(k, f)
  PROVE  IInv'
<1> DEFINE fills == FilterFills(f)
           key == <<k, f>>
<1>2. /\ ViewOf(k) = FreshValue("view", k)
      /\ CachedPlan(ViewOf(k), f) = FreshValue("combined", key)
  BY LookupsAreFresh DEF FreshValue
<1>3. /\ caches' = [c \in CacheNames |->
                      IF c = "view" THEN FreshFill("view", k)
                      ELSE IF c = "tag" THEN fills.tag
                      ELSE IF c = "source" THEN fills.source
                      ELSE IF c = "time" THEN fills.time
                      ELSE IF c = "combined" THEN FreshFill("combined", key)
                      ELSE caches[c]]
      /\ UNCHANGED <<nodes, metadata, edges>>
  BY <1>2 DEF MetadataPlan, Query, FreshFill
<1> HIDE DEF fills, key
<1>4. \A c \in CacheNames : \A x \in DOMAIN caches'[c] :
        caches'[c][x] = FreshValue(c, x)
  BY <1>3, Names, FilterFillsFresh, FillIsFresh, OldIsFresh DEF fills, FreshFill
<1>5. QED
  BY <1>3, <1>4, CacheStep

\* Building a policy plan, with or without a need for the visits.
LEMMA NewPolicyPlanStep ==
  ASSUME IInv, NEW k, NEW f,
         NEW visits \in {caches["policy_visit"], FreshFill("policy_visit", k)},
         NewPolicyPlan(k, f, visits)
  PROVE  IInv'
<1> DEFINE fills == FilterFills(f)
           key == <<k, f>>
<1>2. CachedPlan(PolicyViewOf(k), f) = FreshValue("combined_policy", key)
  BY LookupsAreFresh DEF FreshValue
<1>3. /\ caches' = [c \in CacheNames |->
                      IF c = "policy_view" THEN FreshFill("policy_view", k)
                      ELSE IF c = "policy_visit" THEN visits
                      ELSE IF c = "tag" THEN fills.tag
                      ELSE IF c = "source" THEN fills.source
                      ELSE IF c = "time" THEN fills.time
                      ELSE IF c = "combined_policy" THEN FreshFill("combined_policy", key)
                      ELSE caches[c]]
      /\ UNCHANGED <<nodes, metadata, edges>>
  BY <1>2, PolicyFills DEF NewPolicyPlan, Query, FreshFill
<1> HIDE DEF fills, key
<1>4. \A c \in CacheNames : \A x \in DOMAIN caches'[c] :
        caches'[c][x] = FreshValue(c, x)
  <2>1. ASSUME NEW c \in CacheNames, NEW x \in DOMAIN caches'[c]
        PROVE  caches'[c][x] = FreshValue(c, x)
    <3>1. CASE c \in {"policy_view", "policy_visit"}
      BY <3>1, <2>1, <1>3, PolicyFills, OldIsFresh
    <3>2. CASE c \in {"tag", "source", "time"}
      BY <3>2, <2>1, <1>3, FilterFillsFresh DEF fills
    <3>3. CASE c = "combined_policy"
      BY <3>3, <2>1, <1>3, FillIsFresh DEF FreshFill
    <3>4. CASE c \in {"view", "combined"}
      BY <3>4, <2>1, <1>3, OldIsFresh
    <3>5. QED
      BY <3>1, <3>2, <3>3, <3>4, Names
  <2>2. QED
    BY <2>1
<1>5. QED
  BY <1>3, <1>4, CacheStep

LEMMA PolicyMetadataPlanStep ==
  ASSUME IInv, NEW k, NEW f, PolicyMetadataPlan(k, f)
  PROVE  IInv'
<1>1. VisitsNeeded(k) \in {caches["policy_visit"], FreshFill("policy_visit", k)}
  BY PolicyFills
<1>2. QED
  BY <1>1, NewPolicyPlanStep DEF PolicyMetadataPlan

LEMMA RerankSearchStep ==
  ASSUME IInv, NEW k, NEW f, RerankSearch(k, f)
  PROVE  IInv'
<1>1. Fill("policy_visit", k, VisitsOf(k)) = FreshFill("policy_visit", k)
  BY PolicyFills
<1>2. CASE NewPolicyPlan(k, f, FreshFill("policy_visit", k))
  BY <1>2, NewPolicyPlanStep
<1>3. CASE Query([policy_visit |-> FreshFill("policy_visit", k)])
  <2>1. /\ caches' = [c \in CacheNames |->
                        IF c = "policy_visit" THEN FreshFill("policy_visit", k) ELSE caches[c]]
        /\ UNCHANGED <<nodes, metadata, edges>>
    BY <1>3 DEF Query
  <2>2. \A c \in CacheNames : \A x \in DOMAIN caches'[c] :
          caches'[c][x] = FreshValue(c, x)
    BY <2>1, PolicyFills, OldIsFresh
  <2>3. QED
    BY <2>1, <2>2, CacheStep
<1>4. QED
  BY <1>1, <1>2, <1>3 DEF RerankSearch

LEMMA TraceSearchStep ==
  ASSUME IInv, NEW k, NEW f, TraceSearch(k, f)
  PROVE  IInv'
<1> DEFINE fills == FilterFills(f)
<1>1. ViewOf(k) = FreshValue("view", k)
  BY LookupsAreFresh DEF FreshValue
<1>2. /\ caches' = [c \in CacheNames |->
                      IF c = "view" THEN FreshFill("view", k)
                      ELSE IF c = "tag" THEN fills.tag
                      ELSE IF c = "source" THEN fills.source
                      ELSE IF c = "time" THEN fills.time
                      ELSE caches[c]]
      /\ UNCHANGED <<nodes, metadata, edges>>
  BY <1>1 DEF TraceSearch, Query, FreshFill
<1> HIDE DEF fills
<1>3. \A c \in CacheNames : \A x \in DOMAIN caches'[c] :
        caches'[c][x] = FreshValue(c, x)
  BY <1>1, <1>2, Names, FilterFillsFresh, FillIsFresh, OldIsFresh DEF fills, FreshFill
<1>4. QED
  BY <1>2, <1>3, CacheStep

LEMMA TrimStep ==
  ASSUME IInv, NEW budgets, Trim(budgets)
  PROVE  IInv'
<1>1. \A c \in CacheNames : \A x \in DOMAIN caches'[c] :
        caches'[c][x] = FreshValue(c, x)
  BY OldIsFresh DEF Trim
<1>2. QED
  BY <1>1, CacheStep DEF Trim

-----------------------------------------------------------------------------
\* Mutations.

\* Clearing every cache leaves nothing stale.
LEMMA ClearAll ==
  ASSUME IInv, caches' = Clear(CacheNames)
  PROVE  /\ CachesFresh'
         /\ DOMAIN caches' = CacheNames
  BY DEF Clear, EmptyFn, CachesFresh

LEMMA MetadataAreRecords == Metadata \subseteq Record
  BY GraphConstantsOK DEF GraphConstantsOK, Record

\* What the caches a mutation keeps depend on did not change.
LEMMA ReplaceEmbeddingStep ==
  ASSUME IInv, NEW i \in Ids, NEW v \in Vectors, ReplaceEmbedding(i, v)
  PROVE  IInv'
<1>1. /\ slot_to_id' = slot_to_id /\ id_to_slot' = id_to_slot
      /\ records' = records /\ tag_to_ids' = tag_to_ids
      /\ source_to_ids' = source_to_ids /\ time_index' = time_index
      /\ edges' = edges /\ caches' = caches
      /\ rows' = SwapRemove(Append(rows, v), id_to_slot[i])
      /\ i \in Live
  BY DEF ReplaceEmbedding, metadata
<1>2. /\ rows \in Seq(Vectors) /\ Len(rows) = Len(slot_to_id)
      /\ id_to_slot[i] \in 1..Len(rows)
  <2>1. PICK s \in 1..Len(slot_to_id) : slot_to_id[s] = i
    BY <1>1 DEF IInv, NodesAligned, Elements
  <2>2. QED
    BY <2>1 DEF IInv, NodesAligned, Tables
<1>3. rows' \in Seq(Vectors) /\ Len(rows') = Len(rows)
  <2>1. /\ Append(rows, v) \in Seq(Vectors)
        /\ Len(Append(rows, v)) = Len(rows) + 1
        /\ id_to_slot[i] \in 1..Len(Append(rows, v))
    BY <1>2
  <2> DEFINE longer == Append(rows, v)
  <2>2. rows' = SwapRemove(longer, id_to_slot[i])
    BY <1>1
  <2> HIDE DEF longer
  <2>3. /\ SwapRemove(longer, id_to_slot[i]) \in Seq(Vectors)
        /\ Len(SwapRemove(longer, id_to_slot[i])) = Len(longer) - 1
    BY <2>1, SwapRemoveProperties DEF longer
  <2>4. QED
    BY <2>1, <2>2, <2>3, <1>2 DEF longer
<1>4. \A c, k : FreshValue(c, k)' = FreshValue(c, k)
  BY <1>1 DEF FreshValue, FreshPlan, PolicyMask, ViewMask, Visits, TagMask, SourceMask,
              TimeMask, MaskOf, Live
<1>5. CachesFresh'
  BY <1>1, <1>4 DEF IInv, CachesFresh
<1>6. Tables' /\ NodesAligned' /\ EdgesLive' /\ RecordsIndexed'
  BY <1>1, <1>3 DEF IInv, Tables, NodesAligned, EdgesLive, RecordsIndexed, Live
<1>7. QED
  BY <1>5, <1>6 DEF IInv

LEMMA ReplaceMetadataStep ==
  ASSUME IInv, NEW i \in Ids, NEW r \in Metadata, ReplaceMetadata(i, r)
  PROVE  IInv'
<1>1. /\ rows' = rows /\ slot_to_id' = slot_to_id /\ id_to_slot' = id_to_slot
      /\ edges' = edges /\ i \in Live
      /\ records' = [records EXCEPT ![i] = r]
      /\ caches' = Clear(MetadataCaches)
      /\ tag_to_ids' = IndexTags(UnindexTags(tag_to_ids, i, records[i]), i, r)
      /\ source_to_ids' = IndexSource(UnindexSource(source_to_ids, i, records[i]), i, r)
      /\ time_index' = (time_index \ TimeEntry(i, records[i])) \cup TimeEntry(i, r)
  BY DEF ReplaceMetadata, nodes
<1>2. /\ DOMAIN records = Live /\ records \in [Live -> Record] /\ Live \subseteq Ids
      /\ records' \in [Live -> Record]
      /\ \A j \in Live : records'[j] = IF j = i THEN r ELSE records[j]
  BY <1>1, MetadataAreRecords DEF IInv, Tables, NodesAligned
<1>3. \A t \in Tags : tag_to_ids'[t] = {j \in Live : t \in records'[j].tags}
  BY <1>1, <1>2 DEF IInv, RecordsIndexed, IndexTags, UnindexTags
<1>4. \A s \in Sources : source_to_ids'[s] = {j \in Live : records'[j].source = s}
  BY <1>1, <1>2 DEF IInv, RecordsIndexed, IndexSource, UnindexSource
<1>5. time_index' = {<<records'[j].time, j>> : j \in {j \in Live : records'[j].time # NoTime}}
  <2>1. time_index = {<<records[j].time, j>> : j \in {j \in Live : records[j].time # NoTime}}
    BY DEF IInv, RecordsIndexed
  <2>2. QED
    BY <2>1, <1>1, <1>2 DEF TimeEntry
<1>6. RecordsIndexed'
  BY <1>1, <1>3, <1>4, <1>5 DEF RecordsIndexed, Live
<1>7. Tables'
  <2>1. /\ tag_to_ids' \in [Tags -> SUBSET Ids]
        /\ source_to_ids' \in [Sources -> SUBSET Ids]
    BY <1>1, <1>2, <1>3, <1>4 DEF IndexTags, IndexSource
  <2>2. time_index' \subseteq Int \X Ids
    <3>1. \A m \in Record : m.time \in Int \cup {NoTime}
      BY DEF Record
    <3>2. QED
      BY <3>1, <1>2, <1>5
  <2>3. DOMAIN caches' = CacheNames
    BY <1>1 DEF IInv, Tables, Clear, EmptyFn
  <2>4. QED
    BY <1>1, <1>2, <2>1, <2>2, <2>3 DEF IInv, Tables, Live
<1>8. CachesFresh'
  <2>1. \A k : \A c \in {"view", "policy_visit", "policy_view"} :
          FreshValue(c, k)' = FreshValue(c, k)
    BY <1>1 DEF FreshValue, PolicyMask, ViewMask, Visits, MaskOf, Live
  <2>2. \A c \in CacheNames : \/ caches'[c] = EmptyFn
                              \/ /\ c \in {"view", "policy_visit", "policy_view"}
                                 /\ caches'[c] = caches[c]
    BY <1>1, Names DEF Clear, MetadataCaches
  <2>3. QED
    BY <2>1, <2>2 DEF IInv, CachesFresh, EmptyFn
<1>9. NodesAligned' /\ EdgesLive'
  BY <1>1, <1>2 DEF IInv, NodesAligned, EdgesLive, Live
<1>10. QED
  BY <1>6, <1>7, <1>8, <1>9 DEF IInv

LEMMA LinkStep ==
  ASSUME IInv, NEW pairs \in LinkCalls, NEW w \in Weights, Link(pairs, w)
  PROVE  IInv'
<1>1. /\ rows' = rows /\ slot_to_id' = slot_to_id /\ id_to_slot' = id_to_slot
      /\ records' = records /\ tag_to_ids' = tag_to_ids
      /\ source_to_ids' = source_to_ids /\ time_index' = time_index
      /\ caches' = Clear(GraphCaches)
      /\ edges' = [e \in DOMAIN edges \cup pairs |-> IF e \in pairs THEN w ELSE edges[e]]
      /\ \A e \in pairs : e[1] \in Live /\ e[2] \in Live
  BY DEF Link, nodes, metadata
<1>2. pairs \subseteq Ids \X Ids
  BY GraphConstantsOK DEF GraphConstantsOK
<1>3. CachesFresh'
  <2>1. \A k : \A c \in {"tag", "source", "time"} : FreshValue(c, k)' = FreshValue(c, k)
    BY <1>1 DEF FreshValue, TagMask, SourceMask, TimeMask, MaskOf, Live
  <2>2. \A c \in CacheNames : \/ caches'[c] = EmptyFn
                              \/ c \in {"tag", "source", "time"} /\ caches'[c] = caches[c]
    BY <1>1, Names DEF Clear, GraphCaches
  <2>3. QED
    BY <2>1, <2>2 DEF IInv, CachesFresh, EmptyFn
<1>4. Tables'
  <2>1. DOMAIN edges' \subseteq Ids \X Ids /\ edges' \in [DOMAIN edges' -> Weights]
    BY <1>1, <1>2 DEF IInv, Tables
  <2>4. IsFiniteSet(DOMAIN edges')
    <3>1. IsFiniteSet(pairs) /\ IsFiniteSet(DOMAIN edges) /\ DOMAIN edges' = DOMAIN edges \cup pairs
      BY <1>1, GraphConstantsOK DEF GraphConstantsOK, IInv, Tables
    <3>2. QED
      BY <3>1, FS_Union
  <2>2. DOMAIN caches' = CacheNames
    BY <1>1 DEF IInv, Tables, Clear, EmptyFn
  <2>3. QED
    BY <1>1, <2>1, <2>2, <2>4 DEF IInv, Tables, Live
<1>5. NodesAligned' /\ EdgesLive' /\ RecordsIndexed'
  BY <1>1 DEF IInv, NodesAligned, EdgesLive, RecordsIndexed, Live
<1>6. QED
  BY <1>3, <1>4, <1>5 DEF IInv

\* The slot of a live id, and the id in it.
LEMMA SlotOf ==
  ASSUME Tables, NodesAligned, NEW i \in Live
  PROVE  /\ id_to_slot[i] \in 1..Len(slot_to_id)
         /\ slot_to_id[id_to_slot[i]] = i
<1>1. PICK s \in 1..Len(slot_to_id) : slot_to_id[s] = i
  BY DEF NodesAligned, Elements
<1>2. QED
  BY <1>1 DEF NodesAligned

LEMMA RemoveNodeStep ==
  ASSUME IInv, NEW i \in Ids, RemoveNode(i)
  PROVE  IInv'
<1> DEFINE slot == id_to_slot[i]
           last == Len(slot_to_id)
<1>1. /\ i \in Live /\ Live = Elements(slot_to_id)
      /\ slot_to_id \in Seq(Ids) /\ rows \in Seq(Vectors)
      /\ slot \in 1..last /\ slot_to_id[slot] = i
      /\ Len(rows) = last /\ last \in Nat
      /\ \A s \in 1..last : id_to_slot[slot_to_id[s]] = s
      /\ DOMAIN records = Live /\ records \in [Live -> Record]
      /\ id_to_slot \in [Live -> Nat] /\ Live \subseteq Ids
  BY SlotOf DEF IInv, RemoveNode, Tables, NodesAligned
<1>2. IsDistinct(slot_to_id)
  BY <1>1 DEF IsDistinct
<1>3. /\ rows' = SwapRemove(rows, slot)
      /\ slot_to_id' = SwapRemove(slot_to_id, slot)
      /\ id_to_slot' = [j \in Live \ {i} |->
                          IF slot # last /\ j = slot_to_id[last] THEN slot
                          ELSE id_to_slot[j]]
      /\ records' = [j \in DOMAIN records \ {i} |-> records[j]]
      /\ edges' = [e \in {e \in DOMAIN edges : e[1] # i /\ e[2] # i} |-> edges[e]]
      /\ tag_to_ids' = UnindexTags(tag_to_ids, i, records[i])
      /\ source_to_ids' = UnindexSource(source_to_ids, i, records[i])
      /\ time_index' = time_index \ TimeEntry(i, records[i])
      /\ caches' = Clear(CacheNames)
  BY DEF RemoveNode, EdgesWithout
<1> HIDE DEF slot
<1>4. /\ slot_to_id' \in Seq(Ids) /\ Len(slot_to_id') = last - 1
      /\ \A j \in 1..(last - 1) :
           slot_to_id'[j] = IF j = slot THEN slot_to_id[last] ELSE slot_to_id[j]
  BY <1>1, <1>3, SwapRemoveProperties
<1>5. rows' \in Seq(Vectors) /\ Len(rows') = last - 1
  <2>1. rows \in Seq(Vectors) /\ slot \in 1..Len(rows) /\ rows' = SwapRemove(rows, slot)
    BY <1>1, <1>3
  <2>2. QED
    BY <2>1, <1>1, SwapRemoveProperties
<1>6. Elements(slot_to_id') = Elements(slot_to_id) \ {i}
  BY <1>1, <1>2, <1>3, ElementsSwapRemove
<1>7. Live' = Live \ {i} /\ DOMAIN id_to_slot' = Live \ {i}
  BY <1>3 DEF Live
<1>8. /\ DOMAIN records' = Live' /\ records' \in [Live' -> Record]
      /\ \A j \in Live' : records'[j] = records[j]
  BY <1>1, <1>3, <1>7
<1>9. NodesAligned'
  <2>1. ASSUME NEW s \in 1..Len(slot_to_id')
        PROVE  id_to_slot'[slot_to_id'[s]] = s
    <3>1. /\ s \in 1..(last - 1) /\ s \in 1..last /\ last \in 1..last
          /\ slot_to_id'[s] \in Elements(slot_to_id')
      BY <1>1, <1>4 DEF Elements
    <3>2. slot_to_id'[s] \in Live \ {i}
      BY <3>1, <1>1, <1>6
    <3>3. CASE s = slot
      BY <3>1, <3>2, <3>3, <1>1, <1>3, <1>4
    <3>4. CASE s # slot
      <4>1. slot_to_id'[s] = slot_to_id[s] /\ slot_to_id[s] # slot_to_id[last]
        BY <3>1, <3>4, <1>2, <1>4 DEF IsDistinct
      <4>2. QED
        BY <4>1, <3>1, <3>2, <1>1, <1>3
    <3>5. QED
      BY <3>3, <3>4
  <2>2. QED
    BY <2>1, <1>1, <1>4, <1>5, <1>6, <1>7, <1>8 DEF NodesAligned
<1>10. EdgesLive'
  BY <1>3, <1>7 DEF IInv, EdgesLive
<1>11. RecordsIndexed'
  <2>1. \A t \in Tags : tag_to_ids'[t] = {j \in Live' : t \in records'[j].tags}
    BY <1>1, <1>3, <1>7, <1>8 DEF IInv, RecordsIndexed, UnindexTags
  <2>2. \A s \in Sources : source_to_ids'[s] = {j \in Live' : records'[j].source = s}
    BY <1>1, <1>3, <1>7, <1>8 DEF IInv, RecordsIndexed, UnindexSource
  <2>3. time_index' = {<<records'[j].time, j>> : j \in {j \in Live' : records'[j].time # NoTime}}
    <3>1. time_index = {<<records[j].time, j>> : j \in {j \in Live : records[j].time # NoTime}}
      BY DEF IInv, RecordsIndexed
    <3>2. ASSUME NEW x \in time_index'
          PROVE  \E j \in Live' : x = <<records'[j].time, j>> /\ records'[j].time # NoTime
      <4>1. PICK j \in Live : x = <<records[j].time, j>> /\ records[j].time # NoTime
        BY <3>1, <1>3
      <4>2. j # i
        BY <4>1, <1>3 DEF TimeEntry
      <4>3. QED
        BY <4>1, <4>2, <1>7, <1>8
    <3>3. ASSUME NEW j \in Live', records'[j].time # NoTime
          PROVE  <<records'[j].time, j>> \in time_index'
      <4>1. j \in Live /\ j # i /\ records'[j] = records[j]
        BY <1>7, <1>8
      <4>2. <<records[j].time, j>> \in time_index
        BY <4>1, <3>1, <3>3
      <4>3. <<records[j].time, j>> \notin TimeEntry(i, records[i])
        BY <4>1 DEF TimeEntry
      <4>4. QED
        BY <4>1, <4>2, <4>3, <1>3
    <3>4. QED
      BY <3>2, <3>3
  <2>4. QED
    BY <2>1, <2>2, <2>3 DEF RecordsIndexed
<1>12. CachesFresh' /\ DOMAIN caches' = CacheNames
  BY <1>3, ClearAll
<1>13. Tables'
  <2>1. id_to_slot' \in [Live' -> Nat] /\ Live' \subseteq Ids
    BY <1>1, <1>3, <1>7
  <2>2. /\ tag_to_ids' \in [Tags -> SUBSET Ids]
        /\ source_to_ids' \in [Sources -> SUBSET Ids]
        /\ time_index' \subseteq Int \X Ids
    BY <1>3 DEF IInv, Tables, UnindexTags, UnindexSource
  <2>3. DOMAIN edges' \subseteq Ids \X Ids /\ edges' \in [DOMAIN edges' -> Weights]
    BY <1>3 DEF IInv, Tables
  <2>4. IsFiniteSet(DOMAIN edges')
    <3>1. IsFiniteSet(DOMAIN edges) /\ DOMAIN edges' \in SUBSET DOMAIN edges
      BY <1>3 DEF IInv, Tables
    <3>2. QED
      BY <3>1, FS_Subset
  <2>5. QED
    BY <1>4, <1>5, <1>8, <1>12, <2>1, <2>2, <2>3, <2>4 DEF Tables
<1>14. QED
  BY <1>9, <1>10, <1>11, <1>12, <1>13 DEF IInv

\* What add_records receives.
LEMMA BatchProperties ==
  ASSUME NEW n \in 0..MaxBatch, NEW ids \in [1..n -> Ids], NEW vs \in [1..n -> Vectors],
         NEW rs \in [1..n -> Metadata]
  PROVE  /\ ids \in Seq(Ids) /\ vs \in Seq(Vectors)
         /\ Len(ids) = n /\ Len(vs) = n /\ n \in Nat
         /\ \A i \in Elements(ids) : /\ PositionIn(ids, i) \in 1..n
                                     /\ rs[PositionIn(ids, i)] \in Record
                                     /\ i \in Ids
<1>1. n \in Nat
  BY GraphConstantsOK DEF GraphConstantsOK
<1>2. ids \in Seq(Ids) /\ vs \in Seq(Vectors) /\ Len(ids) = n /\ Len(vs) = n
  BY <1>1, ArrayIsSeq
<1>3. \A i \in Elements(ids) : PositionIn(ids, i) \in 1..n /\ i \in Ids
  BY <1>2, PositionInProperties DEF Elements
<1>4. QED
  BY <1>1, <1>2, <1>3, MetadataAreRecords

LEMMA AddRecordsStep ==
  ASSUME IInv, NEW n \in 0..MaxBatch, NEW ids \in [1..n -> Ids], NEW vs \in [1..n -> Vectors],
         NEW rs \in [1..n -> Metadata], AddRecords(ids, vs, rs)
  PROVE  IInv'
<1> DEFINE base == Len(slot_to_id)
           new == Elements(ids)
           of(i) == rs[PositionIn(ids, i)]
<1>1. /\ new \cap Live = {} /\ IsDistinct(ids)
      /\ rows' = rows \o vs
      /\ slot_to_id' = slot_to_id \o ids
      /\ id_to_slot' = [i \in Live \cup new |->
                          IF i \in new THEN base + PositionIn(ids, i) ELSE id_to_slot[i]]
      /\ records' = [i \in DOMAIN records \cup new |->
                       IF i \in new THEN of(i) ELSE records[i]]
      /\ tag_to_ids' = [t \in Tags |-> tag_to_ids[t] \cup {i \in new : t \in of(i).tags}]
      /\ source_to_ids' = [s \in Sources |->
                             source_to_ids[s] \cup {i \in new : s = of(i).source}]
      /\ time_index' = time_index \cup UNION {TimeEntry(i, of(i)) : i \in new}
      /\ caches' = Clear(CacheNames)
      /\ edges' = edges
  BY DEF AddRecords
<1>2. /\ ids \in Seq(Ids) /\ vs \in Seq(Vectors)
      /\ Len(ids) = n /\ Len(vs) = n /\ n \in Nat
      /\ \A i \in new : /\ PositionIn(ids, i) \in 1..n
                        /\ of(i) \in Record
                        /\ i \in Ids
  BY BatchProperties
<1>3. /\ Live = Elements(slot_to_id) /\ Live \subseteq Ids
      /\ slot_to_id \in Seq(Ids) /\ rows \in Seq(Vectors)
      /\ Len(rows) = base /\ base \in Nat
      /\ \A s \in 1..base : id_to_slot[slot_to_id[s]] = s
      /\ DOMAIN records = Live /\ records \in [Live -> Record]
      /\ id_to_slot \in [Live -> Nat]
  BY DEF IInv, Tables, NodesAligned
<1> HIDE DEF of, new
<1>4. /\ slot_to_id' \in Seq(Ids) /\ Len(slot_to_id') = base + n
      /\ \A j \in 1..base : slot_to_id'[j] = slot_to_id[j]
      /\ \A j \in 1..n : slot_to_id'[base + j] = ids[j]
  <2>1. slot_to_id \in Seq(Ids) /\ ids \in Seq(Ids) /\ slot_to_id' = slot_to_id \o ids
    BY <1>1, <1>2, <1>3
  <2>2. QED
    BY <2>1, <1>2, ExtendProperties
<1>5. rows' \in Seq(Vectors) /\ Len(rows') = base + n
  <2>1. rows \in Seq(Vectors) /\ vs \in Seq(Vectors) /\ rows' = rows \o vs
    BY <1>1, <1>2, <1>3
  <2>2. rows \o vs \in Seq(Vectors) /\ Len(rows \o vs) = Len(rows) + Len(vs)
    BY <2>1, ExtendProperties
  <2>3. QED
    BY <2>1, <2>2, <1>2, <1>3
<1>6. Elements(slot_to_id') = Live \cup new
  BY <1>1, <1>2, <1>3, ElementsExtend DEF new
<1>7. Live' = Live \cup new /\ DOMAIN id_to_slot' = Live \cup new
  BY <1>1 DEF Live
<1>8. /\ DOMAIN records' = Live' /\ records' \in [Live' -> Record]
      /\ \A j \in Live : j \notin new /\ records'[j] = records[j]
      /\ \A j \in new : records'[j] = of(j)
  BY <1>1, <1>2, <1>3, <1>7
<1>9. NodesAligned'
  <2>1. \A j \in 1..n : ids[j] \in new /\ PositionIn(ids, ids[j]) = j
    BY <1>1, <1>2, PositionInDistinct DEF Elements, new
  <2>2. ASSUME NEW s \in 1..Len(slot_to_id')
        PROVE  id_to_slot'[slot_to_id'[s]] = s
    <3>1. CASE s <= base
      <4>1. slot_to_id'[s] = slot_to_id[s] /\ s \in 1..base
        BY <3>1, <1>3, <1>4
      <4>2. slot_to_id[s] \in Live /\ slot_to_id[s] \notin new
        BY <4>1, <1>3, <1>8 DEF Elements
      <4>3. QED
        BY <4>1, <4>2, <1>1, <1>3
    <3>2. CASE s > base
      <4> DEFINE j == s - base
      <4>1. j \in 1..n /\ s = base + j
        BY <3>2, <1>2, <1>3, <1>4
      <4>2. slot_to_id'[s] = ids[j]
        BY <4>1, <1>4
      <4>3. QED
        BY <4>1, <4>2, <1>1, <2>1
    <3>3. QED
      BY <3>1, <3>2, <1>3, <1>4
  <2>3. QED
    BY <2>2, <1>4, <1>5, <1>6, <1>7, <1>8 DEF NodesAligned
<1>10. EdgesLive'
  BY <1>1, <1>7 DEF IInv, EdgesLive
<1>11. RecordsIndexed'
  <2>1. \A t \in Tags : tag_to_ids'[t] = {j \in Live' : t \in records'[j].tags}
    BY <1>1, <1>3, <1>7, <1>8 DEF IInv, RecordsIndexed
  <2>2. \A s \in Sources : source_to_ids'[s] = {j \in Live' : records'[j].source = s}
    BY <1>1, <1>3, <1>7, <1>8 DEF IInv, RecordsIndexed
  <2>3. time_index' = {<<records'[j].time, j>> : j \in {j \in Live' : records'[j].time # NoTime}}
    <3>1. time_index = {<<records[j].time, j>> : j \in {j \in Live : records[j].time # NoTime}}
      BY DEF IInv, RecordsIndexed
    <3>2. ASSUME NEW x \in time_index'
          PROVE  \E j \in Live' : x = <<records'[j].time, j>> /\ records'[j].time # NoTime
      <4>1. CASE x \in time_index
        <5>1. PICK j \in Live : x = <<records[j].time, j>> /\ records[j].time # NoTime
          BY <4>1, <3>1
        <5>2. QED
          BY <5>1, <1>7, <1>8
      <4>2. CASE \E j \in new : x \in TimeEntry(j, of(j))
        <5>1. PICK j \in new : x \in TimeEntry(j, of(j))
          BY <4>2
        <5>2. QED
          BY <5>1, <1>7, <1>8 DEF TimeEntry
      <4>3. QED
        BY <4>1, <4>2, <1>1
    <3>3. ASSUME NEW j \in Live', records'[j].time # NoTime
          PROVE  <<records'[j].time, j>> \in time_index'
      <4>1. CASE j \in Live
        BY <4>1, <3>1, <3>3, <1>1, <1>8
      <4>2. CASE j \in new
        <5>1. <<records'[j].time, j>> \in TimeEntry(j, of(j))
          BY <4>2, <3>3, <1>8 DEF TimeEntry
        <5>2. QED
          BY <5>1, <4>2, <1>1
      <4>3. QED
        BY <4>1, <4>2, <1>7
    <3>4. QED
      BY <3>2, <3>3
  <2>4. QED
    BY <2>1, <2>2, <2>3 DEF RecordsIndexed
<1>12. CachesFresh' /\ DOMAIN caches' = CacheNames
  BY <1>1, ClearAll
<1>13. Tables'
  <2>1. id_to_slot' \in [Live' -> Nat] /\ Live' \subseteq Ids
    BY <1>1, <1>2, <1>3, <1>7
  <2>2. /\ tag_to_ids' \in [Tags -> SUBSET Ids]
        /\ source_to_ids' \in [Sources -> SUBSET Ids]
    BY <1>1, <1>2 DEF IInv, Tables
  <2>3. time_index' \subseteq Int \X Ids
    <3>1. \A m \in Record : m.time \in Int \cup {NoTime}
      BY DEF Record
    <3>2. \A j \in new : TimeEntry(j, of(j)) \subseteq Int \X Ids
      BY <3>1, <1>2 DEF TimeEntry
    <3>3. QED
      BY <3>2, <1>1 DEF IInv, Tables
  <2>4. QED
    BY <1>1, <1>4, <1>5, <1>8, <1>12, <2>1, <2>2, <2>3 DEF IInv, Tables
<1>14. QED
  BY <1>9, <1>10, <1>11, <1>12, <1>13 DEF IInv

-----------------------------------------------------------------------------

LEMMA InitStep ==
  ASSUME Init
  PROVE  IInv
<1>1. DOMAIN edges = {} /\ IsFiniteSet({})
  BY FS_EmptySet DEF Init, EmptyFn
<1>2. Live = {} /\ DOMAIN records = {} /\ DOMAIN caches = CacheNames
  BY DEF Init, EmptyFn, Live
<1>3. Tables
  BY <1>1, <1>2 DEF Init, Tables, EmptyFn
<1>4. NodesAligned /\ EdgesLive /\ RecordsIndexed /\ CachesFresh
  BY <1>1, <1>2 DEF Init, NodesAligned, EdgesLive, RecordsIndexed, CachesFresh, EmptyFn, Elements
<1>5. QED
  BY <1>3, <1>4 DEF IInv

LEMMA NextStep ==
  ASSUME IInv, [Next]_vars
  PROVE  IInv'
<1>1. ASSUME Mutation
      PROVE  IInv'
  BY <1>1, AddRecordsStep, ReplaceEmbeddingStep, ReplaceMetadataStep, RemoveNodeStep,
     LinkStep DEF Mutation
<1>2. ASSUME Lookups
      PROVE  IInv'
  BY <1>2, GraphViewStep, MetadataPlanStep, PolicyViewStep, PolicyMetadataPlanStep,
     RerankSearchStep, TraceSearchStep, MaskQueryStep, TrimStep DEF Lookups
<1>3. ASSUME UNCHANGED vars
      PROVE  IInv'
  <2>1. UNCHANGED <<nodes, metadata, edges>> /\ caches' = caches
    BY <1>3 DEF vars
  <2>2. DOMAIN caches = CacheNames
    BY DEF IInv, Tables
  <2>3. QED
    BY <2>1, <2>2, OldIsFresh, CacheStep
<1>4. QED
  BY <1>1, <1>2, <1>3 DEF Next

\* Tables, edges, indexes and caches stay consistent under any sequence of
\* mutations, queries and cache trims.
THEOREM Invariance == Spec => []IInv
  BY InitStep, NextStep, PTL DEF Spec

\* Within a run of Spec, records are those callers store and keys those of the
\* queries.
KeysKept == /\ \A i \in DOMAIN records : records[i] \in Metadata
            /\ \A c \in CacheNames : DOMAIN caches[c] \subseteq Keys(c)

\* A query that adds no unknown key to the caches it touches.
LEMMA QueryKeys ==
  ASSUME KeysKept, NEW updated, Query(updated),
         \A c \in DOMAIN updated : DOMAIN updated[c] \subseteq Keys(c)
  PROVE  KeysKept'
<1>1. records' = records
  BY DEF Query, metadata
<1>2. \A c \in CacheNames : DOMAIN caches'[c] \subseteq Keys(c)
  BY DEF Query, KeysKept
<1>3. \A c : Keys(c)' = Keys(c)
  BY DEF Keys, Window
<1>4. QED
  BY <1>1, <1>2, <1>3 DEF KeysKept

\* The keys of a cache after one is filled, and of those that hold visits and
\* filtered masks.
LEMMA FilledKeys ==
  ASSUME KeysKept
  PROVE  /\ \A c \in CacheNames : \A k \in Keys(c) : \A value :
              DOMAIN Fill(c, k, value) \subseteq Keys(c)
         /\ \A k \in PolicyKeys : DOMAIN VisitsNeeded(k) \subseteq PolicyKeys
         /\ \A f \in Filters : /\ DOMAIN FilterFills(f).tag \subseteq Tags
                               /\ DOMAIN FilterFills(f).source \subseteq Sources
                               /\ DOMAIN FilterFills(f).time \subseteq Keys("time")
<1>1. \A c \in CacheNames : \A k \in Keys(c) : \A value : DOMAIN Fill(c, k, value) \subseteq Keys(c)
  BY DEF KeysKept, Fill
<1>2. \A k \in PolicyKeys : DOMAIN VisitsNeeded(k) \subseteq PolicyKeys
  <2>1. Keys("policy_visit") = PolicyKeys /\ "policy_visit" \in CacheNames
    BY Names DEF Keys
  <2>2. QED
    BY <1>1, <2>1 DEF VisitsNeeded, KeysKept
<1>3. /\ DOMAIN caches["tag"] \subseteq Tags /\ DOMAIN caches["source"] \subseteq Sources
      /\ DOMAIN caches["time"] \subseteq Keys("time")
  BY Names DEF KeysKept, Keys
<1>4. \A f \in Filters : f.tags \subseteq Tags /\ f.sources \subseteq Sources
                         /\ Window(f) \in Keys("time")
  BY GraphConstantsOK DEF GraphConstantsOK, Keys
<1>5. ASSUME NEW f \in Filters
      PROVE  /\ DOMAIN FilterFills(f).tag \subseteq Tags
             /\ DOMAIN FilterFills(f).source \subseteq Sources
             /\ DOMAIN FilterFills(f).time \subseteq Keys("time")
  <2>1. \A value : DOMAIN Fill("time", Window(f), value) \subseteq Keys("time")
    BY <1>1, <1>4, Names
  <2>2. DOMAIN FilterFills(f).time \subseteq Keys("time")
    BY <1>3, <2>1 DEF FilterFills
  <2>3. QED
    BY <1>3, <1>4, <2>2 DEF FilterFills
<1>6. QED
  BY <1>1, <1>2, <1>5

LEMMA LookupsKeepKeys ==
  ASSUME KeysKept, Lookups
  PROVE  KeysKept'
<1> DEFINE known(updated) == \A c \in DOMAIN updated : DOMAIN updated[c] \subseteq Keys(c)
<1>1. /\ Keys("view") = ViewKeys /\ Keys("policy_visit") = PolicyKeys
      /\ Keys("policy_view") = PolicyKeys /\ Keys("tag") = Tags /\ Keys("source") = Sources
      /\ Keys("combined") = ViewKeys \X Filters
      /\ Keys("combined_policy") = PolicyKeys \X Filters
      /\ \A f \in Filters : Window(f) \in Keys("time")
  BY DEF Keys
<1>2. \A updated : Query(updated) /\ known(updated) => KeysKept'
  BY QueryKeys
<1> HIDE DEF known
<1>3. ASSUME NEW k \in ViewKeys, GraphView(k)
      PROVE  KeysKept'
  <2>1. known([view |-> Fill("view", k, ViewOf(k))])
    BY <1>1, FilledKeys, Names DEF known
  <2>2. QED
    BY <1>2, <1>3, <2>1 DEF GraphView
<1>4. ASSUME NEW k \in ViewKeys, NEW f \in Filters, MetadataPlan(k, f)
      PROVE  KeysKept'
  <2> DEFINE fills == FilterFills(f)
             updated == [view |-> Fill("view", k, ViewOf(k)),
                         tag |-> fills.tag, source |-> fills.source, time |-> fills.time,
                         combined |-> Fill("combined", <<k, f>>, CachedPlan(ViewOf(k), f))]
  <2>1. known(updated)
    BY <1>1, FilledKeys, Names DEF known
  <2>2. Query(updated)
    BY <1>4 DEF MetadataPlan
  <2>3. QED
    BY <1>2, <2>1, <2>2
<1>5. ASSUME NEW k \in ViewKeys, NEW f \in Filters, TraceSearch(k, f)
      PROVE  KeysKept'
  <2> DEFINE fills == FilterFills(f)
             updated == [view |-> Fill("view", k, ViewOf(k)),
                         tag |-> fills.tag, source |-> fills.source, time |-> fills.time]
  <2>1. known(updated)
    BY <1>1, FilledKeys, Names DEF known
  <2>2. Query(updated)
    BY <1>5 DEF TraceSearch
  <2>3. QED
    BY <1>2, <2>1, <2>2
<1>6. ASSUME NEW k \in PolicyKeys, NEW visits, DOMAIN visits \subseteq PolicyKeys,
             Query([policy_view |-> Fill("policy_view", k, PolicyViewOf(k)),
                    policy_visit |-> visits])
      PROVE  KeysKept'
  <2>1. known([policy_view |-> Fill("policy_view", k, PolicyViewOf(k)), policy_visit |-> visits])
    BY <1>1, <1>6, FilledKeys, Names DEF known
  <2>2. QED
    BY <1>2, <1>6, <2>1
<1>7. ASSUME NEW k \in PolicyKeys, NEW f \in Filters, NEW visits,
             DOMAIN visits \subseteq PolicyKeys, NewPolicyPlan(k, f, visits)
      PROVE  KeysKept'
  <2> DEFINE fills == FilterFills(f)
             updated == [policy_view |-> Fill("policy_view", k, PolicyViewOf(k)),
                         policy_visit |-> visits,
                         tag |-> fills.tag, source |-> fills.source, time |-> fills.time,
                         combined_policy |-> Fill("combined_policy", <<k, f>>,
                                                  CachedPlan(PolicyViewOf(k), f))]
  <2>1. known(updated)
    BY <1>1, <1>7, FilledKeys, Names DEF known
  <2>2. Query(updated)
    BY <1>7 DEF NewPolicyPlan
  <2>3. QED
    BY <1>2, <2>1, <2>2
<1>8. \A k \in PolicyKeys : /\ DOMAIN VisitsNeeded(k) \subseteq PolicyKeys
                            /\ DOMAIN Fill("policy_visit", k, VisitsOf(k)) \subseteq PolicyKeys
  BY <1>1, FilledKeys, Names
<1>9. ASSUME NEW k \in PolicyKeys, Query([policy_visit |-> Fill("policy_visit", k, VisitsOf(k))])
      PROVE  KeysKept'
  <2>1. known([policy_visit |-> Fill("policy_visit", k, VisitsOf(k))])
    BY <1>1, <1>8 DEF known
  <2>2. QED
    BY <1>2, <1>9, <2>1
<1>10. ASSUME \/ \E t \in Tags : TagView(t)
              \/ \E s \in Sources : SourceView(s)
              \/ \E f \in Filters : TimeView(Window(f))
       PROVE  KeysKept'
  <2>1. \A t \in Tags : known([tag |-> Fill("tag", t, TagOf(t))])
    BY <1>1, FilledKeys, Names DEF known
  <2>2. \A s \in Sources : known([source |-> Fill("source", s, SourceOf(s))])
    BY <1>1, FilledKeys, Names DEF known
  <2>3. \A f \in Filters : known([time |-> Fill("time", Window(f), TimeOf(Window(f)))])
    BY <1>1, FilledKeys, Names DEF known
  <2>4. QED
    BY <1>2, <1>10, <2>1, <2>2, <2>3 DEF TagView, SourceView, TimeView
<1>11. ASSUME NEW b \in Budgets, Trim(b)
       PROVE  KeysKept'
  <2>1. records' = records
    BY <1>11 DEF Trim, metadata
  <2>2. \A c \in CacheNames : DOMAIN caches'[c] \subseteq Keys(c)
    BY <1>11 DEF Trim, KeysKept
  <2>3. \A c : Keys(c)' = Keys(c)
    BY DEF Keys, Window
  <2>4. QED
    BY <2>1, <2>2, <2>3 DEF KeysKept
<1>12. QED
  BY <1>3, <1>4, <1>5, <1>6, <1>7, <1>8, <1>9, <1>10, <1>11
     DEF Lookups, PolicyView, ExplainPolicyView, PolicyMetadataPlan, RerankSearch

LEMMA MutationsKeepKeys ==
  ASSUME IInv, KeysKept, Mutation
  PROVE  KeysKept'
<1>1. \A names : \A c \in CacheNames : DOMAIN Clear(names)[c] \subseteq Keys(c)
  BY DEF Clear, EmptyFn, KeysKept
<1>2. \A c : Keys(c)' = Keys(c)
  BY DEF Keys, Window
<1>3. ASSUME NEW n \in 0..MaxBatch, NEW ids \in [1..n -> Ids], NEW vs \in [1..n -> Vectors],
             NEW rs \in [1..n -> Metadata], AddRecords(ids, vs, rs)
      PROVE  KeysKept'
  <2>1. \A i \in Elements(ids) : rs[PositionIn(ids, i)] \in Metadata
    BY BatchProperties
  <2>2. /\ \A i \in DOMAIN records' : records'[i] \in Metadata
        /\ caches' = Clear(CacheNames)
    BY <1>3, <2>1 DEF AddRecords, KeysKept
  <2>3. QED
    BY <1>1, <1>2, <2>2 DEF KeysKept
<1>4. ASSUME NEW i \in Ids, NEW v \in Vectors, ReplaceEmbedding(i, v)
      PROVE  KeysKept'
  BY <1>2, <1>4 DEF ReplaceEmbedding, metadata, KeysKept
<1>5. ASSUME NEW i \in Ids, NEW r \in Metadata, ReplaceMetadata(i, r)
      PROVE  KeysKept'
  <2>1. records' = [records EXCEPT ![i] = r] /\ caches' = Clear(MetadataCaches)
    BY <1>5 DEF ReplaceMetadata
  <2>2. \A j \in DOMAIN records' : records'[j] \in Metadata
    BY <2>1 DEF KeysKept
  <2>3. QED
    BY <1>1, <1>2, <2>1, <2>2 DEF KeysKept
<1>6. ASSUME NEW i \in Ids, RemoveNode(i)
      PROVE  KeysKept'
  BY <1>1, <1>2, <1>6 DEF RemoveNode, KeysKept
<1>7. ASSUME NEW pairs \in LinkCalls, NEW w \in Weights, Link(pairs, w)
      PROVE  KeysKept'
  BY <1>1, <1>2, <1>7 DEF Link, metadata, KeysKept
<1>8. QED
  BY <1>3, <1>4, <1>5, <1>6, <1>7 DEF Mutation

LEMMA KeysStayKept == Spec => []KeysKept
<1>1. Init => KeysKept
  BY DEF Init, KeysKept, EmptyFn
<1>2. IInv /\ KeysKept /\ [Next]_vars => KeysKept'
  <2> SUFFICES ASSUME IInv, KeysKept, [Next]_vars PROVE KeysKept'
    OBVIOUS
  <2>1. ASSUME UNCHANGED vars
        PROVE  KeysKept'
    BY <2>1 DEF vars, metadata, KeysKept, Keys, Window
  <2>2. QED
    BY <2>1, LookupsKeepKeys, MutationsKeepKeys DEF Next
<1>3. QED
  BY <1>1, <1>2, Invariance, PTL DEF Spec

\* Every variable keeps its type, every cache its keys.
THEOREM TypeCorrect == Spec => []TypeOK
<1>1. IInv /\ KeysKept => TypeOK
  BY DEF IInv, Tables, KeysKept, TypeOK
<1>2. QED
  BY <1>1, Invariance, KeysStayKept, PTL

\* Index, slot tables and records describe the same nodes in the same slots
\* (add_records, remove_node, replace_embedding).
THEOREM NodesStayAligned == Spec => []NodesAligned
<1>1. IInv => NodesAligned
  BY DEF IInv
<1>2. QED
  BY <1>1, Invariance, PTL

\* No edge outlives either of its ends (remove_node).
THEOREM EdgesStayLive == Spec => []EdgesLive
<1>1. IInv => EdgesLive
  BY DEF IInv
<1>2. QED
  BY <1>1, Invariance, PTL

\* The metadata indexes say what the records say (index_record_metadata and
\* unindex_record_metadata).
THEOREM RecordsStayIndexed == Spec => []RecordsIndexed
<1>1. IInv => RecordsIndexed
  BY DEF IInv
<1>2. QED
  BY <1>1, Invariance, PTL

\* Slots, records, edges and metadata indexes agree in every state.
THEOREM MemoryStaysSound == Spec => []MemorySound
<1>1. NodesAligned /\ EdgesLive /\ RecordsIndexed => MemorySound
  BY DEF MemorySound
<1>2. QED
  BY <1>1, NodesStayAligned, EdgesStayLive, RecordsStayIndexed, PTL

\* No cache ever answers with anything but what a miss would compute now:
\* the invalidation of each mutation covers every cache that depends on it.
THEOREM NoStaleCache == Spec => []CachesFresh
<1>1. IInv => CachesFresh
  BY DEF IInv
<1>2. QED
  BY <1>1, Invariance, PTL

\* A mask computed from ids selects just the live ones among them.
LEMMA MaskSelects ==
  ASSUME Tables, NodesAligned, NEW ids
  PROVE  Selects(MaskOf(ids), ids \cap Live)
<1>1. \A i \in ids \cap Live : /\ id_to_slot[i] \in 1..Len(slot_to_id)
                               /\ slot_to_id[id_to_slot[i]] = i
  BY SlotOf
<1>2. MaskOf(ids).len = Len(rows)
  BY DEF MaskOf, NodesAligned
<1>3. MaskOf(ids).slots = {id_to_slot[i] : i \in ids \cap Live}
  BY DEF MaskOf
<1>4. QED
  BY <1>1, <1>2, <1>3 DEF Selects

\* The time index lists the records with a timestamp in a window.
LEMMA TimeHits ==
  ASSUME IInv, NEW w
  PROVE  {e[2] : e \in {e \in time_index : InWindow(e[1], w)}}
           = {i \in Live : records[i].time # NoTime /\ InWindow(records[i].time, w)}
<1> DEFINE hit == {e[2] : e \in {e \in time_index : InWindow(e[1], w)}}
           wanted == {i \in Live : records[i].time # NoTime /\ InWindow(records[i].time, w)}
<1>1. time_index = {<<records[i].time, i>> : i \in {i \in Live : records[i].time # NoTime}}
  BY DEF IInv, RecordsIndexed
<1>2. ASSUME NEW e \in time_index, InWindow(e[1], w)
      PROVE  e[2] \in wanted
  <2>1. PICK i \in Live : records[i].time # NoTime /\ e = <<records[i].time, i>>
    BY <1>1
  <2>2. e[1] = records[i].time /\ e[2] = i
    BY <2>1
  <2>3. QED
    BY <1>2, <2>1, <2>2
<1>3. ASSUME NEW i \in wanted
      PROVE  i \in hit
  <2>1. <<records[i].time, i>> \in time_index
    BY <1>1
  <2>2. InWindow(<<records[i].time, i>>[1], w)
    OBVIOUS
  <2>3. QED
    BY <2>1, <2>2
<1>4. QED
  BY <1>2, <1>3

\* Cached tag, source and time masks select the nodes whose record says so.
THEOREM MetadataMasksStayCurrent == Spec => []MetadataMasksCurrent
<1>1. ASSUME IInv, KeysKept
      PROVE  MetadataMasksCurrent
  <2>1. ASSUME NEW t \in DOMAIN caches["tag"]
        PROVE  Selects(caches["tag"][t], {i \in Live : t \in records[i].tags})
    <3>1. t \in Tags /\ caches["tag"][t] = TagMask(t)
      BY <1>1, Names DEF IInv, KeysKept, Keys, CachesFresh, FreshValue
    <3>2. tag_to_ids[t] = {i \in Live : t \in records[i].tags}
      BY <1>1, <3>1 DEF IInv, RecordsIndexed
    <3>3. tag_to_ids[t] \cap Live = tag_to_ids[t]
      BY <3>2
    <3>4. Selects(MaskOf(tag_to_ids[t]), tag_to_ids[t] \cap Live)
      BY <1>1, MaskSelects DEF IInv
    <3>5. QED
      BY <3>1, <3>2, <3>3, <3>4 DEF TagMask
  <2>2. ASSUME NEW s \in DOMAIN caches["source"]
        PROVE  Selects(caches["source"][s], {i \in Live : records[i].source = s})
    <3>1. s \in Sources /\ caches["source"][s] = SourceMask(s)
      BY <1>1, Names DEF IInv, KeysKept, Keys, CachesFresh, FreshValue
    <3>2. source_to_ids[s] = {i \in Live : records[i].source = s}
      BY <1>1, <3>1 DEF IInv, RecordsIndexed
    <3>3. source_to_ids[s] \cap Live = source_to_ids[s]
      BY <3>2
    <3>4. Selects(MaskOf(source_to_ids[s]), source_to_ids[s] \cap Live)
      BY <1>1, MaskSelects DEF IInv
    <3>5. QED
      BY <3>1, <3>2, <3>3, <3>4 DEF SourceMask
  <2>3. ASSUME NEW w \in DOMAIN caches["time"]
        PROVE  Selects(caches["time"][w],
                       {i \in Live : records[i].time # NoTime /\ InWindow(records[i].time, w)})
    <3> DEFINE hit == {e[2] : e \in {e \in time_index : InWindow(e[1], w)}}
               wanted == {i \in Live : records[i].time # NoTime /\ InWindow(records[i].time, w)}
    <3>1. caches["time"][w] = MaskOf(hit)
      BY <1>1, Names DEF IInv, CachesFresh, FreshValue, TimeMask
    <3>3. hit = wanted
      BY <1>1, TimeHits
    <3>4. wanted \cap Live = wanted
      OBVIOUS
    <3> HIDE DEF hit, wanted
    <3>5. Selects(MaskOf(hit), hit \cap Live)
      BY <1>1, MaskSelects DEF IInv
    <3>6. QED
      BY <3>1, <3>3, <3>4, <3>5 DEF wanted
  <2>4. QED
    BY <2>1, <2>2, <2>3 DEF MetadataMasksCurrent
<1>2. QED
  BY <1>1, Invariance, KeysStayKept, PTL

-----------------------------------------------------------------------------
\* Views and plans.

\* Edges join live nodes and weights are finite or refused, which is what the
\* expansions rely on.
LEMMA MemoryIsGraph ==
  ASSUME IInv
  PROVE  /\ IsGraph(edges, id_to_slot)
         /\ DOMAIN edges \subseteq Live \X Live
<1>1. /\ Live \subseteq Ids /\ IsFiniteSet(DOMAIN edges)
      /\ DOMAIN edges \subseteq Ids \X Ids /\ edges \in [DOMAIN edges -> Weights]
      /\ \A e \in DOMAIN edges : e[1] \in Live /\ e[2] \in Live
  BY DEF IInv, Tables, EdgesLive
<1>2. Ids \subseteq Nat /\ Weights \subseteq Int \cup {BadWeight}
  BY GraphConstantsOK DEF GraphConstantsOK
<1>3. \A e \in DOMAIN edges : e = <<e[1], e[2]>>
  BY <1>1
<1>4. DOMAIN edges \subseteq Live \X Live
  BY <1>1, <1>3
<1>5. \A e \in DOMAIN edges : edges[e] # BadWeight => edges[e] \in Int
  BY <1>1, <1>2
<1>6. QED
  BY <1>1, <1>2, <1>4, <1>5 DEF IsGraph, Live

\* What is within the hops of a key is what paths of as many edges reach.
LEMMA ReachIsConnected ==
  ASSUME IInv, NEW k, k.max_hops \in Nat
  PROVE  Reach(edges, id_to_slot, k.seeds, k.max_hops) = Connected(k)
<1>1. Reach(edges, id_to_slot, k.seeds, k.max_hops)
        = {i \in Live : \E n \in 0..k.max_hops :
                           \E p : p \in Walks(edges, id_to_slot, k.seeds, n, i)}
  BY MemoryIsGraph, ReachIsWalked DEF Live
<1>2. ASSUME NEW i, NEW n
      PROVE  (\E p : p \in Walks(edges, id_to_slot, k.seeds, n, i))
               <=> (\E p \in [0..n -> Live] :
                      /\ p[0] \in k.seeds /\ p[n] = i
                      /\ \A j \in 0..(n - 1) : <<p[j], p[j + 1]>> \in DOMAIN edges)
  BY DEF Walks, Live
<1>3. QED
  BY <1>1, <1>2, Zenon DEF Connected

\* The mask of a view selects what is connected to its seeds.
LEMMA ViewSelects ==
  ASSUME IInv, NEW k, k.max_hops \in Nat
  PROVE  Selects(ViewMask(k), Connected(k))
<1>1. Reach(edges, id_to_slot, k.seeds, k.max_hops) = Connected(k)
  BY ReachIsConnected
<1>2. Connected(k) \cap Live = Connected(k)
  BY DEF Connected
<1>3. Selects(MaskOf(Connected(k)), Connected(k) \cap Live)
  BY MaskSelects DEF IInv
<1>4. QED
  BY <1>1, <1>2, <1>3 DEF ViewMask

\* Only live nodes are visited, each once.
LEMMA VisitsLive ==
  ASSUME IInv, NEW k, IsPolicyKey(k)
  PROVE  /\ Visits(k) \in Seq(Items(Live)) /\ VisitedOnce(Visits(k))
         /\ VisitedIds(Visits(k)) \subseteq Live
<1>1. Visits(k) \in Seq(Items(Live)) /\ VisitedOnce(Visits(k))
  BY MemoryIsGraph, VisitsOnce DEF Visits, Live
<1>2. \A n \in 1..Len(Visits(k)) : Visits(k)[n].id \in Live
  <2> DEFINE visits == Visits(k)
  <2> HIDE DEF visits
  <2>1. visits \in Seq(Items(Live))
    BY <1>1 DEF visits
  <2>2. \A n \in 1..Len(visits) : visits[n] \in Items(Live)
    BY <2>1
  <2>3. \A n \in 1..Len(visits) : visits[n].id \in Live
    BY <2>2 DEF Items
  <2>4. QED
    BY <2>3 DEF visits
<1>3. VisitedIds(Visits(k)) \subseteq Live
  BY <1>2 DEF VisitedIds
<1>4. QED
  BY <1>1, <1>3

\* The mask of a policy view selects what its expansion visits.
LEMMA PolicySelects ==
  ASSUME IInv, NEW k, IsPolicyKey(k)
  PROVE  Selects(PolicyMask(k), VisitedIds(Visits(k)))
<1>1. VisitedIds(Visits(k)) \cap Live = VisitedIds(Visits(k))
  BY VisitsLive
<1>2. Selects(MaskOf(VisitedIds(Visits(k))), VisitedIds(Visits(k)) \cap Live)
  BY MaskSelects DEF IInv
<1>3. QED
  BY <1>1, <1>2 DEF PolicyMask

\* Cached graph views select the ids within their hops today, whatever was
\* linked, removed, re-added or moved since (graph_view_mask_with_stats).
THEOREM ViewsStayCurrent == Spec => []ViewsCurrent
<1>1. ASSUME IInv, KeysKept
      PROVE  ViewsCurrent
  <2>1. ASSUME NEW k \in DOMAIN caches["view"]
        PROVE  Selects(caches["view"][k], Connected(k))
    <3>1. k \in ViewKeys /\ caches["view"][k] = ViewMask(k)
      BY <1>1, Names DEF IInv, KeysKept, Keys, CachesFresh, FreshValue
    <3>2. k.max_hops \in Nat
      BY <3>1, GraphConstantsOK DEF GraphConstantsOK
    <3>3. QED
      BY <1>1, <3>1, <3>2, ViewSelects
  <2>2. QED
    BY <2>1 DEF ViewsCurrent
<1>2. QED
  BY <1>1, Invariance, KeysStayKept, PTL

\* Cached visits are those of today's graph, and the cached mask selects them,
\* though each has a cache of its own (policy_visits and
\* graph_view_mask_with_policy_stats).
THEOREM PolicyViewsStayCurrent == Spec => []PolicyViewsCurrent
<1>1. ASSUME IInv, KeysKept
      PROVE  PolicyViewsCurrent
  <2>1. \A k \in DOMAIN caches["policy_visit"] : caches["policy_visit"][k] = Visits(k)
    BY <1>1, Names DEF IInv, CachesFresh, FreshValue
  <2>2. ASSUME NEW k \in DOMAIN caches["policy_view"]
        PROVE  Selects(caches["policy_view"][k], VisitedIds(Visits(k)))
    <3>1. k \in PolicyKeys /\ caches["policy_view"][k] = PolicyMask(k)
      BY <1>1, Names DEF IInv, KeysKept, Keys, CachesFresh, FreshValue
    <3>2. IsPolicyKey(k)
      BY <3>1, GraphConstantsOK DEF GraphConstantsOK
    <3>3. QED
      BY <1>1, <3>1, <3>2, PolicySelects
  <2>3. QED
    BY <2>1, <2>2 DEF PolicyViewsCurrent
<1>2. QED
  BY <1>1, Invariance, KeysStayKept, PTL

\* A slot is in a mask if the id in it is among those the mask was made of.
LEMMA InMask ==
  ASSUME IInv, NEW i \in Live, NEW ids
  PROVE  id_to_slot[i] \in MaskOf(ids).slots <=> i \in ids
<1>1. \A j \in Live : slot_to_id[id_to_slot[j]] = j
  BY SlotOf DEF IInv
<1>2. MaskOf(ids).slots = {id_to_slot[j] : j \in ids \cap Live}
  BY DEF MaskOf
<1>3. QED
  BY <1>1, <1>2

\* There are as many slots in a mask as live ids it was made of.
LEMMA MaskSize ==
  ASSUME IInv, NEW ids \in SUBSET Live
  PROVE  /\ IsFiniteSet(ids) /\ IsFiniteSet(MaskOf(ids).slots)
         /\ Cardinality(MaskOf(ids).slots) = Cardinality(ids)
<1> DEFINE slots == {id_to_slot[i] : i \in ids}
           here == [s \in slots |-> slot_to_id[s]]
           of == [i \in ids |-> id_to_slot[i]]
<1>1. \A i \in Live : id_to_slot[i] \in 1..Len(slot_to_id) /\ slot_to_id[id_to_slot[i]] = i
  BY SlotOf DEF IInv
<1>2. slots \in SUBSET (1..Len(slot_to_id)) /\ Len(slot_to_id) \in Nat
  BY <1>1 DEF IInv, Tables
<1>3. IsFiniteSet(slots)
  <2>1. IsFiniteSet(1..Len(slot_to_id))
    BY <1>2, FS_Interval
  <2> HIDE DEF slots
  <2>2. QED
    BY <1>2, <2>1, FS_Subset
<1>4. {here[s] : s \in slots} = ids
  BY <1>1
<1>5. {of[i] : i \in ids} = slots
  OBVIOUS
<1>6. here = [s \in slots |-> here[s]] /\ of = [i \in ids |-> of[i]]
  OBVIOUS
<1> HIDE DEF slots, here, of
<1>7. IsFiniteSet(ids) /\ Cardinality(ids) <= Cardinality(slots)
  BY <1>3, <1>4, <1>6, ImageIsSmaller
<1>8. Cardinality(slots) <= Cardinality(ids)
  BY <1>5, <1>6, <1>7, ImageIsSmaller
<1>9. Cardinality(slots) = Cardinality(ids)
  BY <1>3, <1>7, <1>8, FS_CardinalityType
<1>10. MaskOf(ids).slots = slots
  <2>1. ids \cap Live = ids
    OBVIOUS
  <2>2. QED
    BY <2>1 DEF MaskOf, slots
<1>11. QED
  BY <1>3, <1>7, <1>9, <1>10

\* A filter of known tags and sources.
IsFilter(f) == f.tags \subseteq Tags /\ f.sources \subseteq Sources

\* The metadata masks of a filter let through the slots whose record matches.
LEMMA FilterMatches ==
  ASSUME IInv, NEW f, IsFilter(f), NEW i \in Live
  PROVE  Matches(records[i], f) <=>
           /\ \A t \in f.tags : id_to_slot[i] \in TagMask(t).slots
           /\ f.sources = {} \/ \E src \in f.sources : id_to_slot[i] \in SourceMask(src).slots
           /\ Bounded(Window(f)) => id_to_slot[i] \in TimeMask(Window(f)).slots
<1>1. \A t \in f.tags : id_to_slot[i] \in TagMask(t).slots <=> t \in records[i].tags
  <2>1. ASSUME NEW t \in f.tags
        PROVE  id_to_slot[i] \in TagMask(t).slots <=> t \in records[i].tags
    <3>1. tag_to_ids[t] = {j \in Live : t \in records[j].tags}
      BY DEF IInv, RecordsIndexed, IsFilter
    <3>2. QED
      BY <3>1, InMask DEF TagMask
  <2>2. QED
    BY <2>1
<1>2. \A src \in f.sources : id_to_slot[i] \in SourceMask(src).slots <=> records[i].source = src
  <2>1. ASSUME NEW src \in f.sources
        PROVE  id_to_slot[i] \in SourceMask(src).slots <=> records[i].source = src
    <3>1. source_to_ids[src] = {j \in Live : records[j].source = src}
      BY DEF IInv, RecordsIndexed, IsFilter
    <3>2. QED
      BY <3>1, InMask DEF SourceMask
  <2>2. QED
    BY <2>1
<1>3. id_to_slot[i] \in TimeMask(Window(f)).slots
        <=> records[i].time # NoTime /\ InWindow(records[i].time, f)
  <2>1. id_to_slot[i] \in TimeMask(Window(f)).slots
          <=> records[i].time # NoTime /\ InWindow(records[i].time, Window(f))
    BY TimeHits, InMask DEF TimeMask
  <2>2. InWindow(records[i].time, Window(f)) <=> InWindow(records[i].time, f)
    BY DEF InWindow, Window
  <2>3. QED
    BY <2>1, <2>2
<1>4. QED
  BY <1>1, <1>2, <1>3 DEF Matches

\* A plan compiled now selects the matching records of the view, and reports the
\* size of the view.
LEMMA PlanSelects ==
  ASSUME IInv, NEW f, IsFilter(f), NEW ids \in SUBSET Live
  PROVE  /\ Selects(FreshPlan(MaskOf(ids), f).mask, {i \in ids : Matches(records[i], f)})
         /\ FreshPlan(MaskOf(ids), f).graph_slots = Cardinality(ids)
<1> DEFINE through(s) == /\ \A t \in f.tags : s \in TagMask(t).slots
                         /\ f.sources = {} \/ \E src \in f.sources : s \in SourceMask(src).slots
                         /\ Bounded(Window(f)) => s \in TimeMask(Window(f)).slots
           mask == MaskOf(ids)
           wanted == {i \in ids : Matches(records[i], f)}
           left == {s \in mask.slots : through(s)}
<1>1. /\ mask = [len |-> Len(slot_to_id), slots |-> mask.slots]
      /\ mask.slots = {id_to_slot[i] : i \in ids}
  <2>1. ids \cap Live = ids
    OBVIOUS
  <2>2. QED
    BY <2>1 DEF MaskOf
<1>2. FreshPlan(mask, f).mask = [len |-> Len(slot_to_id), slots |-> left]
      /\ FreshPlan(mask, f).graph_slots = Cardinality(mask.slots)
  <2>1. FreshPlan(mask, f) = [mask |-> [mask EXCEPT !.slots = left],
                              graph_slots |-> Cardinality(mask.slots)]
    BY DEF FreshPlan
  <2> HIDE DEF left, mask
  <2>2. [mask EXCEPT !.slots = left] = [len |-> Len(slot_to_id), slots |-> left]
    BY <1>1
  <2>3. QED
    BY <2>1, <2>2
<1>3. \A i \in ids : through(id_to_slot[i]) <=> Matches(records[i], f)
  BY FilterMatches
<1>4. left = {id_to_slot[i] : i \in wanted}
  <2> HIDE DEF through, mask
  <2>1. QED
    BY <1>1, <1>3
<1>5. \A i \in wanted : id_to_slot[i] \in 1..Len(slot_to_id) /\ slot_to_id[id_to_slot[i]] = i
  BY SlotOf DEF IInv
<1> HIDE DEF left, wanted, mask
<1>6. Selects([len |-> Len(slot_to_id), slots |-> left], wanted)
  BY <1>4, <1>5 DEF Selects, IInv, NodesAligned
<1>7. Cardinality(mask.slots) = Cardinality(ids)
  BY MaskSize DEF mask
<1>8. QED
  BY <1>2, <1>6, <1>7 DEF wanted, mask

\* A cached plan is what filtering today's view by today's records gives, though
\* views, tags, sources, times and plans are cached, trimmed and invalidated
\* separately (graph_view_mask_with_metadata_plan and its policy form).
THEOREM PlansStayCurrent == Spec => []PlansCurrent
<1>1. ASSUME IInv, KeysKept
      PROVE  PlansCurrent
  <2>1. \A f \in Filters : IsFilter(f)
    BY GraphConstantsOK DEF GraphConstantsOK, IsFilter
  <2>2. ASSUME NEW kf \in DOMAIN caches["combined"]
        PROVE  /\ Selects(caches["combined"][kf].mask,
                          {i \in Connected(kf[1]) : Matches(records[i], kf[2])})
               /\ caches["combined"][kf].graph_slots = Cardinality(Connected(kf[1]))
    <3>1. /\ kf[1] \in ViewKeys /\ kf[2] \in Filters
          /\ caches["combined"][kf] = FreshPlan(ViewMask(kf[1]), kf[2])
      BY <1>1, Names DEF IInv, KeysKept, Keys, CachesFresh, FreshValue
    <3>2. kf[1].max_hops \in Nat
      BY <3>1, GraphConstantsOK DEF GraphConstantsOK
    <3>3. ViewMask(kf[1]) = MaskOf(Connected(kf[1])) /\ Connected(kf[1]) \in SUBSET Live
      BY <1>1, <3>2, ReachIsConnected DEF ViewMask, Connected
    <3>4. QED
      BY <1>1, <2>1, <3>1, <3>3, PlanSelects
  <2>3. ASSUME NEW kf \in DOMAIN caches["combined_policy"]
        PROVE  /\ Selects(caches["combined_policy"][kf].mask,
                          {i \in VisitedIds(Visits(kf[1])) : Matches(records[i], kf[2])})
               /\ caches["combined_policy"][kf].graph_slots
                    = Cardinality(VisitedIds(Visits(kf[1])))
    <3>1. /\ kf[1] \in PolicyKeys /\ kf[2] \in Filters
          /\ caches["combined_policy"][kf] = FreshPlan(PolicyMask(kf[1]), kf[2])
      BY <1>1, Names DEF IInv, KeysKept, Keys, CachesFresh, FreshValue
    <3>2. IsPolicyKey(kf[1])
      BY <3>1, GraphConstantsOK DEF GraphConstantsOK
    <3>3. VisitedIds(Visits(kf[1])) \in SUBSET Live
      BY <1>1, <3>2, VisitsLive
    <3>4. QED
      BY <1>1, <2>1, <3>1, <3>3, PlanSelects DEF PolicyMask
  <2>4. QED
    BY <2>2, <2>3 DEF PlansCurrent
<1>2. QED
  BY <1>1, Invariance, KeysStayKept, PTL

-----------------------------------------------------------------------------
\* Best-first expansion.

\* The weights of the walks from an id, as the reference counts them.
LEMMA WalkWeightsAre ==
  ASSUME IInv, NEW from \in Live
  PROVE  \E upto : /\ IsWalking(upto, edges, Live, from)
                   /\ WalkWeights(from) = upto[Cardinality(Live)]
<1> DEFINE upto[n \in Nat] ==
             IF n = 0 THEN [i \in Live |-> IF i = from THEN {0} ELSE {}]
             ELSE [i \in Live |-> upto[n - 1][i] \cup
                     UNION {{w + Normalize(edges[e]) : w \in upto[n - 1][e[1]]} :
                              e \in {e \in DOMAIN edges : e[2] = i /\ edges[e] # BadWeight}}]
           X == [Live -> SUBSET Nat]
           longer(g) == [i \in Live |-> g[i] \cup
                           UNION {{w + Normalize(edges[e]) : w \in g[e[1]]} :
                                    e \in {e \in DOMAIN edges : e[2] = i /\ edges[e] # BadWeight}}]
           step == [g \in X |-> longer(g)]
           start == [i \in Live |-> IF i = from THEN {0} ELSE {}]
<1>1. step \in [X -> X] /\ start \in X
  <2>1. \A e \in DOMAIN edges : e[1] \in Live
                                /\ (edges[e] # BadWeight => Normalize(edges[e]) \in Nat)
    <3>1. \A e \in DOMAIN edges : e[1] \in Live /\ (edges[e] # BadWeight => edges[e] \in Int)
      BY MemoryIsGraph DEF IsGraph
    <3>2. QED
      BY <3>1 DEF Normalize
  <2>2. ASSUME NEW g \in X
        PROVE  longer(g) \in X
    <3>1. \A i \in Live : g[i] \in SUBSET Nat
      OBVIOUS
    <3>2. ASSUME NEW i \in Live, NEW e \in DOMAIN edges, edges[e] # BadWeight
          PROVE  {w + Normalize(edges[e]) : w \in g[e[1]]} \in SUBSET Nat
      <4>1. g[e[1]] \in SUBSET Nat /\ Normalize(edges[e]) \in Nat
        BY <2>1, <3>1, <3>2
      <4>2. QED
        BY <4>1
    <3>3. \A i \in Live : longer(g)[i] \in SUBSET Nat
      BY <3>1, <3>2
    <3>4. QED
      BY <3>3
  <2> HIDE DEF X
  <2>3. step \in [X -> X]
    BY <2>2
  <2>4. start \in X
    BY DEF X
  <2>5. QED
    BY <2>3, <2>4
<1>2. PICK f \in [Nat -> X] : f = [n \in Nat |-> IF n = 0 THEN start ELSE step[f[n - 1]]]
  <2> HIDE DEF X, step, start
  <2>1. QED
    BY <1>1, RecursiveEquation
<1>3. \A n \in Nat : n # 0 => f[n - 1] \in X /\ step[f[n - 1]] = longer(f[n - 1])
  <2>1. ASSUME NEW n \in Nat, n # 0
        PROVE  f[n - 1] \in X
    <3>1. n - 1 \in Nat
      BY <2>1
    <3> HIDE DEF X
    <3>2. QED
      BY <3>1, <1>2
  <2>2. QED
    BY <2>1
<1>4. f = [n \in Nat |-> IF n = 0 THEN start ELSE longer(f[n - 1])]
  <2> HIDE DEF step, X, longer, start
  <2>1. QED
    BY <1>2, <1>3
<1>5. upto = [n \in Nat |->
             IF n = 0 THEN [i \in Live |-> IF i = from THEN {0} ELSE {}]
             ELSE [i \in Live |-> upto[n - 1][i] \cup
                     UNION {{w + Normalize(edges[e]) : w \in upto[n - 1][e[1]]} :
                              e \in {e \in DOMAIN edges : e[2] = i /\ edges[e] # BadWeight}}]]
  BY <1>4, Zenon
<1>6. WalkWeights(from) = upto[Cardinality(Live)]
  BY Zenon DEF WalkWeights
<1> HIDE DEF upto
<1>7. \A n \in Nat : upto[n] = IF n = 0 THEN start ELSE longer(upto[n - 1])
  BY <1>5, Zenon
<1> HIDE DEF longer, start
<1> DEFINE good == {n \in Nat : upto[n] \in X}
<1>8. ASSUME NEW n \in Nat
      PROVE  upto[n + 1] = longer(upto[n])
  <2>1. n + 1 \in Nat /\ n + 1 # 0 /\ (n + 1) - 1 = n
    OBVIOUS
  <2>2. upto[n + 1] = longer(upto[(n + 1) - 1])
    BY <1>7, <2>1
  <2>3. QED
    BY <2>1, <2>2
<1>9. good = Nat
  <2>1. 0 \in good
    BY <1>1, <1>7
  <2>2. ASSUME NEW n \in good
        PROVE  n + 1 \in good
    <3>1. longer(upto[n]) \in X
      <4>1. step[upto[n]] = longer(upto[n]) /\ step[upto[n]] \in X
        <5> HIDE DEF X
        <5>1. upto[n] \in X
          OBVIOUS
        <5>2. step[upto[n]] = longer(upto[n])
          BY <5>1 DEF step
        <5>3. QED
          BY <1>1, <5>1, <5>2
      <4>2. QED
        BY <4>1
    <3>2. QED
      BY <1>8, <3>1
  <2>3. good \in SUBSET Nat
    OBVIOUS
  <2> HIDE DEF good
  <2>4. QED
    BY <2>1, <2>2, <2>3, NatSetInduction
<1>10. IsWalking(upto, edges, Live, from)
  <2>1. \A n \in Nat : \A i \in Live : upto[n][i] \in SUBSET Nat
    BY <1>9
  <2>2. \A i \in Live : upto[0][i] = IF i = from THEN {0} ELSE {}
    BY <1>7 DEF start
  <2>3. ASSUME NEW n \in Nat, NEW i \in Live
        PROVE  upto[n + 1][i] = upto[n][i] \cup
                 UNION {{w + Normalize(edges[e]) : w \in upto[n][e[1]]} :
                          e \in {e \in DOMAIN edges : e[2] = i /\ edges[e] # BadWeight}}
    BY <1>8, Zenon DEF longer
  <2>4. QED
    BY <2>1, <2>2, <2>3, Zenon DEF IsWalking
<1>11. QED
  BY <1>6, <1>10

\* Without budgets an expansion finds a strongest path to every node that a
\* strong enough walk reaches.
LEMMA StrongestFound == IInv => StrongestPathsFound
<1> SUFFICES ASSUME IInv PROVE StrongestPathsFound
  OBVIOUS
<1>1. IsFiniteSet(Live) /\ Cardinality(Live) \in Nat
  <2>1. IsFiniteSet(Live)
    BY MaskSize
  <2>2. QED
    BY <2>1, FS_CardinalityType
<1>2. \A k \in PolicyKeys : k.min_weight \in Nat
  BY GraphConstantsOK DEF GraphConstantsOK, IsPolicyKey
<1>3. ASSUME NEW i \in Live, NEW m \in {k.min_weight : k \in PolicyKeys},
             NEW key, key = [seeds |-> {i}, max_hops |-> Cardinality(Live), min_weight |-> m,
                             max_nodes |-> Cardinality(Live),
                             max_active_blocks |-> Cardinality(Live)]
      PROVE  LET walks == WalkWeights(i)
                 visits == Visits(key)
             IN  /\ VisitedIds(visits) = {j \in Live : \E w \in walks[j] : w <= m}
                 /\ \A n \in DOMAIN visits :
                      /\ visits[n].weight \in walks[visits[n].id]
                      /\ \A w \in walks[visits[n].id] : visits[n].weight <= w
  <2>1. m \in Nat
    BY <1>2
  <2>2. /\ key.seeds = {i} /\ key.max_hops = Cardinality(Live) /\ key.min_weight = m
        /\ key.max_nodes = Cardinality(Live) /\ key.max_active_blocks = Cardinality(Live)
    BY <1>3
  <2>3. IsOpen(key, i, Cardinality(Live), m)
    BY <2>2 DEF IsOpen
  <2>4. IsPolicyKey(key)
    <3>1. i \in Nat
      BY MemoryIsGraph DEF IsGraph, Live
    <3>2. IsFiniteSet({i})
      BY FS_Singleton
    <3>3. QED
      BY <1>1, <2>1, <2>2, <3>1, <3>2 DEF IsPolicyKey
  <2>5. PICK upto : /\ IsWalking(upto, edges, Live, i)
                    /\ WalkWeights(i) = upto[Cardinality(Live)]
    BY WalkWeightsAre
  <2>6. IsGraph(edges, id_to_slot)
    BY MemoryIsGraph
  <2> DEFINE visits == WeightedVisits(edges, id_to_slot, key)
             walks == upto[Cardinality(Live)]
  <2>7. /\ VisitedIds(visits) = {j \in Live : \E w \in walks[j] : w <= m}
        /\ \A n \in 1..Len(visits) : /\ visits[n].weight \in walks[visits[n].id]
                                     /\ \A w \in walks[visits[n].id] : visits[n].weight <= w
    BY <1>1, <2>1, <2>3, <2>4, <2>5, <2>6, StrongestVisited DEF Live
  <2>8. visits = Visits(key) /\ visits \in Seq(Items(Live))
    BY <2>4, VisitsLive DEF Visits
  <2>9. walks = WalkWeights(i)
    BY <2>5
  <2> HIDE DEF visits, walks
  <2>10. DOMAIN visits = 1..Len(visits)
    BY <2>8
  <2>11. QED
    BY <2>7, <2>8, <2>9, <2>10
<1> HIDE DEF IInv
<1>4. QED
  BY <1>3, Zenon DEF StrongestPathsFound

\* Expansion within budgets leaves out only what they have no room for.
LEMMA BudgetsKept == IInv => BudgetsAccounted
<1> SUFFICES ASSUME IInv, NEW k \in PolicyKeys, NEW visits, visits = Visits(k)
             PROVE  /\ WithinBudgets(k, visits)
                    /\ \A s \in k.seeds \cap Live : Accounted(k, visits, s, 0)
                    /\ \A n \in DOMAIN visits :
                         visits[n].depth < k.max_hops =>
                           \A e \in {e \in DOMAIN edges : /\ e[1] = visits[n].id
                                                          /\ edges[e] # BadWeight} :
                             LET w == visits[n].weight + Normalize(edges[e])
                             IN  w <= k.min_weight => Accounted(k, visits, e[2], w)
  BY Zenon DEF BudgetsAccounted
<1>1. IsPolicyKey(k) /\ IsGraph(edges, id_to_slot)
  BY MemoryIsGraph, GraphConstantsOK DEF GraphConstantsOK
<1>2. IsBudgeted(edges, id_to_slot, k, visits) /\ visits \in Seq(Items(Live))
  BY <1>1, VisitsBudgeted, VisitsLive DEF Visits
<1>3. DOMAIN visits = 1..Len(visits)
  BY <1>2
<1>4. BlocksOf(visits) = Used(id_to_slot, visits)
  BY DEF BlocksOf, Used
<1>5. ASSUME NEW i, NEW w, IsAccounted(id_to_slot, k, visits, i, w)
      PROVE  Accounted(k, visits, i, w)
  BY <1>3, <1>4, <1>5 DEF IsAccounted, Accounted, Found, CutOff, OpenedBy
<1>6. WithinBudgets(k, visits)
  BY <1>2, <1>3, <1>4 DEF IsBudgeted, WithinBudgets, Affordable
<1>7. \A s \in k.seeds \cap Live : Accounted(k, visits, s, 0)
  BY <1>2, <1>5 DEF IsBudgeted, Live
<1>8. ASSUME NEW n \in DOMAIN visits, visits[n].depth < k.max_hops,
             NEW e \in DOMAIN edges, e[1] = visits[n].id, edges[e] # BadWeight,
             visits[n].weight + Normalize(edges[e]) <= k.min_weight
      PROVE  Accounted(k, visits, e[2], visits[n].weight + Normalize(edges[e]))
  <2>1. visits[n] \in Items(Live) /\ n \in 1..Len(visits)
    BY <1>2, <1>3
  <2>2. visits[n].depth \in Nat /\ visits[n].weight \in Nat /\ edges[e] \in Int
        /\ k.max_hops \in Nat /\ k.min_weight \in Nat
    BY <1>1, <1>8, <2>1 DEF Items, IsGraph, IsPolicyKey
  <2>3. visits[n].weight + Normalize(edges[e]) \in Int
    BY <2>2 DEF Normalize
  <2>4. /\ visits[n].depth # k.max_hops
        /\ ~(k.min_weight < visits[n].weight + Normalize(edges[e]))
    BY <1>8, <2>2, <2>3
  <2>5. IsAccounted(id_to_slot, k, visits, e[2], visits[n].weight + Normalize(edges[e]))
    BY <1>2, <1>8, <2>1, <2>4 DEF IsBudgeted
  <2>6. QED
    BY <1>5, <2>5
<1>9. QED
  BY <1>6, <1>7, <1>8

\* Best-first expansion visits in order of strength, keeps within its budgets and
\* leaves out only what they have no room for, and without them finds a strongest
\* path to every node (weighted_graph_visits).
THEOREM ExpansionIsBestFirst == Spec => []BestFirst
<1>1. IInv => VisitsStrongestFirst
  <2> SUFFICES ASSUME IInv, NEW k \in PolicyKeys
               PROVE  \A m, n \in DOMAIN Visits(k) :
                        m < n => Visits(k)[m].weight <= Visits(k)[n].weight
    BY Zenon DEF VisitsStrongestFirst
  <2>1. IsPolicyKey(k)
    BY GraphConstantsOK DEF GraphConstantsOK
  <2>2. Ordered(Visits(k)) /\ Visits(k) \in Seq(Items(Live))
    BY <2>1, MemoryIsGraph, VisitsOrdered, VisitsLive DEF Visits
  <2> DEFINE visits == Visits(k)
  <2> HIDE DEF visits
  <2>3. DOMAIN visits = 1..Len(visits)
    BY <2>2 DEF visits
  <2>4. QED
    BY <2>2, <2>3 DEF Ordered, visits
<1>2. IInv => BestFirst
  BY <1>1, BudgetsKept, StrongestFound DEF BestFirst
<1>3. QED
  BY <1>2, Invariance, PTL

-----------------------------------------------------------------------------
\* The memory is a map from ids to embeddings.

\* Steps that leave index and slot tables alone are not seen.
LEMMA Unseen ==
  ASSUME UNCHANGED nodes
  PROVE  UNCHANGED Store!vars
<1>1. UNCHANGED Embeddings
  BY DEF nodes, Embeddings, Live
<1>2. QED
  BY <1>1 DEF Store!vars

\* What the tables say of every id.
LEMMA EmbeddingOf ==
  ASSUME IInv
  PROVE  /\ DOMAIN Embeddings = Live /\ Live \subseteq Ids
         /\ Embeddings \in [Live -> Vectors]
         /\ \A i \in Live : /\ Embeddings[i] = rows[id_to_slot[i]]
                            /\ id_to_slot[i] \in 1..Len(rows)
                            /\ slot_to_id[id_to_slot[i]] = i
<1>1. Live \subseteq Ids /\ rows \in Seq(Vectors) /\ Len(rows) = Len(slot_to_id)
  BY DEF IInv, Tables, NodesAligned
<1>2. \A i \in Live : id_to_slot[i] \in 1..Len(rows) /\ slot_to_id[id_to_slot[i]] = i
  BY <1>1, SlotOf DEF IInv
<1>3. \A i \in Live : rows[id_to_slot[i]] \in Vectors
  BY <1>1, <1>2
<1>4. QED
  BY <1>1, <1>2, <1>3 DEF Embeddings

LEMMA EmbeddingsStore == IInv => Embeddings \in Store!Stores
  BY EmbeddingOf DEF Store!Stores

\* replace_embedding appends and swaps: one id gets the new vector.
LEMMA ReplaceIsReplace ==
  ASSUME IInv, NEW i \in Ids, NEW v \in Vectors, ReplaceEmbedding(i, v)
  PROVE  Store!Replace(i)
<1> DEFINE slot == id_to_slot[i]
           longer == Append(rows, v)
<1>1. /\ i \in Live /\ Live' = Live /\ id_to_slot' = id_to_slot
      /\ rows' = SwapRemove(longer, slot)
  BY DEF ReplaceEmbedding, Live
<1>2. /\ rows \in Seq(Vectors) /\ Len(rows) \in Nat /\ slot \in 1..Len(rows)
  BY <1>1, EmbeddingOf DEF IInv, Tables
<1>3. /\ longer \in Seq(Vectors) /\ Len(longer) = Len(rows) + 1 /\ longer[Len(longer)] = v
      /\ \A s \in 1..Len(rows) : longer[s] = rows[s]
  BY <1>2
<1> HIDE DEF longer
<1>4. \A s \in 1..Len(rows) : rows'[s] = IF s = slot THEN v ELSE rows[s]
  <2>1. slot \in 1..Len(longer) /\ 1..(Len(longer) - 1) = 1..Len(rows)
    BY <1>2, <1>3
  <2>2. \A s \in 1..Len(rows) :
          SwapRemove(longer, slot)[s] = IF s = slot THEN longer[Len(longer)] ELSE longer[s]
    BY <1>3, <2>1, SwapRemoveProperties
  <2>3. QED
    BY <1>1, <1>3, <2>2
<1>5. Embeddings' = [Embeddings EXCEPT ![i] = v]
  <2>1. Embeddings' = [j \in Live |-> rows'[id_to_slot[j]]]
    BY <1>1 DEF Embeddings
  <2>2. ASSUME NEW j \in Live
        PROVE  rows'[id_to_slot[j]] = IF j = i THEN v ELSE Embeddings[j]
    BY <1>1, <1>4, EmbeddingOf
  <2>3. QED
    BY <2>1, <2>2, EmbeddingOf
<1>6. QED
  BY <1>1, <1>5, EmbeddingOf DEF Store!Replace

\* remove_node: one id goes, and the one whose row moves keeps its vector.
LEMMA RemoveIsDelete ==
  ASSUME IInv, NEW i \in Ids, RemoveNode(i)
  PROVE  Store!Delete(i)
<1> DEFINE slot == id_to_slot[i]
           last == Len(slot_to_id)
<1>1. /\ i \in Live /\ rows' = SwapRemove(rows, slot)
      /\ id_to_slot' = [j \in Live \ {i} |->
                          IF slot # last /\ j = slot_to_id[last] THEN slot ELSE id_to_slot[j]]
      /\ Live' = Live \ {i}
  BY DEF RemoveNode, Live
<1>2. /\ rows \in Seq(Vectors) /\ Len(rows) = last /\ last \in Nat /\ slot \in 1..last
      /\ \A s \in 1..last : id_to_slot[slot_to_id[s]] = s
  BY <1>1, EmbeddingOf DEF IInv, Tables, NodesAligned
<1> HIDE DEF slot, last
<1>3. \A s \in 1..(last - 1) : rows'[s] = IF s = slot THEN rows[last] ELSE rows[s]
  <2>1. rows \in Seq(Vectors) /\ slot \in 1..Len(rows) /\ rows' = SwapRemove(rows, slot)
    BY <1>1, <1>2
  <2>2. \A s \in 1..(Len(rows) - 1) :
          SwapRemove(rows, slot)[s] = IF s = slot THEN rows[Len(rows)] ELSE rows[s]
    BY <2>1, SwapRemoveProperties
  <2>3. QED
    BY <1>2, <2>1, <2>2
<1>4. ASSUME NEW j \in Live \ {i}
      PROVE  rows'[id_to_slot'[j]] = Embeddings[j]
  <2>1. /\ id_to_slot[j] \in 1..last /\ slot_to_id[id_to_slot[j]] = j
        /\ slot_to_id[slot] = i /\ Embeddings[j] = rows[id_to_slot[j]]
    BY <1>1, <1>2, EmbeddingOf DEF slot
  <2>2. CASE slot # last /\ j = slot_to_id[last]
    <3>1. id_to_slot'[j] = slot /\ id_to_slot[j] = last /\ slot \in 1..(last - 1)
      BY <1>1, <1>2, <2>2
    <3>2. QED
      BY <1>3, <2>1, <3>1
  <2>3. CASE ~(slot # last /\ j = slot_to_id[last])
    <3>1. id_to_slot'[j] = id_to_slot[j] /\ id_to_slot[j] # slot /\ id_to_slot[j] # last
      BY <1>1, <1>2, <2>1, <2>3
    <3>2. id_to_slot[j] \in 1..(last - 1)
      BY <1>2, <2>1, <3>1
    <3>3. QED
      BY <1>3, <2>1, <3>1, <3>2
  <2>4. QED
    BY <2>2, <2>3
<1>5. Embeddings' = [j \in DOMAIN Embeddings \ {i} |-> Embeddings[j]]
  <2>1. Embeddings' = [j \in Live \ {i} |-> rows'[id_to_slot'[j]]]
    BY <1>1 DEF Embeddings
  <2>2. QED
    BY <1>4, <2>1, EmbeddingOf
<1>6. QED
  BY <1>1, <1>5, EmbeddingOf DEF Store!Delete

\* add_records: new ids at the end, all others where they were.
LEMMA AddIsPut ==
  ASSUME IInv, NEW n \in 0..MaxBatch, NEW ids \in [1..n -> Ids], NEW vs \in [1..n -> Vectors],
         NEW rs \in [1..n -> Metadata], AddRecords(ids, vs, rs)
  PROVE  Store!Put
<1>1. IInv'
  BY AddRecordsStep
<1>2. Embeddings' \in Store!Stores
  <2>1. (Embeddings \in Store!Stores)'
    BY <1>1, EmbeddingsStore, PTL
  <2>2. QED
    BY <2>1 DEF Store!Stores
<1>3. /\ Elements(ids) \cap Live = {} /\ rows' = rows \o vs
      /\ id_to_slot' = [i \in Live \cup Elements(ids) |->
                          IF i \in Elements(ids) THEN Len(slot_to_id) + PositionIn(ids, i)
                          ELSE id_to_slot[i]]
  BY DEF AddRecords
<1>4. Live' = Live \cup Elements(ids) /\ \A i \in Live : id_to_slot'[i] = id_to_slot[i]
  BY <1>3 DEF Live
<1>5. \A s \in 1..Len(rows) : rows'[s] = rows[s]
  <2>1. rows \in Seq(Vectors) /\ vs \in Seq(Vectors)
    BY BatchProperties DEF IInv, Tables
  <2>2. QED
    BY <1>3, <2>1, ExtendProperties
<1>6. \A i \in Live : Embeddings'[i] = Embeddings[i]
  <2>1. \A i \in Live' : Embeddings'[i] = rows'[id_to_slot'[i]]
    BY DEF Embeddings
  <2>2. QED
    BY <1>4, <1>5, <2>1, EmbeddingOf
<1>7. DOMAIN Embeddings' = Live'
  BY DEF Embeddings
<1>8. QED
  BY <1>2, <1>4, <1>6, <1>7, EmbeddingOf DEF Store!Put

\* The memory implements VectorStore: whatever moves inside, its callers see a
\* map in which every mutation touches the ids it names and no other
\* (add_records, replace_embedding, remove_node).
THEOREM MemoryIsAStore == Spec => ImplementsVectorStore
<1>1. Init => Store!Init
  <2> SUFFICES ASSUME Init PROVE Store!Init
    OBVIOUS
  <2>1. Live = {}
    BY DEF Init, Live, EmptyFn
  <2>2. Embeddings = Store!EmptyStore
    BY <2>1 DEF Embeddings, Store!EmptyStore
  <2>3. QED
    BY <2>2 DEF Store!Init
<1>2. IInv /\ [Next]_vars => [Store!Next]_(Store!vars)
  <2> SUFFICES ASSUME IInv, [Next]_vars PROVE [Store!Next]_(Store!vars)
    OBVIOUS
  <2>1. CASE Lookups
    <3>1. UNCHANGED nodes
      BY <2>1 DEF Lookups, GraphView, MetadataPlan, TraceSearch, PolicyView, ExplainPolicyView,
                  PolicyMetadataPlan, NewPolicyPlan, RerankSearch, TagView, SourceView, TimeView,
                  Trim, Query
    <3>2. QED
      BY <3>1, Unseen
  <2>2. CASE Mutation
    <3>1. ASSUME NEW i \in Ids, NEW r \in Metadata, ReplaceMetadata(i, r)
          PROVE  UNCHANGED Store!vars
      BY <3>1, Unseen DEF ReplaceMetadata
    <3>2. ASSUME NEW pairs \in LinkCalls, NEW w \in Weights, Link(pairs, w)
          PROVE  UNCHANGED Store!vars
      BY <3>2, Unseen DEF Link
    <3>3. QED
      BY <2>2, <3>1, <3>2, AddIsPut, ReplaceIsReplace, RemoveIsDelete DEF Mutation, Store!Next
  <2>3. CASE UNCHANGED vars
    BY <2>3, Unseen DEF vars
  <2>4. QED
    BY <2>1, <2>2, <2>3 DEF Next
<1>3. QED
  BY <1>1, <1>2, Invariance, PTL DEF Spec, ImplementsVectorStore, Store!Spec

=============================================================================
