------------------------ MODULE GraphSession_proofs ------------------------
(***************************************************************************)
(* A memory that is searched, prepared for and saved, for every graph,     *)
(* every request and every pair of files: what one write wrote is what a   *)
(* load gives back, and what a search answers is what its request means    *)
(* on the memory as it is.                                                 *)
(***************************************************************************)
EXTENDS GraphSession, GraphMemory_proofs

-----------------------------------------------------------------------------
\* The memory, however it came about.

\* What the two files hold, if a reader can make sense of them.
FilesInv == /\ Readable(index_file) => HoldsVectors(index_file)
            /\ Readable(sidecar) => HoldsGraph(sidecar)

\* A memory put together from two files that agree is sound, also when they are
\* of different writes.
LEMMA LoadKeeps ==
  ASSUME FilesInv, Load
  PROVE  IInv'
<1> DEFINE rs == [i \in DOMAIN sidecar.records |-> ReadRecord(sidecar.records[i])]
<1>1. /\ HoldsVectors(index_file) /\ HoldsGraph(sidecar) /\ Agree
      /\ records' = rs /\ tag_to_ids' = TagIndexOf(rs) /\ source_to_ids' = SourceIndexOf(rs)
      /\ time_index' = TimeIndexOf(rs) /\ rows' = index_file.rows
      /\ slot_to_id' = sidecar.slot_to_id
      /\ id_to_slot' = [i \in Elements(sidecar.slot_to_id) |-> PositionIn(sidecar.slot_to_id, i)]
      /\ edges' = sidecar.edges /\ caches' = [c \in CacheNames |-> EmptyFn]
  BY DEF Load, FilesInv
<1>2. /\ sidecar.slot_to_id \in Seq(Ids) /\ IsDistinct(sidecar.slot_to_id)
      /\ DOMAIN sidecar.records = Elements(sidecar.slot_to_id)
      /\ Elements(sidecar.slot_to_id) \subseteq Ids
  <2>1. /\ sidecar.slot_to_id \in Seq(Ids) /\ IsDistinct(sidecar.slot_to_id)
        /\ DOMAIN sidecar.records = Elements(sidecar.slot_to_id)
    BY <1>1 DEF HoldsGraph, IsMemory, Agree
  <2>2. QED
    BY <2>1 DEF Elements
<1>3. Live' = Elements(sidecar.slot_to_id) /\ DOMAIN records' = Live'
  BY <1>1, <1>2 DEF Live
<1>4. \A i \in Live' : records'[i] \in Record
  <2>1. ASSUME NEW i \in DOMAIN sidecar.records
        PROVE  ReadRecord(sidecar.records[i]) \in Record
    <3>1. sidecar.records[i] \in
            IF sidecar.version = 1 THEN [tags : SUBSET Tags]
            ELSE [tags : SUBSET Tags, source : Sources \cup {NoSource}, time : Int \cup {NoTime}]
      BY <1>1 DEF HoldsGraph
    <3>2. CASE sidecar.version = 1
      BY <3>1, <3>2 DEF ReadRecord, Record
    <3>3. CASE sidecar.version # 1
      BY <3>1, <3>3 DEF ReadRecord, Record
    <3>4. QED
      BY <3>2, <3>3
  <2>2. QED
    BY <1>1, <1>3, <2>1
<1>5. Tables'
  <2>1. rows' \in Seq(Vectors) /\ slot_to_id' \in Seq(Ids)
    BY <1>1, <1>2 DEF HoldsVectors
  <2>2. Live' \subseteq Ids /\ id_to_slot' \in [Live' -> Nat]
    <3>1. \A i \in Elements(sidecar.slot_to_id) :
            PositionIn(sidecar.slot_to_id, i) \in 1..Len(sidecar.slot_to_id)
      BY <1>2, PositionInProperties
    <3>2. QED
      BY <1>1, <1>2, <1>3, <3>1
  <2>3. DOMAIN records' \subseteq Ids /\ records' \in [DOMAIN records' -> Record]
    BY <1>1, <1>2, <1>3, <1>4
  <2>4. /\ DOMAIN edges' \subseteq Ids \X Ids /\ edges' \in [DOMAIN edges' -> Weights]
        /\ IsFiniteSet(DOMAIN edges')
    <3>1. /\ DOMAIN edges' \subseteq (DOMAIN sidecar.wrote.nodes) \X (DOMAIN sidecar.wrote.nodes)
          /\ edges' \in [DOMAIN edges' -> Weights] /\ IsFiniteSet(DOMAIN edges')
          /\ DOMAIN sidecar.wrote.nodes = Elements(sidecar.slot_to_id)
      BY <1>1 DEF HoldsGraph, IsMemory
    <3>2. QED
      BY <1>2, <3>1
  <2>5. tag_to_ids' \in [Tags -> SUBSET Ids] /\ source_to_ids' \in [Sources -> SUBSET Ids]
    BY <1>1, <1>2 DEF TagIndexOf, SourceIndexOf
  <2>6. time_index' \subseteq Int \X Ids
    BY <1>1, <1>2, <1>3, <1>4 DEF TimeIndexOf, TimeEntry, Record
  <2>7. DOMAIN caches' = CacheNames
    BY <1>1
  <2>8. QED
    BY <2>1, <2>2, <2>3, <2>4, <2>5, <2>6, <2>7 DEF Tables
<1>6. NodesAligned'
  <2>1. Len(rows') = Len(slot_to_id')
    BY <1>1 DEF Agree
  <2>2. \A s \in 1..Len(slot_to_id') : id_to_slot'[slot_to_id'[s]] = s
    <3>1. ASSUME NEW s \in 1..Len(sidecar.slot_to_id)
          PROVE  id_to_slot'[sidecar.slot_to_id[s]] = s
      <4>1. sidecar.slot_to_id[s] \in Elements(sidecar.slot_to_id)
        BY DEF Elements
      <4>2. QED
        BY <1>1, <1>2, <4>1, PositionInDistinct
    <3>2. QED
      BY <1>1, <3>1
  <2>3. QED
    BY <1>1, <1>3, <2>1, <2>2 DEF NodesAligned
<1>7. EdgesLive'
  BY <1>1, <1>2, <1>3 DEF EdgesLive, Agree
<1>8. RecordsIndexed'
  <2>1. \A t \in Tags : tag_to_ids'[t] = {i \in Live' : t \in records'[i].tags}
    BY <1>1, <1>3 DEF TagIndexOf
  <2>2. \A s \in Sources : source_to_ids'[s] = {i \in Live' : records'[i].source = s}
    BY <1>1, <1>3 DEF SourceIndexOf
  <2>3. time_index' = {<<records'[i].time, i>> : i \in {i \in Live' : records'[i].time # NoTime}}
    <3>1. time_index' = UNION {TimeEntry(i, records'[i]) : i \in Live'}
      BY <1>1, <1>3 DEF TimeIndexOf
    <3>2. QED
      BY <3>1 DEF TimeEntry
  <2>4. QED
    BY <2>1, <2>2, <2>3 DEF RecordsIndexed
<1>9. CachesFresh'
  BY <1>1 DEF CachesFresh, EmptyFn
<1>10. QED
  BY <1>5, <1>6, <1>7, <1>8, <1>9 DEF IInv

\* A new memory is an initial one.
LEMMA NewKeeps ==
  ASSUME NEW sh, New(sh)
  PROVE  IInv'
<1>1. Init'
  BY DEF New, Init
<1>2. Init' => IInv'
  BY InitStep, PTL
<1>3. QED
  BY <1>1, <1>2

\* Every query that a search or a prepared view starts with.
QuerySteps(k, f) ==
  \/ GraphView(k) \/ MetadataPlan(k, f) \/ PolicyView(k) \/ ExplainPolicyView(k)
  \/ PolicyMetadataPlan(k, f) \/ RerankSearch(k, f) \/ TraceSearch(k, f) \/ ExplainedSearch(k, f)
  \/ UNCHANGED vars

\* None of them changes more than the caches.
LEMMA QueryStepsKeep ==
  ASSUME IInv, NEW k, NEW f, QuerySteps(k, f)
  PROVE  IInv' /\ UNCHANGED <<nodes, metadata, edges>>
<1>1. ASSUME ExplainedSearch(k, f)
      PROVE  IInv' /\ UNCHANGED <<nodes, metadata, edges>>
  <2> DEFINE visits == Fill("policy_visit", k, VisitsOf(k))
  <2>1. /\ visits = FreshFill("policy_visit", k)
        /\ Fill("policy_view", k, PolicyViewOf(k)) = FreshFill("policy_view", k)
        /\ \A x \in DOMAIN visits : visits[x] = FreshValue("policy_visit", x)
        /\ \A x \in DOMAIN FreshFill("policy_view", k) :
             FreshFill("policy_view", k)[x] = FreshValue("policy_view", x)
    BY PolicyFills
  <2> HIDE DEF visits
  <2>2. CASE NewPolicyPlan(k, f, visits)
    BY <2>1, <2>2, NewPolicyPlanStep DEF NewPolicyPlan, Query
  <2>3. CASE Query([policy_visit |-> visits, policy_view |-> FreshFill("policy_view", k)])
    <3>1. /\ caches' = [c \in CacheNames |->
                          IF c = "policy_visit" THEN visits
                          ELSE IF c = "policy_view" THEN FreshFill("policy_view", k)
                          ELSE caches[c]]
          /\ UNCHANGED <<nodes, metadata, edges>>
      BY <2>3 DEF Query
    <3>2. \A c \in CacheNames : \A x \in DOMAIN caches'[c] : caches'[c][x] = FreshValue(c, x)
      <4>1. ASSUME NEW c \in CacheNames
            PROVE  \A x \in DOMAIN caches'[c] : caches'[c][x] = FreshValue(c, x)
        <5>1. CASE c \in {"policy_visit", "policy_view"}
          BY <2>1, <3>1, <5>1
        <5>2. CASE c \notin {"policy_visit", "policy_view"}
          BY <3>1, <5>2, OldIsFresh
        <5>3. QED
          BY <5>1, <5>2
      <4>2. QED
        BY <4>1
    <3>3. QED
      BY <3>1, <3>2, CacheStep
  <2>4. QED
    BY <1>1, <2>1, <2>2, <2>3 DEF ExplainedSearch, visits
<1>2. CASE UNCHANGED vars
  BY <1>2, NextStep DEF vars
<1>3. CASE GraphView(k)
  BY <1>3, GraphViewStep DEF GraphView, Query
<1>4. CASE MetadataPlan(k, f)
  BY <1>4, MetadataPlanStep DEF MetadataPlan, Query
<1>5. CASE PolicyView(k) \/ ExplainPolicyView(k)
  BY <1>5, PolicyViewStep DEF PolicyView, ExplainPolicyView, Query
<1>6. CASE PolicyMetadataPlan(k, f)
  BY <1>6, PolicyMetadataPlanStep DEF PolicyMetadataPlan, NewPolicyPlan, Query
<1>7. CASE RerankSearch(k, f)
  BY <1>7, RerankSearchStep DEF RerankSearch, NewPolicyPlan, Query
<1>8. CASE TraceSearch(k, f)
  BY <1>8, TraceSearchStep DEF TraceSearch, Query
<1>9. QED
  BY <1>1, <1>2, <1>3, <1>4, <1>5, <1>6, <1>7, <1>8 DEF QuerySteps

\* Searches and prepared views read the memory and fill caches.
LEMMA SearchesQuery ==
  ASSUME SearchViews \/ SearchPolicies \/ PrepareOrSearch \/ Return
  PROVE  \E k, f : QuerySteps(k, f)
<1>1. ASSUME UNCHANGED vars
      PROVE  \E k, f : QuerySteps(k, f)
  BY <1>1 DEF QuerySteps
<1>2. ASSUME NEW v, NEW f, Planned(v, f) \/ PolicyPlanned(v, f)
      PROVE  \E k, g : QuerySteps(k, g)
  BY <1>2 DEF QuerySteps, Planned, PolicyPlanned
<1>3. CASE SearchViews
  <2>1. PICK k \in Ks, q \in Queries :
          \/ SearchGlobal(k, q)
          \/ \E v \in ViewKeys, f \in Filters :
               \/ SearchView(v, f, k, q) \/ SearchTrace(v, f, k, q)
               \/ \E list \in CandidateLists : SearchViewCandidates(v, f, list, k, q)
    BY <1>3 DEF SearchViews
  <2>2. CASE SearchGlobal(k, q)
    BY <1>1, <2>2 DEF SearchGlobal
  <2>3. ASSUME NEW v, NEW f, SearchView(v, f, k, q) \/ \E list : SearchViewCandidates(v, f, list, k, q)
        PROVE  \E kk, g : QuerySteps(kk, g)
    BY <1>2, <2>3 DEF SearchView, SearchViewCandidates
  <2>4. ASSUME NEW v, NEW f, SearchTrace(v, f, k, q)
        PROVE  \E kk, g : QuerySteps(kk, g)
    BY <2>4 DEF SearchTrace, QuerySteps
  <2>5. QED
    BY <2>1, <2>2, <2>3, <2>4
<1>4. ASSUME NEW p, NEW f, RerankSearch(p, f) \/ ExplainedSearch(p, f)
      PROVE  \E k, g : QuerySteps(k, g)
  BY <1>4 DEF QuerySteps
<1>5. CASE SearchPolicies
  <2>1. PICK k \in Ks, q \in Queries, f \in Filters :
          \/ \E p \in PolicyKeys :
               \/ \E list \in CandidateLists \cup {AnyIds} : SearchPolicyView(p, f, list, k, q)
               \/ \E b \in Blends :
                    \/ SearchRerank(p, f, k, q, b) \/ ExplainRerank(p, f, k, q, b)
                    \/ \E list \in CandidateLists :
                         \/ SearchCandidatesRerank(p, f, list, k, q, b)
                         \/ SearchHybrid(p, f, list, k, q, b)
                         \/ ExplainCandidatesRerank(p, f, list, k, q, b)
                         \/ ExplainHybrid(p, f, list, k, q, b)
          \/ \E preset \in Presets : ExplainWithPreset(preset, f, k, q)
    BY <1>5 DEF SearchPolicies
  <2>2. ASSUME NEW p, NEW list, SearchPolicyView(p, f, list, k, q)
        PROVE  \E kk, g : QuerySteps(kk, g)
    BY <1>2, <2>2 DEF SearchPolicyView
  <2>3. ASSUME NEW p, NEW b, SearchRerank(p, f, k, q, b) \/ ExplainRerank(p, f, k, q, b)
        PROVE  \E kk, g : QuerySteps(kk, g)
    BY <1>4, <2>3 DEF SearchRerank, ExplainRerank
  <2>4. ASSUME NEW p, NEW b, NEW list,
               \/ SearchCandidatesRerank(p, f, list, k, q, b)
               \/ SearchHybrid(p, f, list, k, q, b)
               \/ ExplainCandidatesRerank(p, f, list, k, q, b)
               \/ ExplainHybrid(p, f, list, k, q, b)
        PROVE  \E kk, g : QuerySteps(kk, g)
    BY <1>4, <2>4 DEF SearchCandidatesRerank, SearchHybrid, ExplainCandidatesRerank, ExplainHybrid
  <2>5. ASSUME NEW preset, ExplainWithPreset(preset, f, k, q)
        PROVE  \E kk, g : QuerySteps(kk, g)
    BY <2>3, <2>5 DEF ExplainWithPreset
  <2>6. QED
    BY <2>1, <2>2, <2>3, <2>4, <2>5
<1>6. CASE PrepareOrSearch
  <2>1. ASSUME NEW v, PrepareView(v) \/ PreparePolicyView(v)
        PROVE  \E k, g : QuerySteps(k, g)
    BY <2>1 DEF PrepareView, PreparePolicyView, QuerySteps
  <2>2. ASSUME NEW v, NEW f, PrepareFiltered(v, f) \/ PreparePolicyFiltered(v, f)
        PROVE  \E k, g : QuerySteps(k, g)
    BY <1>2, <1>4, <2>2 DEF PrepareFiltered, PreparePolicyFiltered
  <2>3. ASSUME NEW k, NEW q, SearchPrepared(k, q) \/ \E b : SearchPreparedRerank(k, q, b)
        PROVE  \E kk, g : QuerySteps(kk, g)
    BY <1>1, <2>3 DEF SearchPrepared, SearchPreparedRerank
  <2>4. QED
    BY <1>6, <2>1, <2>2, <2>3 DEF PrepareOrSearch
<1>7. CASE Return
  BY <1>1, <1>7 DEF Return
<1>8. QED
  BY <1>3, <1>5, <1>6, <1>7

\* The mutations of a session are those of the memory.
LEMMA MutateMoves ==
  ASSUME Mutate \/ TrimCaches
  PROVE  Next
<1>1. CASE TrimCaches
  BY <1>1 DEF TrimCaches, Next, Lookups
<1>2. CASE Mutate
  <2>1. Mutation
    BY <1>2 DEF Mutate, Embed, Retag, Restructure, Mutation
  <2>2. QED
    BY <2>1 DEF Next
<1>3. QED
  BY <1>1, <1>2

\* A write saves the memory as it is.
LEMMA ImagesHold ==
  ASSUME IInv
  PROVE  HoldsVectors(IndexImage) /\ HoldsGraph(SidecarImage)
<1>1. /\ rows \in Seq(Vectors) /\ slot_to_id \in Seq(Ids) /\ Len(rows) = Len(slot_to_id)
      /\ Live = Elements(slot_to_id) /\ DOMAIN records = Live
      /\ records \in [Live -> Record]
      /\ \A s \in 1..Len(slot_to_id) : id_to_slot[slot_to_id[s]] = s
  BY DEF IInv, Tables, NodesAligned
<1>2. /\ Contents.shape = shape /\ Contents.slot_to_id = slot_to_id /\ Contents.edges = edges
      /\ Contents.nodes = [i \in Live |-> <<rows[id_to_slot[i]], records[i]>>]
      /\ Contents = [shape |-> shape, slot_to_id |-> slot_to_id, edges |-> edges,
                     nodes |-> Contents.nodes]
  BY DEF Contents
<1>3. IsMemory(Contents)
  <2>1. IsDistinct(slot_to_id)
    BY <1>1 DEF IsDistinct
  <2>2. Contents.nodes = [i \in Elements(slot_to_id) |-> Contents.nodes[i]]
    BY <1>1, <1>2
  <2>3. /\ DOMAIN edges \subseteq Live \X Live /\ edges \in [DOMAIN edges -> Weights]
        /\ IsFiniteSet(DOMAIN edges)
    BY MemoryIsGraph DEF IInv, Tables
  <2>4. QED
    BY <1>1, <1>2, <2>1, <2>2, <2>3 DEF IsMemory
<1>4. HoldsVectors(IndexImage)
  <2>1. IndexImage.wrote = Contents /\ IndexImage.rows = rows /\ IndexImage.shape = shape
    BY DEF IndexImage
  <2>2. \A s \in 1..Len(rows) : Contents.nodes[slot_to_id[s]][1] = rows[s]
    <3>1. ASSUME NEW s \in 1..Len(rows)
          PROVE  Contents.nodes[slot_to_id[s]][1] = rows[s]
      <4>1. slot_to_id[s] \in Live /\ id_to_slot[slot_to_id[s]] = s
        BY <1>1 DEF Elements
      <4>2. QED
        BY <1>2, <4>1
    <3>2. QED
      BY <3>1
  <2>3. DOMAIN rows = 1..Len(rows)
    BY <1>1
  <2>4. QED
    BY <1>1, <1>2, <1>3, <2>1, <2>2, <2>3 DEF HoldsVectors
<1>5. HoldsGraph(SidecarImage)
  <2>1. /\ SidecarImage.wrote = Contents /\ SidecarImage.version = 2 /\ SidecarImage.shape = shape
        /\ SidecarImage.slot_to_id = slot_to_id /\ SidecarImage.records = records
        /\ SidecarImage.edges = edges
    BY DEF SidecarImage
  <2>2. records = [i \in DOMAIN Contents.nodes |-> Contents.nodes[i][2]]
    BY <1>1, <1>2
  <2>3. \A i \in DOMAIN records : records[i] \in Record
    BY <1>1
  <2>4. QED
    BY <1>2, <1>3, <2>1, <2>2, <2>3 DEF HoldsGraph, Record
<1>6. QED
  BY <1>4, <1>5

\* What a save leaves is readable in this sense, wherever it stopped.
LEMMA FilesKeep ==
  ASSUME IInv, FilesInv,
         \/ UNCHANGED <<index_file, sidecar>>
         \/ Write \/ WriteStops
  PROVE  FilesInv'
<1>1. index_file' \in {index_file, Torn, IndexImage} /\ sidecar' \in {sidecar, Torn, SidecarImage}
  BY DEF Write, WriteStops
<1>2. Readable(index_file') => HoldsVectors(index_file')
  BY <1>1, ImagesHold DEF FilesInv, Readable
<1>3. Readable(sidecar') => HoldsGraph(sidecar')
  BY <1>1, ImagesHold DEF FilesInv, Readable
<1>4. \A file : HoldsVectors(file)' = HoldsVectors(file) /\ HoldsGraph(file)' = HoldsGraph(file)
  OBVIOUS
<1>5. QED
  BY <1>2, <1>3 DEF FilesInv, Readable, HoldsVectors, HoldsGraph, IsMemory

\* Every step of a session keeps the memory and the files sound.
LEMMA MemoryStep ==
  ASSUME IInv, FilesInv, [SessionNext]_sessionVars
  PROVE  IInv' /\ FilesInv'
<1>1. CASE UNCHANGED sessionVars
  <2>1. UNCHANGED vars /\ UNCHANGED <<index_file, sidecar>>
    BY <1>1 DEF sessionVars, searchVars, files
  <2>2. QED
    BY <2>1, NextStep, FilesKeep
<1>2. CASE Searching /\ UNCHANGED files
  <2>1. (\E k, f : QuerySteps(k, f)) \/ Next
    <3>1. (SearchViews \/ SearchPolicies \/ PrepareOrSearch \/ Return) \/ (Mutate \/ TrimCaches)
      BY <1>2, Zenon DEF Searching
    <3>2. QED
      BY <3>1, SearchesQuery, MutateMoves, Zenon
  <2>2. IInv'
    BY <2>1, QueryStepsKeep, NextStep
  <2>3. QED
    BY <1>2, <2>2, FilesKeep DEF files
<1>3. CASE Saving
  <2>1. CASE Mutation /\ UNCHANGED files
    BY <2>1, NextStep, FilesKeep DEF Next, files
  <2>2. CASE Write \/ WriteStops
    BY <2>2, NextStep, FilesKeep DEF Write, WriteStops
  <2>3. CASE Load
    BY <2>3, LoadKeeps, FilesKeep DEF Load
  <2>4. ASSUME NEW sh, New(sh)
        PROVE  IInv' /\ FilesInv'
    BY <2>4, NewKeeps, FilesKeep DEF New
  <2>5. QED
    BY <1>3, <2>1, <2>2, <2>3, <2>4 DEF Saving
<1>4. UNCHANGED sessionVars \/ (Searching /\ UNCHANGED files) \/ Saving
  BY Zenon DEF SessionNext
<1>5. QED
  BY <1>1, <1>2, <1>3, <1>4, Zenon

\* A session starts with both.
LEMMA MemoryStart ==
  ASSUME SessionInit
  PROVE  IInv /\ FilesInv
<1>1. IInv
  BY InitStep DEF SessionInit, SearchInit
<1>2. FilesInv
  <2>1. CASE index_file = NoFile /\ sidecar = NoFile
    BY <2>1 DEF FilesInv, Readable
  <2>2. ASSUME NEW pair \in OldPairs, index_file = pair.index_file, sidecar = pair.sidecar
        PROVE  FilesInv
    BY <2>2, FilesConstantsOK DEF FilesInv
  <2>3. QED
    BY <2>1, <2>2 DEF SessionInit, FilesInit
<1>3. QED
  BY <1>1, <1>2

\* Index, slot tables, records, edges and metadata indexes agree in every
\* session, also in a memory that load puts together from files of different
\* writes (load, read_graph_sidecar and the mutations).
THEOREM SessionStaysSound == SessionSpec => []MemorySound
<1>1. IInv => MemorySound
  BY DEF IInv, MemorySound
<1>2. QED
  BY <1>1, MemoryStart, MemoryStep, PTL DEF SessionSpec

-----------------------------------------------------------------------------
\* Files.

\* Two files of one write are accepted, and what is loaded from them is what
\* was saved.
LEMMA PairAgrees ==
  ASSUME FilesInv, Paired
  PROVE  Agree
<1> DEFINE m == sidecar.wrote
<1>1. /\ HoldsVectors(index_file) /\ HoldsGraph(sidecar) /\ index_file.wrote = m
  BY DEF FilesInv, Paired
<1>2. /\ IsMemory(m) /\ sidecar.shape = index_file.shape
      /\ sidecar.slot_to_id = m.slot_to_id /\ sidecar.edges = m.edges
      /\ Len(m.slot_to_id) = Len(index_file.rows) /\ DOMAIN sidecar.records = DOMAIN m.nodes
  BY <1>1 DEF HoldsVectors, HoldsGraph
<1> HIDE DEF m
<1>3. /\ IsDistinct(m.slot_to_id) /\ DOMAIN m.nodes = Elements(m.slot_to_id)
      /\ DOMAIN m.edges \subseteq (DOMAIN m.nodes) \X (DOMAIN m.nodes)
  BY <1>2 DEF IsMemory
<1>4. QED
  BY <1>2, <1>3 DEF Agree

\* A load of files of one save gives back the memory that was saved.
LEMMA LoadRestores ==
  ASSUME FilesInv, Paired, Load
  PROVE  Contents' = [sidecar.wrote EXCEPT !.nodes =
                        [i \in DOMAIN @ |-> <<@[i][1], ReadRecord(@[i][2])>>]]
<1> DEFINE m == sidecar.wrote
           read == [i \in DOMAIN m.nodes |-> <<m.nodes[i][1], ReadRecord(m.nodes[i][2])>>]
<1>1. HoldsVectors(index_file) /\ HoldsGraph(sidecar) /\ index_file.wrote = m /\ IsMemory(m)
  BY DEF FilesInv, Paired, HoldsGraph
<1>2. /\ m = [shape |-> m.shape, slot_to_id |-> m.slot_to_id, edges |-> m.edges,
              nodes |-> m.nodes]
      /\ m.slot_to_id \in Seq(Ids) /\ IsDistinct(m.slot_to_id)
      /\ DOMAIN m.nodes = Elements(m.slot_to_id)
  BY <1>1 DEF IsMemory
<1>3. [m EXCEPT !.nodes = [i \in DOMAIN @ |-> <<@[i][1], ReadRecord(@[i][2])>>]]
        = [shape |-> m.shape, slot_to_id |-> m.slot_to_id, edges |-> m.edges, nodes |-> read]
  <2>1. [m EXCEPT !.nodes = [i \in DOMAIN @ |-> <<@[i][1], ReadRecord(@[i][2])>>]]
          = [m EXCEPT !.nodes = read]
    OBVIOUS
  <2> HIDE DEF read, m
  <2>2. [m EXCEPT !.nodes = read]
          = [shape |-> m.shape, slot_to_id |-> m.slot_to_id, edges |-> m.edges, nodes |-> read]
    BY <1>2
  <2>3. QED
    BY <2>1, <2>2 DEF m
<1>4. /\ shape' = m.shape /\ slot_to_id' = m.slot_to_id /\ edges' = m.edges
      /\ rows' = index_file.rows
      /\ id_to_slot' = [i \in Elements(m.slot_to_id) |-> PositionIn(m.slot_to_id, i)]
      /\ records' = [i \in DOMAIN m.nodes |-> ReadRecord(m.nodes[i][2])]
  <2>1. /\ shape' = index_file.shape /\ slot_to_id' = sidecar.slot_to_id /\ edges' = sidecar.edges
        /\ rows' = index_file.rows
        /\ id_to_slot' = [i \in Elements(sidecar.slot_to_id) |-> PositionIn(sidecar.slot_to_id, i)]
        /\ records' = [i \in DOMAIN sidecar.records |-> ReadRecord(sidecar.records[i])]
    BY DEF Load
  <2>2. sidecar.slot_to_id = m.slot_to_id /\ sidecar.edges = m.edges /\ index_file.shape = m.shape
        /\ sidecar.records = [i \in DOMAIN m.nodes |-> m.nodes[i][2]]
    BY <1>1 DEF HoldsGraph, HoldsVectors
  <2>3. /\ DOMAIN sidecar.records = DOMAIN m.nodes
        /\ \A i \in DOMAIN m.nodes : sidecar.records[i] = m.nodes[i][2]
    BY <2>2
  <2> HIDE DEF m
  <2>4. [i \in DOMAIN sidecar.records |-> ReadRecord(sidecar.records[i])]
          = [i \in DOMAIN m.nodes |-> ReadRecord(m.nodes[i][2])]
    BY <2>3
  <2>5. QED
    BY <2>1, <2>2, <2>4
<1>5. /\ Live' = DOMAIN m.nodes
      /\ \A i \in DOMAIN m.nodes : rows'[id_to_slot'[i]] = m.nodes[i][1]
  <2>1. Live' = DOMAIN m.nodes
    BY <1>2, <1>4 DEF Live
  <2>2. /\ Len(index_file.rows) = Len(m.slot_to_id) /\ index_file.rows \in Seq(Vectors)
        /\ \A s \in DOMAIN index_file.rows : m.nodes[m.slot_to_id[s]][1] = index_file.rows[s]
    BY <1>1 DEF HoldsVectors
  <2> HIDE DEF m
  <2>3. ASSUME NEW i \in DOMAIN m.nodes
        PROVE  rows'[id_to_slot'[i]] = m.nodes[i][1]
    <3>1. /\ PositionIn(m.slot_to_id, i) \in 1..Len(m.slot_to_id)
          /\ m.slot_to_id[PositionIn(m.slot_to_id, i)] = i
      BY <1>2, PositionInProperties
    <3>2. PositionIn(m.slot_to_id, i) \in DOMAIN index_file.rows
      BY <2>2, <3>1
    <3>3. QED
      BY <1>2, <1>4, <2>2, <3>1, <3>2
  <2>4. QED
    BY <2>1, <2>3
<1>6. Contents' = [shape |-> m.shape, slot_to_id |-> m.slot_to_id, edges |-> m.edges, nodes |-> read]
  <2>1. Contents' = [shape |-> shape', slot_to_id |-> slot_to_id', edges |-> edges',
                     nodes |-> [i \in Live' |-> <<rows'[id_to_slot'[i]], records'[i]>>]]
    BY DEF Contents
  <2> HIDE DEF m
  <2>2. [i \in Live' |-> <<rows'[id_to_slot'[i]], records'[i]>>] = read
    BY <1>4, <1>5
  <2> HIDE DEF read
  <2>3. QED
    BY <1>4, <2>1, <2>2
<1>7. QED
  BY <1>3, <1>6

\* load never turns down what one write wrote, and gives every id the vector,
\* the record and the edges it had (write, load, write_graph_sidecar and
\* read_graph_sidecar).
THEOREM WritesStayRestored == SessionSpec => WritesRestored
<1> DEFINE Restored == Paired => /\ Agree
                                 /\ Load => Contents' = [sidecar.wrote EXCEPT !.nodes =
                                      [i \in DOMAIN @ |-> <<@[i][1], ReadRecord(@[i][2])>>]]
<1>1. FilesInv => [Restored]_<<vars, files>>
  BY PairAgrees, LoadRestores
<1>2. QED
  BY <1>1, MemoryStart, MemoryStep, PTL DEF SessionSpec, WritesRestored

-----------------------------------------------------------------------------
\* What the queries of a search find.

\* A view under a policy, of a caller or of a preset.
IsPolicyView(p) == p \in PolicyViews /\ IsFiniteSet(p.seeds)

\* The records of a view that a filter lets through today.
Chosen(view, f) == {i \in ViewIds(view) : Matches(records[i], f)}

IsMask(mask) == /\ mask = [len |-> mask.len, slots |-> mask.slots]
                /\ mask.len \in Nat /\ mask.slots \subseteq 1..mask.len

\* A mask of the index as it is, that selects the given ids.
Picks(mask, ids) == IsMask(mask) /\ Selects(mask, ids)

\* The kinds of views can be told apart.
LEMMA ViewsDiffer ==
  /\ \A v \in ViewKeys : v # NoView /\ "max_nodes" \notin DOMAIN v /\ v.max_hops \in Nat
  /\ \A p : IsPolicyView(p) => p # NoView /\ "max_nodes" \in DOMAIN p /\ IsPolicyKey(p)
  /\ \A p \in PolicyKeys : IsPolicyView(p)
  /\ \A f \in Filters : IsFilter(f)
  /\ IsFilter(Unfiltered)
<1>1. /\ ViewKeys \subseteq [seeds : SUBSET Nat, max_hops : Nat]
      /\ PolicyKeys \subseteq PolicyViews /\ NoView \notin ViewKeys /\ NoView \notin PolicyViews
  BY GraphConstantsOK, SearchConstantsOK DEF GraphConstantsOK, SearchConstantsOK
<1>2. \A v \in ViewKeys : v # NoView /\ "max_nodes" \notin DOMAIN v /\ v.max_hops \in Nat
  BY <1>1
<1>3. \A p : IsPolicyView(p) => p # NoView /\ "max_nodes" \in DOMAIN p /\ IsPolicyKey(p)
  BY <1>1 DEF IsPolicyView, IsPolicyKey, PolicyViews
<1>4. \A p \in PolicyKeys : IsPolicyView(p)
  BY <1>1, GraphConstantsOK DEF GraphConstantsOK, IsPolicyKey, IsPolicyView
<1>5. \A f \in Filters : IsFilter(f)
  BY GraphConstantsOK DEF GraphConstantsOK, IsFilter
<1>6. IsFilter(Unfiltered)
  BY DEF IsFilter, Unfiltered
<1>7. QED
  BY <1>2, <1>3, <1>4, <1>5, <1>6

\* A filter that asks for nothing lets every record through.
LEMMA UnfilteredMatches == \A r : Matches(r, Unfiltered)
  BY DEF Matches, Unfiltered, Window, Bounded

\* The masks of ids, and of a plan.
LEMMA MasksPick ==
  ASSUME IInv, NEW ids \in SUBSET Live
  PROVE  /\ Picks(MaskOf(ids), ids)
         /\ \A f : IsFilter(f) =>
              Picks(FreshPlan(MaskOf(ids), f).mask, {i \in ids : Matches(records[i], f)})
<1>1. ASSUME NEW mask, mask = [len |-> mask.len, slots |-> mask.slots],
             NEW chosen, Selects(mask, chosen)
      PROVE  Picks(mask, chosen)
  BY <1>1 DEF Picks, Selects, IsMask, IInv, Tables, NodesAligned
<1>2. Picks(MaskOf(ids), ids)
  <2>1. Selects(MaskOf(ids), ids \cap Live) /\ ids \cap Live = ids
    BY MaskSelects DEF IInv
  <2>2. MaskOf(ids) = [len |-> MaskOf(ids).len, slots |-> MaskOf(ids).slots]
    BY DEF MaskOf
  <2>3. QED
    BY <1>1, <2>1, <2>2
<1>3. ASSUME NEW f, IsFilter(f)
      PROVE  Picks(FreshPlan(MaskOf(ids), f).mask, {i \in ids : Matches(records[i], f)})
  <2> DEFINE left == {s \in MaskOf(ids).slots :
                        /\ \A t \in f.tags : s \in TagMask(t).slots
                        /\ f.sources = {} \/ \E src \in f.sources : s \in SourceMask(src).slots
                        /\ Bounded(Window(f)) => s \in TimeMask(Window(f)).slots}
             plan == FreshPlan(MaskOf(ids), f).mask
  <2>1. plan = [MaskOf(ids) EXCEPT !.slots = left]
    BY DEF FreshPlan
  <2> HIDE DEF left, plan
  <2>2. plan = [len |-> MaskOf(ids).len, slots |-> left]
    BY <2>1 DEF MaskOf
  <2>3. plan = [len |-> plan.len, slots |-> plan.slots]
    BY <2>2
  <2>4. Selects(plan, {i \in ids : Matches(records[i], f)})
    BY <1>3, PlanSelects DEF plan
  <2>5. QED
    BY <1>1, <2>3, <2>4 DEF plan
<1>4. QED
  BY <1>2, <1>3

\* A search finds the mask of today's view, cached or not.
LEMMA ViewsSelect ==
  ASSUME IInv, NEW v \in ViewKeys
  PROVE  /\ ViewIds(v) = Connected(v) /\ ViewIds(v) \subseteq Live
         /\ Picks(ViewOf(v), Chosen(v, Unfiltered))
         /\ \A f : IsFilter(f) => Picks(PlanMask(v, f), Chosen(v, f))
<1>1. ViewIds(v) = Connected(v) /\ Connected(v) \in SUBSET Live
  BY ViewsDiffer DEF ViewIds, Connected
<1>2. ViewOf(v) = ViewMask(v) /\ ViewMask(v) = MaskOf(Connected(v))
  BY ViewsDiffer, LookupsAreFresh, ReachIsConnected DEF ViewMask
<1>3. Picks(ViewOf(v), Chosen(v, Unfiltered))
  <2>1. Chosen(v, Unfiltered) = Connected(v)
    BY <1>1, UnfilteredMatches DEF Chosen
  <2>2. QED
    BY <1>1, <1>2, <2>1, MasksPick
<1>4. ASSUME NEW f, IsFilter(f)
      PROVE  Picks(PlanMask(v, f), Chosen(v, f))
  <2>1. CachedPlan(ViewOf(v), f) = FreshValue("combined", <<v, f>>)
    BY <1>2, LookupsAreFresh DEF FreshValue
  <2>2. PlanMask(v, f) = FreshPlan(MaskOf(Connected(v)), f).mask
    BY <1>2, <2>1, Names, LookupIsFresh DEF PlanMask, FreshValue
  <2>3. QED
    BY <1>1, <1>4, <2>2, MasksPick DEF Chosen
<1>5. QED
  BY <1>1, <1>3, <1>4

\* The same under a policy.
LEMMA PolicyViewsSelect ==
  ASSUME IInv, NEW p, IsPolicyView(p)
  PROVE  /\ ViewIds(p) = VisitedIds(Visits(p)) /\ ViewIds(p) \subseteq Live
         /\ Picks(PolicyViewOf(p), Chosen(p, Unfiltered))
         /\ \A f : IsFilter(f) => /\ Picks(PolicyPlanMask(p, f), Chosen(p, f))
                                 /\ PolicyPlanMask(p, f) = FreshPlan(PolicyMask(p), f).mask
<1>1. ViewIds(p) = VisitedIds(Visits(p)) /\ VisitedIds(Visits(p)) \in SUBSET Live
  BY ViewsDiffer, VisitsLive DEF ViewIds
<1>2. PolicyViewOf(p) = PolicyMask(p) /\ PolicyMask(p) = MaskOf(VisitedIds(Visits(p)))
  BY LookupsAreFresh DEF PolicyMask
<1>3. Picks(PolicyViewOf(p), Chosen(p, Unfiltered))
  <2>1. Chosen(p, Unfiltered) = VisitedIds(Visits(p))
    BY <1>1, UnfilteredMatches DEF Chosen
  <2>2. QED
    BY <1>1, <1>2, <2>1, MasksPick
<1>4. ASSUME NEW f, IsFilter(f)
      PROVE  /\ Picks(PolicyPlanMask(p, f), Chosen(p, f))
             /\ PolicyPlanMask(p, f) = FreshPlan(PolicyMask(p), f).mask
  <2>1. CachedPlan(PolicyViewOf(p), f) = FreshValue("combined_policy", <<p, f>>)
    BY <1>2, LookupsAreFresh DEF FreshValue
  <2>2. PolicyPlanMask(p, f) = FreshPlan(PolicyMask(p), f).mask
    BY <1>2, <2>1, Names, LookupIsFresh DEF PolicyPlanMask, FreshValue
  <2>3. QED
    BY <1>1, <1>2, <1>4, <2>2, MasksPick DEF Chosen
<1>5. QED
  BY <1>1, <1>3, <1>4

-----------------------------------------------------------------------------
\* Prepared views.

\* The paths of a view that slots are scored by.
IsPaths(paths) == \A s \in DOMAIN paths : paths[s].weight \in Nat



\* A prepared view is well-formed, and up to date unless something it depends on
\* changed.
PreparedInv ==
  prepared # NoView =>
    /\ prepared = [view |-> prepared.view, filter |-> prepared.filter, mask |-> prepared.mask,
                   paths |-> prepared.paths, current |-> prepared.current]
    /\ prepared.view \in ViewKeys \/ IsPolicyView(prepared.view)
    /\ IsFilter(prepared.filter) /\ IsMask(prepared.mask) /\ IsPaths(prepared.paths)
    /\ prepared.current =>
         /\ Selects(prepared.mask, Chosen(prepared.view, prepared.filter))
         /\ "max_nodes" \in DOMAIN prepared.view =>
              prepared.paths = PathsBySlot(Visits(prepared.view))



\* Every slot of a policy's mask has one path, a strongest one.
LEMMA PathsFit ==
  ASSUME IInv, NEW p, IsPolicyView(p)
  PROVE  /\ DOMAIN PathsBySlot(Visits(p)) = PolicyMask(p).slots
         /\ IsPaths(PathsBySlot(Visits(p)))
<1> DEFINE visits == Visits(p)
           live == {i \in DOMAIN visits : visits[i].id \in Live}
           slots == {id_to_slot[visits[i].id] : i \in live}
           at(s) == CHOOSE i \in live : id_to_slot[visits[i].id] = s
<1>1. visits \in Seq(Items(Live))
  BY VisitsLive, ViewsDiffer
<1>2. PathsBySlot(visits) = [s \in slots |-> visits[at(s)]]
  BY DEF PathsBySlot
<1>3. slots = PolicyMask(p).slots
  <2>1. PolicyMask(p).slots = {id_to_slot[i] : i \in VisitedIds(visits) \cap Live}
    BY DEF PolicyMask, MaskOf
  <2> HIDE DEF visits
  <2>2. \A i : i \in VisitedIds(visits) <=> \E n \in DOMAIN visits : visits[n].id = i
    BY <1>1 DEF VisitedIds
  <2>3. QED
    BY <2>1, <2>2
<1> HIDE DEF visits
<1>4. ASSUME NEW s \in slots
      PROVE  visits[at(s)].weight \in Nat
  <2>1. \E i \in live : id_to_slot[visits[i].id] = s
    OBVIOUS
  <2>2. at(s) \in live
    BY <2>1
  <2>3. visits[at(s)] \in Items(Live)
    BY <1>1, <2>2
  <2>4. QED
    BY <2>3 DEF Items
<1> HIDE DEF at, slots
<1>5. DOMAIN PathsBySlot(visits) = slots /\ \A s \in slots : PathsBySlot(visits)[s] = visits[at(s)]
  BY <1>2
<1>6. QED
  BY <1>3, <1>4, <1>5 DEF IsPaths, visits

\* What a prepared view depends on.
LEMMA ViewsKept ==
  ASSUME UNCHANGED <<slot_to_id, id_to_slot, edges>>
  PROVE  /\ \A view : ViewIds(view)' = ViewIds(view)
         /\ \A view : PathsBySlot(Visits(view))' = PathsBySlot(Visits(view))
<1>1. Live' = Live /\ \A view : Visits(view)' = Visits(view) /\ Connected(view)' = Connected(view)
  BY DEF Live, Visits, Connected
<1>2. \A view : ViewIds(view)' = ViewIds(view)
  BY <1>1 DEF ViewIds, VisitedIds
<1>3. \A visits : PathsBySlot(visits)' = PathsBySlot(visits)
  BY <1>1 DEF PathsBySlot
<1>4. ASSUME NEW view
      PROVE  PathsBySlot(Visits(view))' = PathsBySlot(Visits(view))
  BY <1>1, <1>3
<1>5. QED
  BY <1>2, <1>4

\* A mask selects what it did while nodes, edges and slots stay.
LEMMA SelectionKept ==
  ASSUME UNCHANGED <<slot_to_id, id_to_slot, edges>>, Len(rows') = Len(rows),
         NEW view, NEW f, f = Unfiltered \/ records' = records
  PROVE  /\ Chosen(view, f)' = Chosen(view, f)
         /\ \A mask : Selects(mask, Chosen(view, f))' = Selects(mask, Chosen(view, f))
<1>1. Chosen(view, f)' = Chosen(view, f)
  BY ViewsKept, UnfilteredMatches DEF Chosen
<1>2. QED
  BY <1>1 DEF Selects

\* So a prepared view stays current.
LEMMA PreparedKept ==
  ASSUME PreparedInv, prepared' = prepared, UNCHANGED <<slot_to_id, id_to_slot, edges>>,
         Len(rows') = Len(rows), prepared.filter = Unfiltered \/ records' = records
  PROVE  PreparedInv'
<1>1. /\ Chosen(prepared.view, prepared.filter)' = Chosen(prepared.view, prepared.filter)
      /\ Selects(prepared.mask, Chosen(prepared.view, prepared.filter))'
           = Selects(prepared.mask, Chosen(prepared.view, prepared.filter))
      /\ PathsBySlot(Visits(prepared.view))' = PathsBySlot(Visits(prepared.view))
  BY SelectionKept, ViewsKept
<1>2. QED
  BY <1>1 DEF PreparedInv

\* Preparing a view leaves one that is up to date.
LEMMA PrepareMakes ==
  ASSUME UNCHANGED <<nodes, metadata, edges>>, NEW view, NEW f, NEW mask, NEW paths,
         view \in ViewKeys \/ IsPolicyView(view), IsFilter(f),
         Picks(mask, Chosen(view, f)), IsPaths(paths),
         "max_nodes" \in DOMAIN view => paths = PathsBySlot(Visits(view)),
         Prepare(view, f, mask, paths)
  PROVE  PreparedInv'
<1>1. /\ Selects(mask, Chosen(view, f))'
      /\ PathsBySlot(Visits(view))' = PathsBySlot(Visits(view))
  <2>1. UNCHANGED <<slot_to_id, id_to_slot, edges>> /\ Len(rows') = Len(rows) /\ records' = records
    BY DEF nodes, metadata
  <2>2. QED
    BY <2>1, SelectionKept, ViewsKept DEF Picks
<1>2. prepared' = [view |-> view, filter |-> f, mask |-> mask, paths |-> paths, current |-> TRUE]
  BY DEF Prepare
<1>3. /\ prepared'.view = view /\ prepared'.filter = f /\ prepared'.mask = mask
      /\ prepared'.paths = paths /\ prepared'.current = TRUE
  BY <1>2
<1>4. prepared' = [view |-> prepared'.view, filter |-> prepared'.filter, mask |-> prepared'.mask,
                   paths |-> prepared'.paths, current |-> prepared'.current]
  BY <1>2, <1>3
<1>5. IsMask(mask)
  BY DEF Picks
<1>6. QED
  BY <1>1, <1>3, <1>4, <1>5 DEF PreparedInv

\* Cached visits give today's paths.
LEMMA PathsOf ==
  ASSUME IInv, NEW p, IsPolicyView(p)
  PROVE  /\ PathsBySlot(VisitsOf(p)) = PathsBySlot(Visits(p))
         /\ IsPaths(PathsBySlot(Visits(p)))
  BY LookupsAreFresh, PathsFit

\* Each form of preparing a view makes one that is current.
LEMMA PrepareStep ==
  ASSUME IInv,
         \/ \E v \in ViewKeys : PrepareView(v) \/ \E f \in Filters : PrepareFiltered(v, f)
         \/ \E p \in PolicyKeys :
              PreparePolicyView(p) \/ \E f \in Filters : PreparePolicyFiltered(p, f)
  PROVE  PreparedInv'
<1>1. ASSUME NEW k, NEW f, QuerySteps(k, f)
      PROVE  UNCHANGED <<nodes, metadata, edges>>
  BY <1>1, QueryStepsKeep
<1>2. IsPaths(EmptyFn)
  BY DEF IsPaths, EmptyFn
<1>3. ASSUME NEW v \in ViewKeys, PrepareView(v)
      PROVE  PreparedInv'
  <2>1. GraphView(v) /\ Prepare(v, Unfiltered, ViewOf(v), EmptyFn)
    BY <1>3 DEF PrepareView
  <2>2. UNCHANGED <<nodes, metadata, edges>>
    BY <1>1, <2>1 DEF QuerySteps
  <2>3. QED
    BY <1>2, <2>1, <2>2, ViewsSelect, ViewsDiffer, PrepareMakes
<1>4. ASSUME NEW v \in ViewKeys, NEW f \in Filters, PrepareFiltered(v, f)
      PROVE  PreparedInv'
  <2>1. Planned(v, f) /\ Prepare(v, f, PlanMask(v, f), EmptyFn)
    BY <1>4 DEF PrepareFiltered
  <2>2. UNCHANGED <<nodes, metadata, edges>>
    BY <1>1, <2>1 DEF QuerySteps, Planned
  <2>3. QED
    BY <1>2, <2>1, <2>2, ViewsSelect, ViewsDiffer, PrepareMakes
<1>5. ASSUME NEW p \in PolicyKeys, PreparePolicyView(p)
      PROVE  PreparedInv'
  <2>1. ExplainPolicyView(p) /\ Prepare(p, Unfiltered, PolicyViewOf(p), PathsBySlot(VisitsOf(p)))
    BY <1>5 DEF PreparePolicyView
  <2>2. UNCHANGED <<nodes, metadata, edges>>
    BY <1>1, <2>1 DEF QuerySteps
  <2>3. QED
    BY <2>1, <2>2, PolicyViewsSelect, PathsOf, ViewsDiffer, PrepareMakes
<1>6. ASSUME NEW p \in PolicyKeys, NEW f \in Filters, PreparePolicyFiltered(p, f)
      PROVE  PreparedInv'
  <2>1. RerankSearch(p, f) /\ Prepare(p, f, PolicyPlanMask(p, f), PathsBySlot(VisitsOf(p)))
    BY <1>6 DEF PreparePolicyFiltered
  <2>2. UNCHANGED <<nodes, metadata, edges>>
    BY <1>1, <2>1 DEF QuerySteps
  <2>3. QED
    BY <2>1, <2>2, PolicyViewsSelect, PathsOf, ViewsDiffer, PrepareMakes
<1>7. QED
  BY <1>3, <1>4, <1>5, <1>6

\* A mutation leaves a prepared view up to date only if it changes nothing the
\* view depends on.
LEMMA MutateKeepsPrepared ==
  ASSUME IInv, PreparedInv, Mutate \/ TrimCaches
  PROVE  PreparedInv'
<1>1. ASSUME NEW kept, Keeps(kept), ~kept \/ prepared = NoView
      PROVE  PreparedInv'
  <2>1. CASE prepared = NoView
    BY <1>1, <2>1 DEF Keeps, PreparedInv
  <2>2. CASE prepared # NoView
    <3>1. /\ prepared = [view |-> prepared.view, filter |-> prepared.filter,
                         mask |-> prepared.mask, paths |-> prepared.paths,
                         current |-> prepared.current]
          /\ prepared.view \in ViewKeys \/ IsPolicyView(prepared.view)
          /\ IsFilter(prepared.filter) /\ IsMask(prepared.mask) /\ IsPaths(prepared.paths)
      BY <2>2 DEF PreparedInv
    <3>2. prepared' = [prepared EXCEPT !.current = FALSE]
      BY <1>1, <2>2 DEF Keeps
    <3>3. prepared' = [view |-> prepared.view, filter |-> prepared.filter, mask |-> prepared.mask,
                       paths |-> prepared.paths, current |-> FALSE]
      BY <3>1, <3>2
    <3>4. /\ prepared'.view = prepared.view /\ prepared'.filter = prepared.filter
          /\ prepared'.mask = prepared.mask /\ prepared'.paths = prepared.paths
          /\ prepared'.current = FALSE
      BY <3>3
    <3>5. QED
      BY <3>1, <3>3, <3>4 DEF PreparedInv
  <2>3. QED
    BY <2>1, <2>2
<1>2. ASSUME NEW i \in Ids, NEW v \in Vectors, Embed(i, v)
      PROVE  PreparedInv'
  <2>1. /\ i \in Live /\ rows' = SwapRemove(Append(rows, v), id_to_slot[i])
        /\ UNCHANGED <<slot_to_id, id_to_slot, edges>> /\ records' = records
        /\ prepared' = prepared
    BY <1>2 DEF Embed, ReplaceEmbedding, Keeps, metadata
  <2>2. Len(rows') = Len(rows)
    <3>1. rows \in Seq(Vectors) /\ Append(rows, v) \in Seq(Vectors)
          /\ Len(Append(rows, v)) = Len(rows) + 1 /\ Len(rows) \in Nat
      BY DEF IInv, Tables
    <3>2. id_to_slot[i] \in 1..Len(Append(rows, v))
      BY <2>1, <3>1, SlotOf DEF IInv, NodesAligned
    <3>3. Len(SwapRemove(Append(rows, v), id_to_slot[i])) = Len(Append(rows, v)) - 1
      <4> DEFINE longer == Append(rows, v)
      <4>1. longer \in Seq(Vectors) /\ id_to_slot[i] \in 1..Len(longer)
        BY <3>1, <3>2
      <4> HIDE DEF longer
      <4>2. Len(SwapRemove(longer, id_to_slot[i])) = Len(longer) - 1
        BY <4>1, SwapRemoveProperties
      <4>3. QED
        BY <4>2 DEF longer
    <3>4. QED
      BY <2>1, <3>1, <3>3
  <2>3. QED
    BY <2>1, <2>2, PreparedKept
<1>3. ASSUME NEW i \in Ids, NEW r \in Metadata, Retag(i, r)
      PROVE  PreparedInv'
  <2>1. CASE prepared # NoView /\ prepared.filter = Unfiltered
    <3>1. UNCHANGED <<slot_to_id, id_to_slot, edges>> /\ rows' = rows /\ prepared' = prepared
      BY <1>3, <2>1 DEF Retag, ReplaceMetadata, Keeps, nodes
    <3>2. QED
      BY <2>1, <3>1, PreparedKept
  <2>2. CASE ~(prepared # NoView /\ prepared.filter = Unfiltered)
    BY <1>1, <1>3, <2>2 DEF Retag
  <2>3. QED
    BY <2>1, <2>2
<1>4. CASE Restructure
  BY <1>1, <1>4 DEF Restructure
<1>5. CASE TrimCaches
  <2>1. UNCHANGED <<slot_to_id, id_to_slot, edges>> /\ rows' = rows /\ records' = records
        /\ prepared' = prepared
    BY <1>5 DEF TrimCaches, Trim, Keeps, nodes, metadata
  <2>2. QED
    BY <2>1, PreparedKept
<1>6. QED
  BY <1>2, <1>3, <1>4, <1>5 DEF Mutate

-----------------------------------------------------------------------------
\* Rankings.

\* A sequence of the elements of a finite set, each once.
Lists(at, S) == /\ at \in Seq(S) /\ Len(at) = Cardinality(S) /\ Cardinality(S) \in Nat
                /\ Elements(at) = S /\ IsDistinct(at)
                /\ \A x \in S : \E i \in DOMAIN at : at[i] = x

\* The two orders that rankings are put in are strict and total.
LEMMA NearerFirstOrders ==
  ASSUME NEW S, IsFiniteSet(S), S \subseteq [id : Int, depth : Int]
  PROVE  /\ Lists(InOrder(S, NearerFirst), S)
         /\ LET at == InOrder(S, NearerFirst)
            IN  \A i, j \in DOMAIN at : at[i].depth < at[j].depth => i < j
<1> DEFINE R == {xy \in S \X S : NearerFirst(xy[1], xy[2])}
           at == InOrder(S, NearerFirst)
<1>1. \A x, y \in S : <<x, y>> \in R <=> NearerFirst(x, y)
  OBVIOUS
<1>2. \A x \in S : x = [id |-> x.id, depth |-> x.depth] /\ x.id \in Int /\ x.depth \in Int
  OBVIOUS
<1> HIDE DEF R
<1>3. Orders(R, S)
  <2>1. \A x \in S : ~NearerFirst(x, x)
    BY <1>2 DEF NearerFirst
  <2>2. \A x, y, z \in S : NearerFirst(x, y) /\ NearerFirst(y, z) => NearerFirst(x, z)
    BY <1>2 DEF NearerFirst
  <2>3. \A x, y \in S : x = y \/ NearerFirst(x, y) \/ NearerFirst(y, x)
    BY <1>2 DEF NearerFirst
  <2>4. QED
    BY <1>1, <2>1, <2>2, <2>3, Zenon DEF Orders
<1>4. \A x \in S : Place(R, S, x) = Cardinality({y \in S : NearerFirst(y, x)})
  <2>1. \A x \in S : {y \in S : <<y, x>> \in R} = {y \in S : NearerFirst(y, x)}
    BY <1>1
  <2>2. QED
    BY <2>1 DEF Place
<1>5. at = [i \in 1..Cardinality(S) |->
              CHOOSE x \in S : Cardinality({y \in S : NearerFirst(y, x)}) = i - 1]
  BY DEF InOrder
<1>6. ASSUME NEW i \in 1..Cardinality(S)
      PROVE  at[i] \in S /\ Place(R, S, at[i]) = i - 1
  <2>1. \E x \in S : Cardinality({y \in S : NearerFirst(y, x)}) = i - 1
    BY <1>3, <1>4, PlacesTaken
  <2>2. at[i] = CHOOSE x \in S : Cardinality({y \in S : NearerFirst(y, x)}) = i - 1
    BY <1>5
  <2> HIDE DEF at
  <2>3. at[i] \in S /\ Cardinality({y \in S : NearerFirst(y, at[i])}) = i - 1
    BY <2>1, <2>2
  <2>4. QED
    BY <1>4, <2>3
<1>7. at \in [1..Cardinality(S) -> S]
  BY <1>5, <1>6
<1> HIDE DEF at
<1>8. Lists(at, S) /\ \A i, j \in DOMAIN at : <<at[i], at[j]>> \in R => i < j
  <2>1. \A i \in 1..Cardinality(S) : Place(R, S, at[i]) = i - 1
    BY <1>6
  <2>2. /\ at \in Seq(S) /\ Len(at) = Cardinality(S) /\ Cardinality(S) \in Nat
        /\ Elements(at) = S /\ IsDistinct(at)
        /\ \A x \in S : \E i \in DOMAIN at : at[i] = x
        /\ \A i, j \in DOMAIN at : <<at[i], at[j]>> \in R => i < j
    BY <1>3, <1>7, <2>1, PlacedInOrder
  <2>3. QED
    BY <2>2 DEF Lists
<1>9. ASSUME NEW i \in DOMAIN at, NEW j \in DOMAIN at, at[i].depth < at[j].depth
      PROVE  i < j
  <2>1. at[i] \in S /\ at[j] \in S
    BY <1>6, <1>7
  <2>2. <<at[i], at[j]>> \in R
    BY <1>1, <1>9, <2>1 DEF NearerFirst
  <2>3. QED
    BY <1>8, <2>2
<1>10. QED
  BY <1>8, <1>9 DEF at

\* A hit as it is ranked.
Scored == [id : Int, vector : Int, graph : Int, candidate : Int, score : Int]

\* Outranking, written out.
LEMMA OutranksIs ==
  ASSUME NEW a \in Scored, NEW b \in Scored
  PROVE  Outranks(a, b) <=>
           \/ a.score > b.score
           \/ a.score = b.score /\ a.vector > b.vector
           \/ a.score = b.score /\ a.vector = b.vector /\ a.graph > b.graph
           \/ a.score = b.score /\ a.vector = b.vector /\ a.graph = b.graph
                /\ a.candidate > b.candidate
           \/ a.score = b.score /\ a.vector = b.vector /\ a.graph = b.graph
                /\ a.candidate = b.candidate /\ a.id < b.id
<1> DEFINE x == <<a.score, a.vector, a.graph, a.candidate>>
           y == <<b.score, b.vector, b.graph, b.candidate>>
           differ == {i \in 1..4 : x[i] # y[i]}
<1>1. Outranks(a, b) <=> IF differ = {} THEN a.id < b.id ELSE x[Min(differ)] > y[Min(differ)]
  BY DEF Outranks
<1>2. /\ x[1] = a.score /\ x[2] = a.vector /\ x[3] = a.graph /\ x[4] = a.candidate
      /\ y[1] = b.score /\ y[2] = b.vector /\ y[3] = b.graph /\ y[4] = b.candidate
  OBVIOUS
<1>3. /\ a.score \in Int /\ a.vector \in Int /\ a.graph \in Int /\ a.candidate \in Int
      /\ b.score \in Int /\ b.vector \in Int /\ b.graph \in Int /\ b.candidate \in Int
      /\ a.id \in Int /\ b.id \in Int
  BY DEF Scored
<1>4. \A i \in 1..4 : i \in differ <=> x[i] # y[i]
  OBVIOUS
<1>5. differ \subseteq 1..4
  OBVIOUS
<1> HIDE DEF x, y, differ
<1>6. ASSUME NEW m \in differ, \A i \in differ : m <= i
      PROVE  Min(differ) = m
  <2>1. \E n \in differ : \A i \in differ : n <= i
    BY <1>6
  <2>2. Min(differ) \in differ /\ \A i \in differ : Min(differ) <= i
    BY <2>1 DEF Min
  <2> DEFINE n == Min(differ)
  <2>3. n \in differ /\ n <= m
    BY <1>6, <2>2
  <2> HIDE DEF n
  <2>4. m <= n /\ m \in Int /\ n \in Int
    BY <1>5, <1>6, <2>3
  <2>5. QED
    BY <2>3, <2>4 DEF n
<1>7. \A i \in differ : i = 1 \/ i = 2 \/ i = 3 \/ i = 4
  BY <1>5
<1>8. CASE a.score # b.score
  <2>1. 1 \in differ /\ \A i \in differ : 1 <= i
    BY <1>2, <1>4, <1>7, <1>8
  <2>2. Min(differ) = 1
    BY <1>6, <2>1
  <2>3. QED
    BY <1>1, <1>2, <1>3, <1>8, <2>1, <2>2
<1>9. CASE a.score = b.score /\ a.vector # b.vector
  <2>1. 2 \in differ /\ \A i \in differ : 2 <= i
    BY <1>2, <1>4, <1>7, <1>9
  <2>2. Min(differ) = 2
    BY <1>6, <2>1
  <2>3. QED
    BY <1>1, <1>2, <1>3, <1>9, <2>1, <2>2
<1>10. CASE a.score = b.score /\ a.vector = b.vector /\ a.graph # b.graph
  <2>1. 3 \in differ /\ \A i \in differ : 3 <= i
    BY <1>2, <1>4, <1>7, <1>10
  <2>2. Min(differ) = 3
    BY <1>6, <2>1
  <2>3. QED
    BY <1>1, <1>2, <1>3, <1>10, <2>1, <2>2
<1>11. CASE a.score = b.score /\ a.vector = b.vector /\ a.graph = b.graph
              /\ a.candidate # b.candidate
  <2>1. 4 \in differ /\ \A i \in differ : 4 <= i
    BY <1>2, <1>4, <1>7, <1>11
  <2>2. Min(differ) = 4
    BY <1>6, <2>1
  <2>3. QED
    BY <1>1, <1>2, <1>3, <1>11, <2>1, <2>2
<1>12. CASE a.score = b.score /\ a.vector = b.vector /\ a.graph = b.graph
              /\ a.candidate = b.candidate
  <2>1. differ = {}
    BY <1>2, <1>4, <1>7, <1>12
  <2>2. QED
    BY <1>1, <1>3, <1>12, <2>1
<1>13. QED
  BY <1>8, <1>9, <1>10, <1>11, <1>12

\* The hits of distinct ids are ranked without ties.
LEMMA OutranksOrders ==
  ASSUME NEW S, IsFiniteSet(S), S \subseteq Scored
  PROVE  Lists(InOrder(S, Outranks), S)
<1> DEFINE R == {xy \in S \X S : Outranks(xy[1], xy[2])}
           at == InOrder(S, Outranks)
<1>1. \A x, y \in S : <<x, y>> \in R <=> Outranks(x, y)
  OBVIOUS
<1>2. \A x \in S : /\ x = [id |-> x.id, vector |-> x.vector, graph |-> x.graph,
                          candidate |-> x.candidate, score |-> x.score]
                   /\ x.id \in Int /\ x.vector \in Int /\ x.graph \in Int
                   /\ x.candidate \in Int /\ x.score \in Int
  BY DEF Scored
<1> HIDE DEF R
<1>3. Orders(R, S)
  <2>1. \A x \in S : ~Outranks(x, x)
    BY <1>2, OutranksIs
  <2>2. ASSUME NEW x \in S, NEW y \in S, NEW z \in S, Outranks(x, y), Outranks(y, z)
        PROVE  Outranks(x, z)
    <3>1. x \in Scored /\ y \in Scored /\ z \in Scored
      OBVIOUS
    <3>2. QED
      BY <1>2, <2>2, <3>1, OutranksIs
  <2>3. ASSUME NEW x \in S, NEW y \in S, ~Outranks(x, y), ~Outranks(y, x)
        PROVE  x = y
    <3>1. x \in Scored /\ y \in Scored
      OBVIOUS
    <3>2. /\ x.score = y.score /\ x.vector = y.vector /\ x.graph = y.graph
          /\ x.candidate = y.candidate /\ x.id = y.id
      BY <1>2, <2>3, <3>1, OutranksIs
    <3>3. QED
      BY <1>2, <3>2
  <2>4. QED
    BY <1>1, <2>1, <2>2, <2>3, Zenon DEF Orders
<1>4. \A x \in S : Place(R, S, x) = Cardinality({y \in S : Outranks(y, x)})
  <2>1. \A x \in S : {y \in S : <<y, x>> \in R} = {y \in S : Outranks(y, x)}
    BY <1>1
  <2>2. QED
    BY <2>1 DEF Place
<1>5. at = [i \in 1..Cardinality(S) |->
              CHOOSE x \in S : Cardinality({y \in S : Outranks(y, x)}) = i - 1]
  BY DEF InOrder
<1>6. ASSUME NEW i \in 1..Cardinality(S)
      PROVE  at[i] \in S /\ Place(R, S, at[i]) = i - 1
  <2>1. \E x \in S : Cardinality({y \in S : Outranks(y, x)}) = i - 1
    BY <1>3, <1>4, PlacesTaken
  <2>2. at[i] = CHOOSE x \in S : Cardinality({y \in S : Outranks(y, x)}) = i - 1
    BY <1>5
  <2> HIDE DEF at
  <2>3. at[i] \in S /\ Cardinality({y \in S : Outranks(y, at[i])}) = i - 1
    BY <2>1, <2>2
  <2>4. QED
    BY <1>4, <2>3
<1>7. at \in [1..Cardinality(S) -> S]
  BY <1>5, <1>6
<1> HIDE DEF at
<1>8. Lists(at, S)
  <2>1. \A i \in 1..Cardinality(S) : Place(R, S, at[i]) = i - 1
    BY <1>6
  <2>2. /\ at \in Seq(S) /\ Len(at) = Cardinality(S) /\ Cardinality(S) \in Nat
        /\ Elements(at) = S /\ IsDistinct(at)
        /\ \A x \in S : \E i \in DOMAIN at : at[i] = x
        /\ \A i, j \in DOMAIN at : <<at[i], at[j]>> \in R => i < j
    BY <1>3, <1>7, <2>1, PlacedInOrder
  <2>3. QED
    BY <2>2 DEF Lists
<1>9. QED
  BY <1>8 DEF at

\* The entries at some places of a sequence are those entries.
LEMMA EntriesListed ==
  ASSUME NEW T, NEW s \in Seq(T), NEW places \in SUBSET (DOMAIN s)
  PROVE  /\ EntriesAt(s, places) \in Seq(T)
         /\ \A n \in DOMAIN EntriesAt(s, places) :
              \E m \in places : EntriesAt(s, places)[n] = s[m]
         /\ \A m \in places :
              \E n \in DOMAIN EntriesAt(s, places) : EntriesAt(s, places)[n] = s[m]
         /\ places = DOMAIN s => EntriesAt(s, places) = s
<1> DEFINE S == places
           R == {xy \in S \X S : xy[1] < xy[2]}
           at == InOrder(places, LAMBDA m, n : m < n)
<1>1. Len(s) \in Nat /\ DOMAIN s = 1..Len(s) /\ \A x \in places : x \in Int
  OBVIOUS
<1>2. IsFiniteSet(S)
  <2>1. IsFiniteSet(1..Len(s))
    BY <1>1, FS_Interval
  <2>2. QED
    BY <1>1, <2>1, FS_Subset
<1>3. \A x, y \in S : <<x, y>> \in R <=> x < y
  OBVIOUS
<1> HIDE DEF R
<1>4. Orders(R, S)
  BY <1>1, <1>3 DEF Orders
<1>5. \A x \in S : Place(R, S, x) = Cardinality({y \in S : y < x})
  <2>1. \A x \in S : {y \in S : <<y, x>> \in R} = {y \in S : y < x}
    BY <1>3
  <2>2. QED
    BY <2>1 DEF Place
<1>6. at = [i \in 1..Cardinality(S) |-> CHOOSE x \in S : Cardinality({y \in S : y < x}) = i - 1]
  BY DEF InOrder
<1>7. EntriesAt(s, places) = [n \in DOMAIN at |-> s[at[n]]]
  BY DEF EntriesAt
<1>8. ASSUME NEW i \in 1..Cardinality(S)
      PROVE  at[i] \in S /\ Place(R, S, at[i]) = i - 1
  <2>1. \E x \in S : Cardinality({y \in S : y < x}) = i - 1
    BY <1>2, <1>4, <1>5, PlacesTaken
  <2>2. at[i] = CHOOSE x \in S : Cardinality({y \in S : y < x}) = i - 1
    BY <1>6
  <2> HIDE DEF at
  <2>3. at[i] \in S /\ Cardinality({y \in S : y < at[i]}) = i - 1
    BY <2>1, <2>2
  <2>4. QED
    BY <1>5, <2>3
<1>9. at \in [1..Cardinality(S) -> S]
  BY <1>6, <1>8
<1> HIDE DEF at
<1>10. Lists(at, S)
  <2>1. \A i \in 1..Cardinality(S) : Place(R, S, at[i]) = i - 1
    BY <1>8
  <2>2. /\ at \in Seq(S) /\ Len(at) = Cardinality(S) /\ Cardinality(S) \in Nat
        /\ Elements(at) = S /\ IsDistinct(at)
        /\ \A x \in S : \E i \in DOMAIN at : at[i] = x
        /\ \A i, j \in DOMAIN at : <<at[i], at[j]>> \in R => i < j
    BY <1>2, <1>4, <1>9, <2>1, PlacedInOrder
  <2>3. QED
    BY <2>2 DEF Lists
<1>11. /\ DOMAIN at = 1..Cardinality(S) /\ Cardinality(S) \in Nat
       /\ \A n \in DOMAIN at : at[n] \in places
       /\ \A m \in places : \E n \in DOMAIN at : at[n] = m
  BY <1>8, <1>9, <1>10 DEF Lists
<1>12. EntriesAt(s, places) \in Seq(T)
  BY <1>1, <1>7, <1>11
<1>13. ASSUME places = DOMAIN s
       PROVE  EntriesAt(s, places) = s
  <2>1. Cardinality(places) = Len(s)
    BY <1>1, <1>13, FS_Interval
  <2>2. ASSUME NEW i \in 1..Len(s)
        PROVE  at[i] = i
    <3>1. at[i] \in 1..Len(s) /\ Cardinality({y \in S : y < at[i]}) = i - 1
      BY <1>1, <1>5, <1>8, <1>13, <2>1
    <3>2. {y \in S : y < at[i]} = 1..(at[i] - 1)
      BY <1>1, <1>13, <3>1
    <3>3. Cardinality(1..(at[i] - 1)) = at[i] - 1
      <4> DEFINE m == at[i] - 1
      <4>1. m \in Int /\ (1 > m => m = 0) /\ m - 1 + 1 = m
        BY <1>1, <3>1
      <4> HIDE DEF m
      <4>2. Cardinality(1..m) = m
        BY <4>1, FS_Interval
      <4>3. QED
        BY <4>2 DEF m
    <3>4. at[i] - 1 = i - 1
      BY <3>1, <3>2, <3>3
    <3>5. QED
      BY <1>1, <3>1, <3>4
  <2>3. QED
    BY <1>1, <1>7, <1>11, <1>13, <2>1, <2>2
<1>14. QED
  BY <1>7, <1>11, <1>12, <1>13

-----------------------------------------------------------------------------
\* Traces.

\* What a trace of the given ids has: each of them once and live, every one that
\* is some hops away after one that is a hop nearer and linked to it, and the
\* edges among them.
IsTrace(trace, ids) ==
  /\ ids \subseteq Live
  /\ DOMAIN trace.nodes = 1..Len(trace.nodes) /\ Len(trace.nodes) \in Nat
  /\ {trace.nodes[n].id : n \in DOMAIN trace.nodes} = ids
  /\ \A m, n \in DOMAIN trace.nodes : trace.nodes[m].id = trace.nodes[n].id => m = n
  /\ \A n \in DOMAIN trace.nodes : trace.nodes[n].depth > 0 =>
       \E m \in 1..(n - 1) : /\ trace.nodes[m].depth = trace.nodes[n].depth - 1
                            /\ <<trace.nodes[m].id, trace.nodes[n].id>> \in DOMAIN edges
  /\ trace.edges = EdgesAmong(ids)

\* A policy's trace is its visits.
LEMMA PolicyTraced ==
  ASSUME IInv, NEW p, IsPolicyView(p)
  PROVE  IsTrace(PolicyTrace(Visits(p)), VisitedIds(Visits(p)))
<1> DEFINE visits == Visits(p)
           trace == PolicyTrace(visits)
<1>1. visits \in Seq(Items(Live)) /\ VisitedOnce(visits) /\ Parented(edges, visits)
  BY VisitsLive, ViewsDiffer, MemoryIsGraph, VisitsParented DEF Visits
<1> HIDE DEF visits
<1>2. DOMAIN visits = 1..Len(visits) /\ Len(visits) \in Nat
      /\ \A n \in DOMAIN visits : visits[n].id \in Live
  <2>1. \A n \in DOMAIN visits : visits[n] \in Items(Live)
    BY <1>1
  <2>2. QED
    BY <1>1, <2>1 DEF Items
<1>3. trace.nodes = visits /\ trace.edges = EdgesAmong(VisitedIds(visits))
  <2>1. {n \in DOMAIN visits : visits[n].id \in Live} = DOMAIN visits
    BY <1>2
  <2>2. EntriesAt(visits, DOMAIN visits) = visits
    BY <1>1, EntriesListed
  <2>3. QED
    BY <2>1, <2>2 DEF PolicyTrace
<1> HIDE DEF trace
<1>4. {visits[n].id : n \in DOMAIN visits} = VisitedIds(visits)
  BY <1>2 DEF VisitedIds
<1>5. \A m, n \in DOMAIN visits : visits[m].id = visits[n].id => m = n
  BY <1>1, <1>2 DEF VisitedOnce
<1>6. ASSUME NEW n \in DOMAIN visits, visits[n].depth > 0
      PROVE  \E m \in 1..(n - 1) : /\ visits[m].depth = visits[n].depth - 1
                                  /\ <<visits[m].id, visits[n].id>> \in DOMAIN edges
  <2>1. LinkedTo(edges, visits, n - 1, visits[n])
    BY <1>1, <1>2, <1>6 DEF Parented
  <2>2. QED
    BY <2>1 DEF LinkedTo
<1>7. QED
  BY <1>2, <1>3, <1>4, <1>5, <1>6, VisitsLive, ViewsDiffer DEF IsTrace, trace, visits

\* The trace of a view lists what is within its hops, nearest first.
LEMMA ViewTraced ==
  ASSUME IInv, NEW v \in ViewKeys
  PROVE  IsTrace(ViewTrace(v), Connected(v))
<1> DEFINE within(n) == Reach(edges, id_to_slot, v.seeds, n)
           hops == v.max_hops
           depth(i) == Min({n \in 0..hops : i \in within(n)})
           ids == Connected(v)
           S == {[id |-> i, depth |-> depth(i)] : i \in ids}
           at == InOrder(S, NearerFirst)
<1>1. hops \in Nat /\ within(hops) = ids /\ ids \in SUBSET Live /\ IsFiniteSet(ids)
  <2>1. hops \in Nat /\ ids \in SUBSET Live
    BY ViewsDiffer DEF Connected
  <2>2. QED
    BY <2>1, ReachIsConnected, MaskSize
<1>2. ViewTrace(v) = [nodes |-> at, edges |-> EdgesAmong(ids)]
  <2>1. Reach(edges, id_to_slot, v.seeds, v.max_hops) = Connected(v)
        /\ Connected(v) \cap Live = Connected(v)
    BY <1>1
  <2>2. QED
    BY <2>1 DEF ViewTrace
<1> HIDE DEF ids
<1>3. ASSUME NEW i \in ids
      PROVE  /\ i \in Int /\ depth(i) \in 0..hops /\ i \in within(depth(i))
             /\ \A n \in 0..hops : i \in within(n) => depth(i) <= n
  <2> DEFINE D == {n \in 0..hops : i \in within(n)}
  <2>1. D \in SUBSET Nat /\ hops \in D
    BY <1>1
  <2> HIDE DEF D
  <2>2. \E m \in D : \A n \in D : m <= n
    BY <2>1, LeastNumber
  <2>3. Min(D) \in D /\ \A n \in D : Min(D) <= n
    BY <2>2 DEF Min
  <2>4. i \in Int
    BY <1>1, GraphConstantsOK DEF GraphConstantsOK, IInv, Tables
  <2>5. QED
    BY <2>3, <2>4 DEF D
<1> HIDE DEF depth
<1>4. S \subseteq [id : Int, depth : Int] /\ IsFiniteSet(S)
  <2> DEFINE f == [i \in ids |-> [id |-> i, depth |-> depth(i)]]
  <2>1. S = {f[i] : i \in ids} /\ DOMAIN f = ids /\ f = [i \in ids |-> f[i]]
    OBVIOUS
  <2> HIDE DEF f, S
  <2>2. IsFiniteSet(S)
    BY <1>1, <2>1, ImageIsSmaller
  <2>3. \A i \in ids : depth(i) \in Int /\ i \in Int
    BY <1>1, <1>3
  <2>4. QED
    BY <2>2, <2>3 DEF S
<1>5. Lists(at, S) /\ \A m, n \in DOMAIN at : at[m].depth < at[n].depth => m < n
  <2> HIDE DEF S
  <2>1. QED
    BY <1>4, NearerFirstOrders
<1> HIDE DEF at
<1>6. DOMAIN at = 1..Len(at) /\ Len(at) \in Nat /\ \A n \in DOMAIN at : at[n] \in S
  <2> HIDE DEF S
  <2>1. QED
    BY <1>5 DEF Lists
<1>7. \A n \in DOMAIN at : at[n].id \in ids /\ at[n].depth = depth(at[n].id)
  BY <1>6
<1>8. \A i \in ids : \E n \in DOMAIN at : at[n].id = i
  <2>1. ASSUME NEW i \in ids
        PROVE  \E n \in DOMAIN at : at[n].id = i
    <3>1. [id |-> i, depth |-> depth(i)] \in S
      OBVIOUS
    <3>2. PICK n \in DOMAIN at : at[n] = [id |-> i, depth |-> depth(i)]
      BY <1>5, <3>1 DEF Lists
    <3>3. QED
      BY <3>2
  <2>2. QED
    BY <2>1
<1>9. \A m, n \in DOMAIN at : at[m].id = at[n].id => m = n
  <2>1. ASSUME NEW m \in DOMAIN at, NEW n \in DOMAIN at, at[m].id = at[n].id
        PROVE  m = n
    <3>1. at[m] = at[n]
      BY <1>6, <2>1
    <3>2. QED
      BY <1>5, <1>6, <3>1 DEF Lists, IsDistinct
  <2>2. QED
    BY <2>1
<1>10. ASSUME NEW n \in DOMAIN at, at[n].depth > 0
       PROVE  \E m \in 1..(n - 1) : /\ at[m].depth = at[n].depth - 1
                                   /\ <<at[m].id, at[n].id>> \in DOMAIN edges
  <2> DEFINE i == at[n].id
             d == depth(i)
  <2>1. i \in ids /\ at[n].depth = d
    BY <1>7
  <2>2. /\ d \in 0..hops /\ i \in within(d)
        /\ \A l \in 0..hops : i \in within(l) => d <= l
    BY <1>3, <2>1
  <2> HIDE DEF d, i
  <2>3. d > 0 /\ d - 1 \in 0..hops /\ d - 1 \in Nat /\ d \in Nat /\ (d - 1) + 1 = d
    BY <1>1, <1>10, <2>1, <2>2
  <2>4. i \notin within(d - 1)
    BY <2>2, <2>3
  <2>5. within(d) = within(d - 1) \cup Successors(edges, within(d - 1))
    <3>1. within((d - 1) + 1) = within(d - 1) \cup Successors(edges, within(d - 1))
      BY <2>3, ReachSteps
    <3>2. QED
      BY <2>3, <3>1
  <2>6. PICK e \in DOMAIN edges : e[1] \in within(d - 1) /\ e[2] = i
    BY <2>2, <2>4, <2>5 DEF Successors
  <2>7. e[1] \in ids /\ e = <<e[1], e[2]>>
    <3>1. DOMAIN edges \subseteq Live \X Live
      BY MemoryIsGraph
    <3>2. e[1] \in Live /\ e = <<e[1], e[2]>>
      BY <3>1
    <3>3. within(d - 1) = {j \in Live : \E l \in 0..(d - 1) :
                             \E p : p \in Walks(edges, id_to_slot, v.seeds, l, j)}
      <4> DEFINE l == d - 1
      <4>1. l \in Nat
        BY <2>3
      <4> HIDE DEF l
      <4>2. within(l) = {j \in Live : \E o \in 0..l :
                           \E p : p \in Walks(edges, id_to_slot, v.seeds, o, j)}
        BY <4>1, MemoryIsGraph, ReachIsWalked DEF Live
      <4>3. QED
        BY <4>2, Zenon DEF l
    <3>4. within(hops) = {j \in Live : \E l \in 0..hops :
                             \E p : p \in Walks(edges, id_to_slot, v.seeds, l, j)}
      BY <1>1, MemoryIsGraph, ReachIsWalked DEF Live
    <3>5. 0..(d - 1) \subseteq 0..hops
      BY <1>1, <2>3
    <3>6. within(d - 1) \subseteq within(hops)
      BY <3>3, <3>4, <3>5
    <3>7. QED
      BY <1>1, <2>6, <3>2, <3>6
  <2>8. depth(e[1]) = d - 1
    <3>1. depth(e[1]) \in 0..hops /\ e[1] \in within(depth(e[1])) /\ depth(e[1]) <= d - 1
      BY <1>3, <2>3, <2>6, <2>7
    <3>2. CASE depth(e[1]) < d - 1
      <4> DEFINE l == depth(e[1])
      <4>1. l \in Nat /\ l + 1 \in 0..hops /\ l + 1 < d
        BY <1>1, <2>3, <3>1, <3>2
      <4> HIDE DEF l
      <4>2. within(l + 1) = within(l) \cup Successors(edges, within(l))
        BY <4>1, ReachSteps
      <4>3. i \in within(l + 1)
        BY <2>6, <3>1, <4>2 DEF Successors, l
      <4>4. d <= l + 1
        BY <2>2, <4>1, <4>3
      <4>5. QED
        BY <2>3, <4>1, <4>4
    <3>3. QED
      BY <2>3, <3>1, <3>2
  <2>9. PICK m \in DOMAIN at : at[m].id = e[1]
    BY <1>8, <2>7
  <2>10. at[m].depth = d - 1
    BY <1>7, <2>8, <2>9
  <2>11. m < n
    BY <1>5, <2>1, <2>3, <2>10
  <2>12. m \in 1..(n - 1)
    BY <1>6, <2>11
  <2>13. QED
    BY <2>1, <2>6, <2>7, <2>9, <2>10, <2>12 DEF i
<1>11. {at[n].id : n \in DOMAIN at} = ids
  BY <1>7, <1>8
<1>12. QED
  BY <1>1, <1>2, <1>6, <1>9, <1>10, <1>11 DEF IsTrace, ids

-----------------------------------------------------------------------------
\* Answers.

\* The candidate scores a request ranks by.
ScoresOf(asked, mask) ==
  IF asked.kind = "hybrid" THEN Scaled(CandidateScores(asked.list), asked.blend, mask) ELSE EmptyFn

\* Hits that are ranked by the given paths.
Ranked(asked, mask, hits, paths) ==
  \E slots \in Prefetched(asked.query, asked.k, mask, asked.blend) :
    hits = FirstOf(HybridHits(asked.query, slots, paths, ScoresOf(asked, mask), asked.blend),
                   asked.k)

RankedToday(asked, mask, hits, current) ==
  /\ asked.kind \in {"rerank", "hybrid"}
  /\ IsPolicyView(asked.view) /\ asked.blend \in BlendConfigs
  /\ \E paths : /\ IsPaths(paths) /\ Ranked(asked, mask, hits, paths)
                /\ current => paths = PathsBySlot(Visits(asked.view))
  /\ asked.kind = "hybrid" =>
       /\ current /\ asked.list \in CandidateLists /\ IsFilter(asked.filter)
       /\ mask = Narrowed(FreshPlan(PolicyMask(asked.view), asked.filter).mask, asked.list)

\* What every answer is: hits by its request under a mask that selects what the
\* request means, and a trace of the view.
WellAnswered(asked, mask, hits, trace, current) ==
  /\ asked.k \in Nat /\ asked.query \in [Vectors -> Int]
  /\ IsMask(mask) /\ Usable(asked.k, mask)
  /\ current => Selects(mask, Wanted(asked))
  /\ \/ asked.kind = "plain" /\ hits \in PlainHits(asked.query, asked.k, mask)
     \/ RankedToday(asked, mask, hits, current)
  /\ trace = NoTrace \/ (current /\ IsTrace(trace, ViewIds(asked.view)))

AnswerInv ==
  Answered =>
    /\ answer = [asked |-> answer.asked, mask |-> answer.mask, hits |-> answer.hits,
                 trace |-> answer.trace, current |-> answer.current]
    /\ WellAnswered(answer.asked, answer.mask, answer.hits, answer.trace, answer.current)

\* A search that leaves its report and nothing else.
Reported ==
  /\ prepared' = prepared
  /\ \E asked, mask, hits, trace, current :
       /\ answer' = [asked |-> asked, mask |-> mask, hits |-> hits, trace |-> trace,
                     current |-> current]
       /\ WellAnswered(asked, mask, hits, trace, current)

\* An answer that is made well is a report.
LEMMA Reports ==
  ASSUME NEW asked, NEW mask, NEW hits, NEW trace, NEW current,
         WellAnswered(asked, mask, hits, trace, current),
         Answer(asked, mask, hits, trace, current)
  PROVE  Reported
  BY DEF Reported, Answer

\* The fields of a request.
LEMMA RequestIs ==
  ASSUME NEW kind, NEW view, NEW f, NEW list, NEW k, NEW query, NEW blend
  PROVE  LET asked == Asked(kind, view, f, list, k, query, blend)
         IN  /\ asked.kind = kind /\ asked.view = view /\ asked.filter = f /\ asked.list = list
             /\ asked.k = k /\ asked.query = query /\ asked.blend = blend
  BY DEF Asked

\* What the candidates leave of a mask is what the request wants.
LEMMA NarrowedPicks ==
  ASSUME IInv, NEW view, NEW f, NEW list, NEW asked, NEW mask, Picks(mask, Chosen(view, f)),
         asked.view = view, asked.filter = f, asked.list = list
  PROVE  Picks(Narrowed(mask, list), Wanted(asked))
<1> DEFINE allowed == CandidateMask(list).slots
           chosen == Chosen(view, f)
<1>1. CASE list = AnyIds
  <2>1. Wanted(asked) = chosen
    BY <1>1 DEF Wanted, Chosen
  <2>2. QED
    BY <1>1, <2>1 DEF Narrowed
<1>2. CASE list # AnyIds
  <2>1. /\ mask = [len |-> mask.len, slots |-> mask.slots] /\ mask.len \in Nat
        /\ mask.slots \subseteq 1..mask.len /\ mask.len = Len(rows)
        /\ mask.slots \subseteq 1..Len(slot_to_id)
        /\ {slot_to_id[s] : s \in mask.slots} = chosen
    BY DEF Picks, IsMask, Selects
  <2>2. Wanted(asked) = chosen \cap CandidateIds(list)
    BY <1>2 DEF Wanted, Chosen
  <2>3. allowed = {id_to_slot[i] : i \in CandidateIds(list) \cap Live}
    BY DEF CandidateMask, MaskOf
  <2>4. \A s \in mask.slots : /\ slot_to_id[s] \in Live /\ id_to_slot[slot_to_id[s]] = s
    BY <2>1 DEF IInv, NodesAligned, Elements
  <2>5. \A s \in mask.slots : s \in allowed <=> slot_to_id[s] \in CandidateIds(list)
    <3>1. \A i \in Live : slot_to_id[id_to_slot[i]] = i
      BY SlotOf DEF IInv
    <3>2. QED
      BY <2>3, <2>4, <3>1
  <2>6. Narrowed(mask, list) = [len |-> mask.len, slots |-> mask.slots \cap allowed]
    <3>1. Narrowed(mask, list) = [mask EXCEPT !.slots = mask.slots \cap allowed]
      BY <1>2 DEF Narrowed
    <3> HIDE DEF allowed
    <3>2. QED
      BY <2>1, <3>1
  <2> HIDE DEF allowed, chosen
  <2>7. {slot_to_id[s] : s \in mask.slots \cap allowed} = chosen \cap CandidateIds(list)
    BY <2>1, <2>5
  <2>8. QED
    BY <2>1, <2>2, <2>6, <2>7 DEF Picks, IsMask, Selects
<1>3. QED
  BY <1>1, <1>2

\* A mask of the index as it is can be searched.
LEMMA PickedUsable ==
  ASSUME NEW mask, NEW ids, NEW k, Picks(mask, ids)
  PROVE  IsMask(mask) /\ Selects(mask, ids) /\ Usable(k, mask)
  BY DEF Picks, Selects, Usable

\* A search by vector alone reports.
LEMMA PlainAnswer ==
  ASSUME NEW view, NEW f, NEW list, NEW k \in Ks, NEW query \in Queries, NEW mask,
         Picks(mask, Wanted(Asked("plain", view, f, list, k, query, NoBlend))),
         NEW hits \in PlainHits(query, k, mask),
         NEW trace, trace = NoTrace \/ IsTrace(trace, ViewIds(view)),
         Answer(Asked("plain", view, f, list, k, query, NoBlend), mask, hits, trace, TRUE)
  PROVE  Reported
<1> DEFINE asked == Asked("plain", view, f, list, k, query, NoBlend)
<1>1. /\ asked.kind = "plain" /\ asked.view = view /\ asked.k = k /\ asked.query = query
  BY RequestIs
<1>2. k \in Nat /\ query \in [Vectors -> Int]
  BY SearchConstantsOK DEF SearchConstantsOK
<1> HIDE DEF asked
<1>3. WellAnswered(asked, mask, hits, trace, TRUE)
  BY <1>1, <1>2, PickedUsable DEF WellAnswered, asked
<1>4. QED
  BY <1>3, Reports DEF asked

\* A ranked answer, of paths and scores that are today's.
LEMMA RankedAnswer ==
  ASSUME IInv, NEW kind \in {"rerank", "hybrid"}, NEW p, IsPolicyView(p), NEW f, IsFilter(f),
         NEW list, kind = "hybrid" => list \in CandidateLists,
         NEW k \in Ks, NEW query \in Queries, NEW b \in BlendConfigs, NEW hits, NEW trace,
         Ranked(Asked(kind, p, f, list, k, query, b), Narrowed(PolicyPlanMask(p, f), list), hits,
                PathsBySlot(VisitsOf(p))),
         trace = NoTrace \/ trace = PolicyTrace(VisitsOf(p)),
         Answer(Asked(kind, p, f, list, k, query, b), Narrowed(PolicyPlanMask(p, f), list), hits,
                trace, TRUE)
  PROVE  Reported
<1> DEFINE asked == Asked(kind, p, f, list, k, query, b)
           mask == Narrowed(PolicyPlanMask(p, f), list)
<1>1. /\ asked.kind = kind /\ asked.view = p /\ asked.filter = f /\ asked.list = list
      /\ asked.k = k /\ asked.query = query /\ asked.blend = b
  BY RequestIs
<1>2. k \in Nat /\ query \in [Vectors -> Int]
  BY SearchConstantsOK DEF SearchConstantsOK
<1> HIDE DEF asked
<1>3. Picks(mask, Wanted(asked))
  BY <1>1, PolicyViewsSelect, NarrowedPicks
<1>4. mask = Narrowed(FreshPlan(PolicyMask(p), f).mask, list)
  BY PolicyViewsSelect
<1>5. VisitsOf(p) = Visits(p) /\ IsPaths(PathsBySlot(Visits(p)))
      /\ ViewIds(p) = VisitedIds(Visits(p))
  BY LookupsAreFresh, PathsOf, PolicyViewsSelect
<1> HIDE DEF mask
<1>6. RankedToday(asked, mask, hits, TRUE)
  <2>1. IsPaths(PathsBySlot(Visits(p))) /\ Ranked(asked, mask, hits, PathsBySlot(Visits(p)))
    BY <1>5 DEF asked, mask
  <2>2. QED
    BY <1>1, <1>4, <2>1 DEF RankedToday
<1>7. trace = NoTrace \/ IsTrace(trace, ViewIds(p))
  BY <1>5, PolicyTraced
<1>8. IsMask(mask) /\ Selects(mask, Wanted(asked)) /\ Usable(k, mask)
  BY <1>3, PickedUsable
<1>9. WellAnswered(asked, mask, hits, trace, TRUE)
  BY <1>1, <1>2, <1>6, <1>7, <1>8 DEF WellAnswered
<1>10. QED
  BY <1>9, Reports DEF asked, mask

\* A request without candidates wants what its filter lets through.
LEMMA AnyCandidates ==
  ASSUME NEW view, NEW f, NEW asked, asked.view = view, asked.filter = f, asked.list = AnyIds
  PROVE  /\ Wanted(asked) = Chosen(view, f)
         /\ \A mask : Narrowed(mask, AnyIds) = mask
  BY DEF Wanted, Chosen, Narrowed

\* Each search of a view reports.
LEMMA ViewSearchesReport ==
  ASSUME IInv, SearchViews
  PROVE  Reported
<1>1. PICK k \in Ks, q \in Queries :
        \/ SearchGlobal(k, q)
        \/ \E v \in ViewKeys, f \in Filters :
             \/ SearchView(v, f, k, q) \/ SearchTrace(v, f, k, q)
             \/ \E list \in CandidateLists : SearchViewCandidates(v, f, list, k, q)
  BY DEF SearchViews
<1>2. CASE SearchGlobal(k, q)
  <2> DEFINE asked == Asked("plain", NoView, Unfiltered, AnyIds, k, q, NoBlend)
             mask == MaskOf(Live)
  <2>1. PICK hits \in PlainHits(q, k, mask) : Answer(asked, mask, hits, NoTrace, TRUE)
    BY <1>2 DEF SearchGlobal
  <2>2. Wanted(asked) = Live
    <3>1. asked.view = NoView /\ asked.filter = Unfiltered /\ asked.list = AnyIds
      BY RequestIs
    <3> HIDE DEF asked
    <3>2. QED
      BY <3>1, UnfilteredMatches DEF Wanted, ViewIds
  <2>3. Picks(mask, Wanted(asked))
    BY <2>2, MasksPick
  <2> HIDE DEF mask
  <2>4. QED
    BY <2>1, <2>3, PlainAnswer
<1>3. ASSUME NEW v \in ViewKeys, NEW f \in Filters, SearchView(v, f, k, q)
      PROVE  Reported
  <2> DEFINE asked == Asked("plain", v, f, AnyIds, k, q, NoBlend)
             mask == PlanMask(v, f)
  <2>1. PICK hits \in PlainHits(q, k, mask) : Answer(asked, mask, hits, NoTrace, TRUE)
    BY <1>3 DEF SearchView
  <2>2. Wanted(asked) = Chosen(v, f)
    <3>1. asked.view = v /\ asked.filter = f /\ asked.list = AnyIds
      BY RequestIs
    <3> HIDE DEF asked
    <3>2. QED
      BY <3>1, AnyCandidates
  <2>3. Picks(mask, Wanted(asked))
    BY <2>2, ViewsSelect, ViewsDiffer
  <2> HIDE DEF mask
  <2>4. QED
    BY <2>1, <2>3, PlainAnswer
<1>4. ASSUME NEW v \in ViewKeys, NEW f \in Filters, NEW list \in CandidateLists,
             SearchViewCandidates(v, f, list, k, q)
      PROVE  Reported
  <2> DEFINE asked == Asked("plain", v, f, list, k, q, NoBlend)
             mask == Narrowed(PlanMask(v, f), list)
  <2>1. PICK hits \in PlainHits(q, k, mask) : Answer(asked, mask, hits, NoTrace, TRUE)
    BY <1>4 DEF SearchViewCandidates
  <2>2. Picks(mask, Wanted(asked))
    <3>1. asked.view = v /\ asked.filter = f /\ asked.list = list
      BY RequestIs
    <3> HIDE DEF asked
    <3>2. QED
      BY <3>1, NarrowedPicks, ViewsSelect, ViewsDiffer
  <2> HIDE DEF mask
  <2>3. QED
    BY <2>1, <2>2, PlainAnswer
<1>5. ASSUME NEW v \in ViewKeys, NEW f \in Filters, SearchTrace(v, f, k, q)
      PROVE  Reported
  <2> DEFINE asked == Asked("plain", v, f, AnyIds, k, q, NoBlend)
             trace == ViewTrace(v)
             mask == Filtered(MaskOf({trace.nodes[n].id : n \in DOMAIN trace.nodes}), f)
  <2>1. PICK hits \in PlainHits(q, k, mask) : Answer(asked, mask, hits, trace, TRUE)
    BY <1>5 DEF SearchTrace
  <2>2. IsTrace(trace, Connected(v)) /\ ViewIds(v) = Connected(v) /\ Connected(v) \in SUBSET Live
    BY ViewTraced, ViewsSelect
  <2>3. mask = FreshPlan(MaskOf(Connected(v)), f).mask
    <3>1. \A m : Filtered(m, f) = FreshPlan(m, f).mask
      BY LookupsAreFresh DEF CachedPlan
    <3>2. {trace.nodes[n].id : n \in DOMAIN trace.nodes} = Connected(v)
      BY <2>2 DEF IsTrace
    <3> HIDE DEF trace
    <3>3. QED
      BY <3>1, <3>2
  <2>4. Wanted(asked) = Chosen(v, f)
    <3>1. asked.view = v /\ asked.filter = f /\ asked.list = AnyIds
      BY RequestIs
    <3> HIDE DEF asked
    <3>2. QED
      BY <3>1, AnyCandidates
  <2>5. Picks(mask, Wanted(asked))
    BY <2>2, <2>3, <2>4, MasksPick, ViewsDiffer DEF Chosen
  <2> HIDE DEF mask, trace
  <2>6. QED
    BY <2>1, <2>2, <2>5, PlainAnswer
<1>6. QED
  BY <1>1, <1>2, <1>3, <1>4, <1>5

\* The hits of rerank and hybrid searches are ranked.
LEMMA HitsRanked ==
  ASSUME NEW p, NEW f, NEW list, NEW k, NEW query, NEW b
  PROVE  /\ \A hits \in RerankHits(p, f, list, k, query, b) :
              Ranked(Asked("rerank", p, f, list, k, query, b),
                     Narrowed(PolicyPlanMask(p, f), list), hits, PathsBySlot(VisitsOf(p)))
         /\ \A hits \in HybridSearchHits(p, f, list, k, query, b) :
              Ranked(Asked("hybrid", p, f, list, k, query, b),
                     Narrowed(PolicyPlanMask(p, f), list), hits, PathsBySlot(VisitsOf(p)))
<1> DEFINE mask == Narrowed(PolicyPlanMask(p, f), list)
           paths == PathsBySlot(VisitsOf(p))
           scores == Scaled(CandidateScores(list), b, mask)
           rerank == Asked("rerank", p, f, list, k, query, b)
           hybrid == Asked("hybrid", p, f, list, k, query, b)
<1>1. /\ rerank.kind = "rerank" /\ rerank.k = k /\ rerank.query = query /\ rerank.blend = b
      /\ hybrid.kind = "hybrid" /\ hybrid.k = k /\ hybrid.query = query /\ hybrid.blend = b
      /\ hybrid.list = list
  BY RequestIs
<1>2. RerankHits(p, f, list, k, query, b)
        = {FirstOf(HybridHits(query, slots, paths, EmptyFn, b), k) :
             slots \in Prefetched(query, k, mask, b)}
  BY DEF RerankHits, RerankedHits
<1>3. HybridSearchHits(p, f, list, k, query, b)
        = {FirstOf(HybridHits(query, slots, paths, scores, b), k) :
             slots \in Prefetched(query, k, mask, b)}
  BY DEF HybridSearchHits
<1> HIDE DEF rerank, hybrid
<1>4. ScoresOf(rerank, mask) = EmptyFn /\ ScoresOf(hybrid, mask) = scores
  BY <1>1 DEF ScoresOf
<1> HIDE DEF mask, paths, scores
<1>5. ASSUME NEW hits \in RerankHits(p, f, list, k, query, b)
      PROVE  Ranked(rerank, mask, hits, paths)
  BY <1>1, <1>2, <1>4 DEF Ranked
<1>6. ASSUME NEW hits \in HybridSearchHits(p, f, list, k, query, b)
      PROVE  Ranked(hybrid, mask, hits, paths)
  BY <1>1, <1>3, <1>4 DEF Ranked
<1>7. QED
  BY <1>5, <1>6 DEF mask, paths, rerank, hybrid

\* So each rerank or hybrid search of a policy view reports, explained or not.
LEMMA RerankReports ==
  ASSUME IInv, NEW p, IsPolicyView(p), NEW f \in Filters, NEW list, NEW k \in Ks,
         NEW query \in Queries, NEW b \in BlendConfigs, NEW trace,
         trace = NoTrace \/ trace = PolicyTrace(VisitsOf(p)),
         NEW hits \in RerankHits(p, f, list, k, query, b),
         Answer(Asked("rerank", p, f, list, k, query, b),
                Narrowed(PolicyPlanMask(p, f), list), hits, trace, TRUE)
  PROVE  Reported
<1>1. IsFilter(f)
  BY ViewsDiffer
<1>2. Ranked(Asked("rerank", p, f, list, k, query, b), Narrowed(PolicyPlanMask(p, f), list),
             hits, PathsBySlot(VisitsOf(p)))
  BY HitsRanked
<1>3. "rerank" \in {"rerank", "hybrid"} /\ ("rerank" = "hybrid" => list \in CandidateLists)
  OBVIOUS
<1>4. QED
  BY <1>1, <1>2, <1>3, RankedAnswer

\* A hybrid search reports.
LEMMA HybridReports ==
  ASSUME IInv, NEW p, IsPolicyView(p), NEW f \in Filters, NEW list \in CandidateLists, NEW k \in Ks,
         NEW query \in Queries, NEW b \in BlendConfigs, NEW trace,
         trace = NoTrace \/ trace = PolicyTrace(VisitsOf(p)),
         NEW hits \in HybridSearchHits(p, f, list, k, query, b),
         Answer(Asked("hybrid", p, f, list, k, query, b),
                Narrowed(PolicyPlanMask(p, f), list), hits, trace, TRUE)
  PROVE  Reported
<1>1. IsFilter(f)
  BY ViewsDiffer
<1>2. Ranked(Asked("hybrid", p, f, list, k, query, b), Narrowed(PolicyPlanMask(p, f), list),
             hits, PathsBySlot(VisitsOf(p)))
  BY HitsRanked
<1>3. "hybrid" \in {"rerank", "hybrid"}
  OBVIOUS
<1>4. QED
  BY <1>1, <1>2, <1>3, RankedAnswer

\* What a preset is tuned to is a view under a policy.
LEMMA Tuned ==
  ASSUME IInv, NEW preset \in Presets, NEW k \in Nat
  PROVE  /\ IsPolicyView(Tune(preset, k)) /\ preset.blend \in BlendConfigs
         /\ Tune(preset, k).seeds = preset.seeds
         /\ Len(slot_to_id) > 0 =>
              Tune(preset, k).max_nodes > 0 /\ Tune(preset, k).max_active_blocks > 0
<1> DEFINE total == Len(slot_to_id)
           blocks == (total + BLOCK - 1) \div BLOCK
           asked == Max({preset.target_active_blocks, 1})
           active == IF blocks = 0 THEN 0 ELSE Min({asked, blocks})
           per_block == Max({preset.nodes_per_active_block, 1})
           wanted == Max({active * per_block, k})
           most == Min({wanted, total})
<1>1. /\ preset.seeds \in SUBSET Nat /\ IsFiniteSet(preset.seeds) /\ preset.blend \in BlendConfigs
      /\ preset.max_hops \in Nat /\ preset.min_weight \in Nat
      /\ preset.target_active_blocks \in Nat /\ preset.nodes_per_active_block \in Nat
  BY SearchConstantsOK DEF SearchConstantsOK
<1>2. \A x, y \in Nat : /\ Max({x, y}) \in {x, y} /\ Max({x, y}) >= x /\ Max({x, y}) >= y
                        /\ Min({x, y}) \in {x, y} /\ Min({x, y}) <= x /\ Min({x, y}) <= y
  <2>1. ASSUME NEW x \in Nat, NEW y \in Nat
        PROVE  Max({x, y}) \in {x, y} /\ Max({x, y}) >= x /\ Max({x, y}) >= y
    <3>1. \E m \in {x, y} : \A n \in {x, y} : m >= n
      OBVIOUS
    <3>2. QED
      BY <3>1 DEF Max
  <2>2. ASSUME NEW x \in Nat, NEW y \in Nat
        PROVE  Min({x, y}) \in {x, y} /\ Min({x, y}) <= x /\ Min({x, y}) <= y
    <3>1. \E m \in {x, y} : \A n \in {x, y} : m <= n
      OBVIOUS
    <3>2. QED
      BY <3>1 DEF Min
  <2>3. QED
    BY <2>1, <2>2
<1>3. total \in Nat /\ BLOCK \in Nat \ {0} /\ blocks \in Nat /\ (total > 0 => blocks > 0)
  <2>1. total \in Nat /\ BLOCK \in Nat \ {0}
    BY GraphConstantsOK DEF GraphConstantsOK, IInv, Tables
  <2> DEFINE n == total
             B == BLOCK
  <2> HIDE DEF n, B
  <2>2. n \in Nat /\ B \in Nat \ {0}
    BY <2>1 DEF n, B
  <2>3. (n + B - 1) \div B \in Nat /\ (n > 0 => (n + B - 1) \div B > 0)
    BY <2>2
  <2>4. QED
    BY <2>1, <2>3 DEF n, B
<1>4. Tune(preset, k) = [seeds |-> preset.seeds, max_hops |-> preset.max_hops,
                         min_weight |-> preset.min_weight, max_active_blocks |-> active,
                         max_nodes |-> most]
  BY DEF Tune
<1> HIDE DEF total, blocks
<1>5. asked \in Nat /\ asked >= 1 /\ per_block \in Nat /\ per_block >= 1
  BY <1>1, <1>2
<1> HIDE DEF asked, per_block
<1>6. active \in Nat /\ (total > 0 => active >= 1)
  <2>1. Min({asked, blocks}) \in {asked, blocks}
    BY <1>2, <1>3, <1>5
  <2>2. QED
    BY <1>3, <1>5, <2>1
<1> HIDE DEF active
<1>7. active * per_block \in Nat /\ (total > 0 => active * per_block >= 1)
  BY <1>5, <1>6
<1>8. wanted \in Nat /\ (total > 0 => wanted >= 1)
  BY <1>2, <1>7
<1> HIDE DEF wanted
<1>9. most \in Nat /\ (total > 0 => most >= 1)
  BY <1>2, <1>3, <1>8
<1> HIDE DEF most
<1>10. /\ Tune(preset, k) \in PolicyViews
       /\ Tune(preset, k).seeds = preset.seeds /\ Tune(preset, k).max_nodes = most
       /\ Tune(preset, k).max_active_blocks = active
  BY <1>1, <1>4, <1>6, <1>9 DEF PolicyViews
<1>11. QED
  BY <1>1, <1>6, <1>9, <1>10 DEF IsPolicyView, total

\* Each search of a view under a policy reports.
LEMMA PolicySearchesReport ==
  ASSUME IInv, SearchPolicies
  PROVE  Reported
<1>1. PICK k \in Ks, q \in Queries, f \in Filters :
        \/ \E p \in PolicyKeys :
             \/ \E list \in CandidateLists \cup {AnyIds} : SearchPolicyView(p, f, list, k, q)
             \/ \E b \in Blends :
                  \/ SearchRerank(p, f, k, q, b) \/ ExplainRerank(p, f, k, q, b)
                  \/ \E list \in CandidateLists :
                       \/ SearchCandidatesRerank(p, f, list, k, q, b)
                       \/ SearchHybrid(p, f, list, k, q, b)
                       \/ ExplainCandidatesRerank(p, f, list, k, q, b)
                       \/ ExplainHybrid(p, f, list, k, q, b)
        \/ \E preset \in Presets : ExplainWithPreset(preset, f, k, q)
  BY DEF SearchPolicies
<1>2. ASSUME NEW p \in PolicyKeys, NEW list, SearchPolicyView(p, f, list, k, q)
      PROVE  Reported
  <2> DEFINE asked == Asked("plain", p, f, list, k, q, NoBlend)
             mask == Narrowed(PolicyPlanMask(p, f), list)
  <2>1. PICK hits \in PlainHits(q, k, mask) : Answer(asked, mask, hits, NoTrace, TRUE)
    BY <1>2 DEF SearchPolicyView
  <2>2. Picks(mask, Wanted(asked))
    <3>1. asked.view = p /\ asked.filter = f /\ asked.list = list
      BY RequestIs
    <3> HIDE DEF asked
    <3>2. QED
      BY <3>1, NarrowedPicks, PolicyViewsSelect, ViewsDiffer
  <2> HIDE DEF mask
  <2>3. QED
    BY <2>1, <2>2, PlainAnswer
<1>3. \A p : Narrowed(PolicyPlanMask(p, f), AnyIds) = PolicyPlanMask(p, f)
  BY DEF Narrowed
<1>4. ASSUME NEW p, IsPolicyView(p), NEW b \in BlendConfigs, NEW list, NEW trace,
             trace = NoTrace \/ trace = PolicyTrace(VisitsOf(p)),
             \E hits \in RerankHits(p, f, list, k, q, b) :
               Answer(Asked("rerank", p, f, list, k, q, b),
                      Narrowed(PolicyPlanMask(p, f), list), hits, trace, TRUE)
      PROVE  Reported
  <2>1. PICK hits \in RerankHits(p, f, list, k, q, b) :
          Answer(Asked("rerank", p, f, list, k, q, b),
                 Narrowed(PolicyPlanMask(p, f), list), hits, trace, TRUE)
    BY <1>4, Zenon
  <2>2. QED
    BY <1>4, <2>1, RerankReports
<1>5. ASSUME NEW p, IsPolicyView(p), NEW b \in BlendConfigs, NEW list \in CandidateLists, NEW trace,
             trace = NoTrace \/ trace = PolicyTrace(VisitsOf(p)),
             \E hits \in HybridSearchHits(p, f, list, k, q, b) :
               Answer(Asked("hybrid", p, f, list, k, q, b),
                      Narrowed(PolicyPlanMask(p, f), list), hits, trace, TRUE)
      PROVE  Reported
  <2>1. PICK hits \in HybridSearchHits(p, f, list, k, q, b) :
          Answer(Asked("hybrid", p, f, list, k, q, b),
                 Narrowed(PolicyPlanMask(p, f), list), hits, trace, TRUE)
    BY <1>5, Zenon
  <2>2. QED
    BY <1>5, <2>1, HybridReports
<1>6. ASSUME NEW p, IsPolicyView(p), NEW b \in BlendConfigs, ExplainRerank(p, f, k, q, b)
      PROVE  Reported
  <2>1. \E hits \in RerankHits(p, f, AnyIds, k, q, b) :
          Answer(Asked("rerank", p, f, AnyIds, k, q, b),
                 Narrowed(PolicyPlanMask(p, f), AnyIds), hits, PolicyTrace(VisitsOf(p)), TRUE)
    BY <1>3, <1>6 DEF ExplainRerank
  <2>2. QED
    BY <1>4, <1>6, <2>1
<1>7. ASSUME NEW p \in PolicyKeys, NEW b \in Blends
      PROVE  /\ IsPolicyView(p) /\ b \in BlendConfigs
             /\ SearchRerank(p, f, k, q, b) => Reported
             /\ ExplainRerank(p, f, k, q, b) => Reported
             /\ \A list \in CandidateLists :
                  /\ SearchCandidatesRerank(p, f, list, k, q, b) => Reported
                  /\ SearchHybrid(p, f, list, k, q, b) => Reported
                  /\ ExplainCandidatesRerank(p, f, list, k, q, b) => Reported
                  /\ ExplainHybrid(p, f, list, k, q, b) => Reported
  <2>1. IsPolicyView(p) /\ b \in BlendConfigs
    BY ViewsDiffer, SearchConstantsOK DEF SearchConstantsOK
  <2>2. ASSUME SearchRerank(p, f, k, q, b)
        PROVE  Reported
    <3>1. \E hits \in RerankHits(p, f, AnyIds, k, q, b) :
            Answer(Asked("rerank", p, f, AnyIds, k, q, b),
                   Narrowed(PolicyPlanMask(p, f), AnyIds), hits, NoTrace, TRUE)
      BY <1>3, <2>2 DEF SearchRerank
    <3>2. QED
      BY <1>4, <2>1, <3>1
  <2>3. ASSUME NEW list \in CandidateLists, SearchCandidatesRerank(p, f, list, k, q, b)
        PROVE  Reported
    BY <1>4, <2>1, <2>3 DEF SearchCandidatesRerank
  <2>4. ASSUME NEW list \in CandidateLists, SearchHybrid(p, f, list, k, q, b)
        PROVE  Reported
    BY <1>5, <2>1, <2>4 DEF SearchHybrid
  <2>5. ASSUME NEW list \in CandidateLists, ExplainCandidatesRerank(p, f, list, k, q, b)
        PROVE  Reported
    BY <1>4, <2>1, <2>5 DEF ExplainCandidatesRerank
  <2>6. ASSUME NEW list \in CandidateLists, ExplainHybrid(p, f, list, k, q, b)
        PROVE  Reported
    BY <1>5, <2>1, <2>6 DEF ExplainHybrid
  <2>7. ASSUME ExplainRerank(p, f, k, q, b)
        PROVE  Reported
    BY <1>6, <2>1, <2>7
  <2>8. QED
    BY <2>1, <2>2, <2>3, <2>4, <2>5, <2>6, <2>7, Zenon
<1>8. ASSUME NEW preset \in Presets, ExplainWithPreset(preset, f, k, q)
      PROVE  Reported
  <2>1. k \in Nat
    BY SearchConstantsOK DEF SearchConstantsOK
  <2>2. QED
    BY <1>6, <1>8, <2>1, Tuned DEF ExplainWithPreset
<1>9. QED
  BY <1>1, <1>2, <1>7, <1>8

\* So does a search of a prepared view, by what it was prepared with.
LEMMA PreparedSearchesReport ==
  ASSUME IInv, PreparedInv, NEW k \in Ks, NEW q \in Queries,
         SearchPrepared(k, q) \/ \E b \in Blends : SearchPreparedRerank(k, q, b)
  PROVE  Reported
<1> DEFINE view == prepared.view
           mask == prepared.mask
           current == prepared.current
<1>1. k \in Nat /\ q \in [Vectors -> Int] /\ Blends \subseteq BlendConfigs
  BY SearchConstantsOK DEF SearchConstantsOK
<1>2. /\ prepared # NoView /\ Usable(k, mask)
      /\ SearchPrepared(k, q) \/ \E b \in Blends : SearchPreparedRerank(k, q, b)
  BY DEF SearchPrepared, SearchPreparedRerank
<1>3. /\ view \in ViewKeys \/ IsPolicyView(view)
      /\ IsFilter(prepared.filter) /\ IsMask(mask) /\ IsPaths(prepared.paths)
      /\ current =>
           /\ Selects(mask, Chosen(view, prepared.filter))
           /\ "max_nodes" \in DOMAIN view => prepared.paths = PathsBySlot(Visits(view))
  BY <1>2 DEF PreparedInv
<1>4. CASE SearchPrepared(k, q)
  <2> DEFINE asked == Asked("plain", view, prepared.filter, AnyIds, k, q, NoBlend)
  <2>1. PICK hits \in PlainHits(q, k, mask) : Answer(asked, mask, hits, NoTrace, current)
    BY <1>4 DEF SearchPrepared
  <2>2. /\ asked.kind = "plain" /\ asked.view = view /\ asked.filter = prepared.filter
        /\ asked.list = AnyIds /\ asked.k = k /\ asked.query = q
    BY RequestIs
  <2> HIDE DEF asked
  <2>3. Wanted(asked) = Chosen(view, prepared.filter)
    BY <2>2, AnyCandidates
  <2> HIDE DEF mask, current, view
  <2>4. WellAnswered(asked, mask, hits, NoTrace, current)
    BY <1>1, <1>2, <1>3, <2>1, <2>2, <2>3 DEF WellAnswered
  <2>5. QED
    BY <2>1, <2>4, Reports
<1>5. ASSUME NEW b \in Blends, SearchPreparedRerank(k, q, b)
      PROVE  Reported
  <2> DEFINE asked == Asked("rerank", view, prepared.filter, AnyIds, k, q, b)
             paths == prepared.paths
  <2>1. "max_nodes" \in DOMAIN view
    BY <1>5 DEF SearchPreparedRerank
  <2>2. PICK slots \in Prefetched(q, k, mask, b) :
          Answer(asked, mask, FirstOf(RerankedHits(q, slots, paths, b), k), NoTrace, current)
    BY <1>5 DEF SearchPreparedRerank
  <2>3. /\ asked.kind = "rerank" /\ asked.view = view /\ asked.filter = prepared.filter
        /\ asked.list = AnyIds /\ asked.k = k /\ asked.query = q /\ asked.blend = b
    BY RequestIs
  <2> HIDE DEF asked
  <2>4. Wanted(asked) = Chosen(view, prepared.filter)
    BY <2>3, AnyCandidates
  <2>5. IsPolicyView(view)
    BY <1>3, <2>1, ViewsDiffer
  <2> DEFINE hits == FirstOf(RerankedHits(q, slots, paths, b), k)
  <2>6. Ranked(asked, mask, hits, paths)
    BY <2>2, <2>3 DEF Ranked, RerankedHits, ScoresOf
  <2>7. IsPaths(paths) /\ (current => paths = PathsBySlot(Visits(view)))
    BY <1>3, <2>1
  <2>8. Answer(asked, mask, hits, NoTrace, current)
    BY <2>2
  <2> HIDE DEF mask, current, view, hits, paths
  <2>9. RankedToday(asked, mask, hits, current)
    BY <1>1, <2>3, <2>5, <2>6, <2>7 DEF RankedToday
  <2>10. WellAnswered(asked, mask, hits, NoTrace, current)
    BY <1>1, <1>2, <1>3, <2>3, <2>4, <2>9 DEF WellAnswered
  <2>11. QED
    BY <2>8, <2>10, Reports
<1>6. QED
  BY <1>2, <1>4, <1>5

\* A report keeps its meaning while the memory is not changed.
LEMMA AnswerKept ==
  ASSUME UNCHANGED <<nodes, metadata, edges>>
  PROVE  \A asked, mask, hits, trace, current :
           WellAnswered(asked, mask, hits, trace, current)'
             = WellAnswered(asked, mask, hits, trace, current)
<1>1. UNCHANGED <<rows, slot_to_id, id_to_slot, records, edges, tag_to_ids, source_to_ids, time_index>>
  BY DEF nodes, metadata
<1>2. Live' = Live
  BY <1>1 DEF Live
<1>3. /\ \A view : ViewIds(view)' = ViewIds(view)
      /\ \A view : PathsBySlot(Visits(view))' = PathsBySlot(Visits(view))
  BY <1>1, ViewsKept
<1>4. \A asked : Wanted(asked)' = Wanted(asked)
  BY <1>1, <1>3 DEF Wanted
<1>5. \A k, mask : Usable(k, mask)' = Usable(k, mask)
  BY <1>1 DEF Usable
<1>6. \A mask, ids : Selects(mask, ids)' = Selects(mask, ids)
  BY <1>1 DEF Selects
<1>7. \A query, s : ScoreAt(query, s)' = ScoreAt(query, s) /\ HitAt(query, s)' = HitAt(query, s)
  BY <1>1 DEF ScoreAt, HitAt
<1>8. \A query, k, mask : TopSlots(query, k, mask)' = TopSlots(query, k, mask)
  BY <1>1 DEF TopSlots, ScoreAt
<1>9. \A query, k, mask : PlainHits(query, k, mask)' = PlainHits(query, k, mask)
  BY <1>7, <1>8 DEF PlainHits
<1>10. \A query, k, mask, blend :
         Prefetched(query, k, mask, blend)' = Prefetched(query, k, mask, blend)
  BY <1>8 DEF Prefetched
<1>11. \A query, s, paths, scores, blend :
         HybridHit(query, s, paths, scores, blend)' = HybridHit(query, s, paths, scores, blend)
  BY <1>1, <1>7 DEF HybridHit
<1>12. \A query, slots, paths, scores, blend :
         HybridHits(query, slots, paths, scores, blend)'
           = HybridHits(query, slots, paths, scores, blend)
  BY <1>11 DEF HybridHits
<1>13. \A ids : MaskOf(ids)' = MaskOf(ids)
  BY <1>1, <1>2 DEF MaskOf
<1>14. \A list : CandidateMask(list)' = CandidateMask(list)
  BY <1>13 DEF CandidateMask
<1>15. \A list : CandidateScores(list)' = CandidateScores(list)
  BY <1>1, <1>14 DEF CandidateScores
<1>16. \A asked, mask : ScoresOf(asked, mask)' = ScoresOf(asked, mask)
  BY <1>15 DEF ScoresOf
<1>17. \A asked, mask, hits, paths :
         Ranked(asked, mask, hits, paths)' = Ranked(asked, mask, hits, paths)
  BY <1>10, <1>12, <1>16 DEF Ranked
<1>18. \A ids : EdgesAmong(ids)' = EdgesAmong(ids)
  BY <1>1 DEF EdgesAmong
<1>19. \A trace, ids : IsTrace(trace, ids)' = IsTrace(trace, ids)
  BY <1>1, <1>2, <1>18 DEF IsTrace
<1>20. \A mask, list : Narrowed(mask, list)' = Narrowed(mask, list)
  BY <1>14 DEF Narrowed
<1>21. \A p : PolicyMask(p)' = PolicyMask(p)
  <2>1. \A p : Visits(p)' = Visits(p)
    BY <1>1 DEF Visits
  <2>2. QED
    BY <1>13, <2>1 DEF PolicyMask, VisitedIds
<1>22. \A mask, f : FreshPlan(mask, f)' = FreshPlan(mask, f)
  <2>1. \A t : TagMask(t)' = TagMask(t) /\ SourceMask(t)' = SourceMask(t)
    BY <1>1, <1>13 DEF TagMask, SourceMask
  <2>2. \A w : TimeMask(w)' = TimeMask(w)
    BY <1>1, <1>13 DEF TimeMask
  <2>3. QED
    BY <2>1, <2>2 DEF FreshPlan
<1>23. \A asked, mask, hits, current :
         RankedToday(asked, mask, hits, current)' = RankedToday(asked, mask, hits, current)
  BY <1>3, <1>17, <1>20, <1>21, <1>22 DEF RankedToday
<1>24. QED
  BY <1>3, <1>4, <1>5, <1>6, <1>9, <1>19, <1>23 DEF WellAnswered

-----------------------------------------------------------------------------
\* The state of a session's searches.

SearchInv == /\ PreparedInv /\ AnswerInv
             /\ session = "save" => prepared = NoView /\ answer = NoAnswer

\* A report and a prepared view stay what they are until the next call.
LEMMA ReportMakes ==
  ASSUME PreparedInv, UNCHANGED <<nodes, metadata, edges>>, Reported
  PROVE  PreparedInv' /\ AnswerInv'
<1>1. UNCHANGED <<slot_to_id, id_to_slot, edges, rows, records>>
  BY DEF nodes, metadata
<1>2. PreparedInv'
  BY <1>1, PreparedKept DEF Reported
<1>3. PICK asked, mask, hits, trace, current :
        /\ answer' = [asked |-> asked, mask |-> mask, hits |-> hits, trace |-> trace,
                      current |-> current]
        /\ WellAnswered(asked, mask, hits, trace, current)
  BY DEF Reported
<1>4. WellAnswered(asked, mask, hits, trace, current)'
  BY <1>3, AnswerKept
<1>5. /\ answer'.asked = asked /\ answer'.mask = mask /\ answer'.hits = hits
      /\ answer'.trace = trace /\ answer'.current = current
  BY <1>3
<1>6. WellAnswered(answer.asked, answer.mask, answer.hits, answer.trace, answer.current)'
  BY <1>4, <1>5
<1>7. QED
  BY <1>2, <1>3, <1>5, <1>6 DEF AnswerInv

\* A search, a mutation or a trim keeps what was said of the last answer.
LEMMA SearchesStep ==
  ASSUME IInv, SearchInv, UNCHANGED session, Searching
  PROVE  SearchInv'
<1>1. ASSUME SearchViews \/ SearchPolicies \/ PrepareOrSearch \/ Return
      PROVE  UNCHANGED <<nodes, metadata, edges>>
  BY <1>1, SearchesQuery, QueryStepsKeep
<1>2. /\ PreparedInv /\ AnswerInv
      /\ session = "save" => prepared = NoView /\ answer = NoAnswer
  BY DEF SearchInv
<1>3. CASE Return
  <2>1. /\ prepared' = prepared /\ answer' = NoAnswer
        /\ UNCHANGED <<slot_to_id, id_to_slot, edges, rows, records>>
    BY <1>3 DEF Return, vars, nodes, metadata
  <2>2. PreparedInv'
    BY <1>2, <2>1, PreparedKept
  <2>3. AnswerInv'
    BY <2>1 DEF AnswerInv, Answered
  <2>4. QED
    BY <1>2, <2>1, <2>2, <2>3 DEF SearchInv
<1>4. CASE ~Return
  <2>1. /\ answer = NoAnswer /\ session # "save"
        /\ SearchViews \/ SearchPolicies \/ PrepareOrSearch \/ Mutate \/ TrimCaches
    BY <1>4 DEF Searching
  <2>2. ASSUME SearchViews \/ SearchPolicies
        PROVE  SearchInv'
    <3>1. Reported
      BY <2>2, ViewSearchesReport, PolicySearchesReport
    <3>2. UNCHANGED <<nodes, metadata, edges>>
      BY <1>1, <2>2
    <3>3. QED
      BY <1>2, <2>1, <3>1, <3>2, ReportMakes DEF SearchInv
  <2>3. ASSUME PrepareOrSearch
        PROVE  SearchInv'
    <3>1. UNCHANGED <<nodes, metadata, edges>>
      BY <1>1, <2>3
    <3> DEFINE preparing ==
          \/ \E v \in ViewKeys : PrepareView(v) \/ \E f \in Filters : PrepareFiltered(v, f)
          \/ \E p \in PolicyKeys :
               PreparePolicyView(p) \/ \E f \in Filters : PreparePolicyFiltered(p, f)
    <3>2. CASE preparing
      <4>1. PreparedInv'
        BY <3>2, PrepareStep
      <4>2. answer' = answer
        BY <3>2 DEF PrepareView, PrepareFiltered, PreparePolicyView, PreparePolicyFiltered, Prepare
      <4>3. AnswerInv'
        BY <2>1, <4>2 DEF AnswerInv, Answered
      <4>4. QED
        BY <2>1, <4>1, <4>3 DEF SearchInv
    <3>3. CASE ~preparing
      <4>1. PICK k \in Ks, q \in Queries :
              SearchPrepared(k, q) \/ \E b \in Blends : SearchPreparedRerank(k, q, b)
        BY <2>3, <3>3 DEF PrepareOrSearch
      <4>2. Reported
        BY <1>2, <4>1, PreparedSearchesReport
      <4>3. QED
        BY <1>2, <2>1, <3>1, <4>2, ReportMakes DEF SearchInv
    <3>4. QED
      BY <3>2, <3>3
  <2>4. ASSUME Mutate \/ TrimCaches
        PROVE  SearchInv'
    <3>1. PreparedInv'
      BY <1>2, <2>4, MutateKeepsPrepared
    <3>2. answer' = answer
      BY <2>4 DEF Mutate, TrimCaches, Embed, Retag, Restructure, Keeps
    <3>3. AnswerInv'
      BY <2>1, <3>2 DEF AnswerInv, Answered
    <3>4. QED
      BY <2>1, <3>1, <3>3 DEF SearchInv
  <2>5. QED
    BY <2>1, <2>2, <2>3, <2>4
<1>5. QED
  BY <1>3, <1>4

\* So does every step of a session.
LEMMA SearchStep ==
  ASSUME IInv, SearchInv, [SessionNext]_sessionVars
  PROVE  SearchInv'
<1>1. /\ PreparedInv /\ AnswerInv
      /\ session = "save" => prepared = NoView /\ answer = NoAnswer
  BY DEF SearchInv
<1>2. CASE UNCHANGED sessionVars
  <2>1. /\ prepared' = prepared /\ answer' = answer /\ session' = session
        /\ UNCHANGED <<nodes, metadata, edges>>
    BY <1>2 DEF sessionVars, searchVars, vars
  <2>2. PreparedInv'
    BY <1>1, <2>1, PreparedKept DEF nodes, metadata
  <2>3. AnswerInv'
    <3>1. CASE Answered
      <4>1. WellAnswered(answer.asked, answer.mask, answer.hits, answer.trace, answer.current)'
        <5>1. WellAnswered(answer.asked, answer.mask, answer.hits, answer.trace, answer.current)
          BY <1>1, <3>1 DEF AnswerInv
        <5> DEFINE asked == answer.asked
                   mask == answer.mask
                   hits == answer.hits
                   trace == answer.trace
                   current == answer.current
        <5>2. asked' = asked /\ mask' = mask /\ hits' = hits /\ trace' = trace /\ current' = current
          BY <2>1
        <5>3. WellAnswered(asked, mask, hits, trace, current)
          BY <5>1
        <5> HIDE DEF asked, mask, hits, trace, current
        <5>4. \A a, m, h, t, c : WellAnswered(a, m, h, t, c)' = WellAnswered(a, m, h, t, c)
          BY <2>1, AnswerKept
        <5>5. WellAnswered(asked, mask, hits, trace, current)'
          BY <5>2, <5>3, <5>4
        <5>6. QED
          BY <5>5 DEF asked, mask, hits, trace, current
      <4>2. QED
        BY <1>1, <2>1, <3>1, <4>1 DEF AnswerInv
    <3>2. CASE ~Answered
      BY <2>1, <3>2 DEF AnswerInv, Answered
    <3>3. QED
      BY <3>1, <3>2
  <2>4. QED
    BY <1>1, <2>1, <2>2, <2>3 DEF SearchInv
<1>3. CASE SessionNext /\ Searching
  BY <1>3, SearchesStep DEF SessionNext
<1>4. CASE SessionNext /\ ~Searching
  <2>1. session' = session /\ session = "save" /\ UNCHANGED <<prepared, answer>>
    BY <1>4, Zenon DEF SessionNext
  <2>2. prepared' = NoView /\ answer' = NoAnswer
    BY <1>1, <2>1
  <2>3. PreparedInv' /\ AnswerInv'
    BY <2>2 DEF PreparedInv, AnswerInv, Answered
  <2>4. QED
    BY <2>1, <2>2, <2>3 DEF SearchInv
<1>5. QED
  BY <1>2, <1>3, <1>4

\* A session starts without an answer.
LEMMA SearchStart ==
  ASSUME SessionInit
  PROVE  SearchInv
<1>1. prepared = NoView /\ answer = NoAnswer
  BY DEF SessionInit, SearchInit
<1>2. QED
  BY <1>1 DEF SearchInv, PreparedInv, AnswerInv, Answered

\* What sessions keep: the memory and its files, prepared views and reports.
THEOREM SessionStays == SessionSpec => [](IInv /\ FilesInv /\ SearchInv)
  BY MemoryStart, MemoryStep, SearchStart, SearchStep, PTL DEF SessionSpec

\* A prepared view selects what its request means today, with today's paths,
\* until something it depends on changes: replacing an embedding moves a row into
\* a freed slot and is not such a change (GraphPreparedView, GraphPreparedPolicyView
\* and replace_embedding).
THEOREM PreparedStaysCurrent == SessionSpec => []PreparedCurrent
<1>1. IInv /\ SearchInv => PreparedCurrent
  BY DEF SearchInv, PreparedInv, PreparedCurrent, Chosen
<1>2. QED
  BY <1>1, SessionStays, PTL

-----------------------------------------------------------------------------
\* Hits.

\* The greater and the smaller of two numbers.
LEMMA MaxOfTwo ==
  ASSUME NEW x \in Int, NEW y \in Int
  PROVE  Max({x, y}) = IF x >= y THEN x ELSE y
<1> DEFINE m == IF x >= y THEN x ELSE y
<1>1. m \in {x, y} /\ m >= x /\ m >= y /\ m \in Int
  OBVIOUS
<1>2. \A l \in {x, y} : (\A n \in {x, y} : l >= n) => l = m
  OBVIOUS
<1> HIDE DEF m
<1>3. Max({x, y}) \in {x, y} /\ \A n \in {x, y} : Max({x, y}) >= n
  BY <1>1 DEF Max
<1>4. QED
  BY <1>2, <1>3 DEF m

\* The smaller of two numbers.
LEMMA MinOfTwo ==
  ASSUME NEW x \in Int, NEW y \in Int
  PROVE  Min({x, y}) = IF x <= y THEN x ELSE y
<1> DEFINE m == IF x <= y THEN x ELSE y
<1>1. m \in {x, y} /\ m <= x /\ m <= y /\ m \in Int
  OBVIOUS
<1>2. \A l \in {x, y} : (\A n \in {x, y} : l <= n) => l = m
  OBVIOUS
<1> HIDE DEF m
<1>3. Min({x, y}) \in {x, y} /\ \A n \in {x, y} : Min({x, y}) <= n
  BY <1>1 DEF Min
<1>4. QED
  BY <1>2, <1>3 DEF m

\* The head of a list.
LEMMA FirstOfIs ==
  ASSUME NEW T, NEW s \in Seq(T), NEW k \in Nat
  PROVE  /\ FirstOf(s, k) \in Seq(T)
         /\ Len(FirstOf(s, k)) = Min({k, Len(s)}) /\ Min({k, Len(s)}) \in 0..Len(s)
         /\ DOMAIN FirstOf(s, k) = 1..Len(FirstOf(s, k)) /\ DOMAIN s = 1..Len(s) /\ Len(s) \in Nat
         /\ \A n \in 1..Len(FirstOf(s, k)) : n \in DOMAIN s /\ FirstOf(s, k)[n] = s[n]
<1>1. Len(s) \in Nat /\ DOMAIN s = 1..Len(s)
  OBVIOUS
<1>2. Min({k, Len(s)}) = IF k <= Len(s) THEN k ELSE Len(s)
  BY <1>1, MinOfTwo
<1> DEFINE m == Min({k, Len(s)})
<1>3. m \in 0..Len(s)
  BY <1>1, <1>2
<1> DEFINE head == FirstOf(s, k)
<1>4. head = SubSeq(s, 1, m)
  BY DEF FirstOf
<1> HIDE DEF m, head
<1>5. SubSeq(s, 1, m) \in Seq(T) /\ Len(SubSeq(s, 1, m)) = m
      /\ \A n \in 1..m : SubSeq(s, 1, m)[n] = s[n]
  BY <1>1, <1>3
<1>6. head \in Seq(T) /\ Len(head) = m /\ \A n \in 1..m : head[n] = s[n]
  BY <1>4, <1>5
<1>7. DOMAIN head = 1..Len(head)
  BY <1>6
<1>8. \A n \in 1..Len(head) : n \in DOMAIN s /\ head[n] = s[n]
  BY <1>1, <1>3, <1>6
<1>9. QED
  BY <1>1, <1>3, <1>6, <1>7, <1>8 DEF m, head

\* What the index returns: distinct slots of the mask, as many as were asked for
\* and are there.
LEMMA TopSlotsAre ==
  ASSUME NEW query, NEW k \in Nat, NEW mask, IsMask(mask), NEW slots \in TopSlots(query, k, mask)
  PROVE  /\ IsFiniteSet(mask.slots) /\ Cardinality(mask.slots) \in Nat
         /\ slots \in Seq(mask.slots) /\ Len(slots) = Min({k, Cardinality(mask.slots)})
         /\ IsDistinct(slots)
         /\ IsFiniteSet(Elements(slots)) /\ Elements(slots) \subseteq mask.slots
         /\ Cardinality(Elements(slots)) = Len(slots)
         /\ (Len(slots) = Cardinality(mask.slots) => Elements(slots) = mask.slots)
<1> DEFINE all == Cardinality(mask.slots)
           n == Min({k, all})
<1>1. IsFiniteSet(mask.slots)
  <2>1. mask.slots \subseteq 1..mask.len /\ mask.len \in Nat
    BY DEF IsMask
  <2>2. IsFiniteSet(1..mask.len)
    BY <2>1, FS_Interval
  <2>3. QED
    BY <2>1, <2>2, FS_Subset
<1>2. all \in Nat
  BY <1>1, FS_CardinalityType
<1>3. n = IF k <= all THEN k ELSE all
  BY <1>2, MinOfTwo
<1>4. slots \in [1..n -> mask.slots] /\ IsDistinct(slots)
  BY DEF TopSlots
<1> HIDE DEF all, n
<1>5. n \in Nat
  BY <1>2, <1>3
<1>6. slots \in Seq(mask.slots) /\ Len(slots) = n /\ DOMAIN slots = 1..n
  BY <1>4, <1>5
<1>7. IsFiniteSet(1..n) /\ Cardinality(1..n) = n
  BY <1>5, FS_Interval
<1>8. IsFiniteSet({slots[i] : i \in 1..n}) /\ Cardinality({slots[i] : i \in 1..n}) = n
  <2>1. DOMAIN slots = 1..n /\ slots = [i \in 1..n |-> slots[i]]
    BY <1>4
  <2>2. \A i, j \in 1..n : slots[i] = slots[j] => i = j
    BY <1>4, <1>6 DEF IsDistinct
  <2> DEFINE places == 1..n
  <2>3. IsFiniteSet(places) /\ Cardinality(places) = n /\ DOMAIN slots = places
        /\ slots = [i \in places |-> slots[i]]
        /\ \A i, j \in places : slots[i] = slots[j] => i = j
    BY <1>7, <2>1, <2>2
  <2> HIDE DEF places
  <2>4. IsFiniteSet({slots[i] : i \in places}) /\ Cardinality({slots[i] : i \in places}) = n
    BY <2>3, ImageIsAsLarge
  <2>5. QED
    BY <2>4 DEF places
<1>9. Elements(slots) = {slots[i] : i \in 1..n} /\ Elements(slots) \subseteq mask.slots
  BY <1>4, <1>6 DEF Elements
<1>10. ASSUME Len(slots) = Cardinality(mask.slots)
       PROVE  Elements(slots) = mask.slots
  <2>1. Cardinality(Elements(slots)) = Cardinality(mask.slots)
    BY <1>6, <1>8, <1>9, <1>10
  <2>2. QED
    BY <1>1, <1>9, <2>1, LargestPart
<1>11. QED
  BY <1>1, <1>2, <1>4, <1>6, <1>8, <1>9, <1>10 DEF all, n

\* Slots that hold a node now.
InUse(slots) ==
  \A s \in slots : /\ s \in 1..Len(slot_to_id) /\ slot_to_id[s] \in Live /\ slot_to_id[s] \in Int
                   /\ id_to_slot[slot_to_id[s]] = s /\ rows[s] \in Vectors

\* A mask that can be searched for any hit selects slots in use.
LEMMA SlotsInUse ==
  ASSUME IInv, NEW query, NEW k \in Nat, NEW l \in Nat, k = 0 => l = 0, NEW mask, IsMask(mask),
         Usable(k, mask), NEW slots \in TopSlots(query, l, mask)
  PROVE  InUse(Elements(slots))
<1>1. /\ slots \in Seq(mask.slots) /\ Len(slots) = Min({l, Cardinality(mask.slots)})
      /\ Elements(slots) \subseteq mask.slots /\ Cardinality(mask.slots) \in Nat
  BY TopSlotsAre
<1>2. CASE k = 0
  <2>1. Len(slots) = 0
    BY <1>1, <1>2, MinOfTwo
  <2>2. QED
    BY <2>1 DEF Elements, InUse
<1>3. CASE mask.slots = {}
  BY <1>1, <1>3 DEF InUse
<1>4. CASE mask.len = Len(rows)
  <2>1. /\ mask.slots \subseteq 1..Len(slot_to_id) /\ Live = Elements(slot_to_id)
        /\ \A s \in 1..Len(slot_to_id) : id_to_slot[slot_to_id[s]] = s
        /\ rows \in Seq(Vectors) /\ Len(rows) = Len(slot_to_id)
        /\ slot_to_id \in Seq(Ids) /\ Ids \subseteq Int
    BY <1>4, GraphConstantsOK DEF IsMask, IInv, Tables, NodesAligned, GraphConstantsOK
  <2>2. \A s \in 1..Len(slot_to_id) : slot_to_id[s] \in Ids /\ slot_to_id[s] \in Elements(slot_to_id)
                                      /\ rows[s] \in Vectors
    BY <2>1 DEF Elements
  <2>3. QED
    BY <1>1, <2>1, <2>2 DEF InUse
<1>5. QED
  BY <1>2, <1>3, <1>4 DEF Usable

\* No fewer slots are fetched for reranking than are returned in the end.
LEMMA PrefetchIs ==
  ASSUME NEW k \in Nat, NEW selected \in Nat, NEW b \in BlendConfigs
  PROVE  /\ prefetch_k(b, k, selected) \in 0..selected
         /\ (k = 0 => prefetch_k(b, k, selected) = 0)
         /\ (k <= selected => k <= prefetch_k(b, k, selected))
         /\ (k > selected => prefetch_k(b, k, selected) = selected)
         /\ (k # 0 /\ (b.min_prefetch >= selected \/ k * b.prefetch_factor >= selected) =>
               prefetch_k(b, k, selected) = selected)
<1> DEFINE given == b.prefetch_factor
           factor == Max({given, 1})
           least == b.min_prefetch
           most == Max({k * factor, least, k})
<1>1. given \in Nat /\ least \in Nat
  BY DEF BlendConfigs
<1>2. prefetch_k(b, k, selected) = IF k = 0 \/ selected = 0 THEN 0 ELSE Min({most, selected})
  BY DEF prefetch_k
<1> HIDE DEF given, least
<1>3. factor \in Nat /\ factor >= given /\ factor >= 1
  BY <1>1, MaxOfTwo
<1> HIDE DEF factor
<1>4. k * factor \in Nat /\ k * factor >= k * given /\ k * given \in Nat
  <2>1. ASSUME NEW x \in Nat, NEW y \in Nat, NEW z \in Nat, x >= y
        PROVE  z * x \in Nat /\ z * y \in Nat /\ z * x >= z * y
    <3>1. z * x = z * y + z * (x - y) /\ z * (x - y) \in Nat /\ z * y \in Nat
      BY <2>1
    <3>2. QED
      BY <3>1
  <2>2. QED
    BY <1>1, <1>3, <2>1
<1>5. most \in Nat /\ most >= k * factor /\ most >= least /\ most >= k
  <2> DEFINE x == k * factor
  <2>1. x \in Nat
    BY <1>4
  <2> HIDE DEF x
  <2>2. \E m \in {x, least, k} : \A n \in {x, least, k} : m >= n
    BY <1>1, <2>1
  <2>3. Max({x, least, k}) \in {x, least, k} /\ \A n \in {x, least, k} : Max({x, least, k}) >= n
    BY <2>2 DEF Max
  <2>4. Max({x, least, k}) \in Nat
    BY <1>1, <2>1, <2>3
  <2>5. QED
    BY <2>3, <2>4 DEF x
<1> HIDE DEF most
<1>6. Min({most, selected}) = IF most <= selected THEN most ELSE selected
  BY <1>5, MinOfTwo
<1> DEFINE x == k * factor
           y == k * given
<1>7. x \in Nat /\ y \in Nat /\ x >= y /\ most >= x
  BY <1>4, <1>5
<1>8. k # 0 /\ (least >= selected \/ y >= selected) => prefetch_k(b, k, selected) = selected
  <2> HIDE DEF x, y
  <2>1. QED
    BY <1>1, <1>2, <1>5, <1>6, <1>7
<1>9. QED
  BY <1>1, <1>2, <1>5, <1>6, <1>8 DEF given, least

\* A path's strength is a number.
LEMMA StrengthIs ==
  ASSUME NEW weight \in Nat
  PROVE  Strength(weight) \in Int
<1> DEFINE halved[n \in Nat] == IF n = 0 THEN Unit ELSE halved[n - 1] \div 2
           X == Nat
           step == [x \in X |-> x \div 2]
<1>1. Unit \in X /\ step \in [X -> X]
  BY SearchConstantsOK DEF SearchConstantsOK
<1>2. PICK f \in [Nat -> X] : f = [n \in Nat |-> IF n = 0 THEN Unit ELSE step[f[n - 1]]]
  <2> HIDE DEF X, step
  <2>1. QED
    BY <1>1, RecursiveEquation
<1>3. f = [n \in Nat |-> IF n = 0 THEN Unit ELSE f[n - 1] \div 2]
  <2>1. ASSUME NEW n \in Nat, n # 0
        PROVE  step[f[n - 1]] = f[n - 1] \div 2
    <3>1. n - 1 \in Nat
      BY <2>1
    <3>2. f[n - 1] \in Nat
      BY <1>2, <3>1
    <3>3. QED
      BY <3>2
  <2> HIDE DEF step
  <2>2. QED
    BY <1>2, <2>1
<1>4. halved = [n \in Nat |-> IF n = 0 THEN Unit ELSE halved[n - 1] \div 2]
  <2> DEFINE Eq(g) == g = [n \in Nat |-> IF n = 0 THEN Unit ELSE g[n - 1] \div 2]
  <2>1. Eq(f)
    BY <1>3
  <2>2. halved = CHOOSE g : Eq(g)
    OBVIOUS
  <2> HIDE DEF Eq, halved
  <2>3. Eq(halved)
    BY <2>1, <2>2, Zenon
  <2>4. QED
    BY <2>3 DEF Eq
<1>5. Strength(weight) = halved[weight]
  BY DEF Strength
<1> HIDE DEF halved
<1>6. \A n \in Nat : halved[n] \in Nat
  <2> DEFINE Good == {n \in Nat : halved[n] \in Nat}
  <2>1. 0 \in Good
    BY <1>1, <1>4
  <2>2. ASSUME NEW n \in Good
        PROVE  n + 1 \in Good
    <3>1. n + 1 \in Nat /\ n + 1 # 0 /\ (n + 1) - 1 = n /\ halved[n] \in Nat
      OBVIOUS
    <3>2. halved[n + 1] = halved[n] \div 2
      BY <1>4, <3>1
    <3>3. halved[n] \div 2 \in Nat
      BY <3>1
    <3>4. QED
      BY <3>1, <3>2, <3>3
  <2>3. Good \in SUBSET Nat
    OBVIOUS
  <2> HIDE DEF Good
  <2>4. Good = Nat
    BY <2>1, <2>2, <2>3, NatSetInduction
  <2>5. QED
    BY <2>4 DEF Good
<1>7. QED
  BY <1>5, <1>6

\* The best score of each candidate, and those scores on one scale, are numbers.
LEMMA BestIsNumber ==
  ASSUME NEW S, S \in SUBSET Int, IsFiniteSet(S), S # {}
  PROVE  Max(S) \in S /\ Min(S) \in S /\ \A x \in S : Min(S) <= x /\ x <= Max(S)
<1>1. /\ \E m \in S : \A l \in S : m >= l
      /\ \E m \in S : \A l \in S : m <= l
  BY ExtremesTaken
<1>2. Max(S) \in S /\ \A l \in S : Max(S) >= l
  BY <1>1 DEF Max
<1>3. Min(S) \in S /\ \A l \in S : Min(S) <= l
  BY <1>1 DEF Min
<1>4. \A x \in S : x \in Int
  OBVIOUS
<1>5. QED
  BY <1>2, <1>3, <1>4

\* finite_or gives a number.
LEMMA FiniteOrIs ==
  ASSUME NEW x \in Floats, NEW fallback \in Int
  PROVE  FiniteOr(x, fallback) \in Int
  BY DEF FiniteOr, Floats

\* The scores a list gives an id.
Given(list, i) == {FiniteOr(list[n].score, 0) : n \in {n \in DOMAIN list : list[n].id = i}}

\* They are numbers, finitely many, at least one for each id of the list.
LEMMA GivenIs ==
  ASSUME NEW list \in Seq([id : Nat, score : Floats]), NEW i \in CandidateIds(list)
  PROVE  Given(list, i) \in SUBSET Int /\ IsFiniteSet(Given(list, i)) /\ Given(list, i) # {}
<1> DEFINE N == {n \in DOMAIN list : list[n].id = i}
           f == [n \in N |-> FiniteOr(list[n].score, 0)]
<1>1. DOMAIN list = 1..Len(list) /\ Len(list) \in Nat
      /\ \A n \in DOMAIN list : list[n].score \in Floats
  <2>1. DOMAIN list = 1..Len(list) /\ Len(list) \in Nat
    OBVIOUS
  <2> DEFINE Entry == [id : Nat, score : Floats]
  <2>2. \A n \in DOMAIN list : list[n] \in Entry
    <3>1. list \in Seq(Entry)
      OBVIOUS
    <3> HIDE DEF Entry
    <3>2. QED
      BY <3>1
  <2>3. QED
    BY <2>1, <2>2
<1>2. IsFiniteSet(N)
  <2>1. IsFiniteSet(1..Len(list)) /\ N \subseteq 1..Len(list)
    BY <1>1, FS_Interval
  <2>2. QED
    BY <2>1, FS_Subset
<1>3. \A n \in N : f[n] \in Int
  <2>1. ASSUME NEW n \in N
        PROVE  FiniteOr(list[n].score, 0) \in Int
    <3> DEFINE x == list[n].score
    <3>1. x \in Floats /\ 0 \in Int
      BY <1>1
    <3> HIDE DEF x
    <3>2. FiniteOr(x, 0) \in Int
      BY <3>1, FiniteOrIs
    <3>3. QED
      BY <3>2 DEF x
  <2>2. QED
    BY <2>1
<1>4. N # {}
  BY DEF CandidateIds
<1>5. Given(list, i) = {f[n] : n \in N}
  BY DEF Given
<1>6. DOMAIN f = N /\ f = [n \in N |-> f[n]]
  OBVIOUS
<1> HIDE DEF N, f
<1>7. IsFiniteSet({f[n] : n \in N})
  BY <1>2, <1>6, ImageIsSmaller
<1>8. QED
  BY <1>3, <1>4, <1>5, <1>7

\* A candidate scores the best it was given.
LEMMA ScoresAre ==
  ASSUME IInv, NEW list \in Seq([id : Nat, score : Floats])
  PROVE  /\ IsFiniteSet(CandidateMask(list).slots)
         /\ DOMAIN CandidateScores(list) = CandidateMask(list).slots
         /\ \A s \in CandidateMask(list).slots :
              /\ slot_to_id[s] \in CandidateIds(list)
              /\ CandidateScores(list)[s] = Max(Given(list, slot_to_id[s]))
              /\ CandidateScores(list)[s] \in Int
<1> DEFINE allowed == CandidateMask(list).slots
<1>1. allowed = {id_to_slot[i] : i \in CandidateIds(list) \cap Live}
  BY DEF CandidateMask, MaskOf
<1>2. IsFiniteSet(allowed)
  <2> DEFINE ids == CandidateIds(list) \cap Live
  <2>1. MaskOf(ids).slots = {id_to_slot[i] : i \in ids} /\ ids \in SUBSET Live
    BY DEF MaskOf
  <2>2. IsFiniteSet(MaskOf(ids).slots)
    <3> HIDE DEF ids
    <3>1. QED
      BY <2>1, MaskSize
  <2>3. QED
    BY <1>1, <2>1, <2>2
<1>3. \A s \in allowed : slot_to_id[s] \in CandidateIds(list)
  <2>1. \A i \in Live : slot_to_id[id_to_slot[i]] = i
    BY SlotOf DEF IInv
  <2>2. QED
    BY <1>1, <2>1
<1>4. CandidateScores(list) = [s \in allowed |-> Max(Given(list, slot_to_id[s]))]
  BY DEF CandidateScores, Given
<1> HIDE DEF allowed
<1>5. DOMAIN CandidateScores(list) = allowed
      /\ \A s \in allowed : CandidateScores(list)[s] = Max(Given(list, slot_to_id[s]))
  BY <1>4
<1>6. ASSUME NEW s \in allowed
      PROVE  CandidateScores(list)[s] \in Int
  <2> DEFINE S == Given(list, slot_to_id[s])
  <2>1. S \in SUBSET Int /\ IsFiniteSet(S) /\ S # {}
    BY <1>3, GivenIs
  <2> HIDE DEF S
  <2>2. Max(S) \in Int
    BY <2>1, BestIsNumber
  <2>3. QED
    BY <1>5, <2>2 DEF S
<1>7. QED
  BY <1>2, <1>3, <1>5, <1>6 DEF allowed

\* Scaled, scores are numbers and keep their slots.
LEMMA ScaledAre ==
  ASSUME NEW scores, IsFiniteSet(DOMAIN scores), \A s \in DOMAIN scores : scores[s] \in Int,
         NEW b \in BlendConfigs, NEW mask
  PROVE  /\ DOMAIN Scaled(scores, b, mask) = DOMAIN scores
         /\ \A s \in DOMAIN scores : Scaled(scores, b, mask)[s] \in Int
<1> DEFINE inside == DOMAIN scores \cap mask.slots
           values == {scores[s] : s \in inside}
           low == Min(values)
           high == Max(values)
           sizes == values \cup {-x : x \in values} \cup {0}
           max_abs == Max(sizes)
           scale(x) ==
             CASE b.normalization = "min_max" ->
                    IF high > low THEN ((x - low) * Unit) \div (high - low) ELSE Unit
               [] b.normalization = "max_abs" ->
                    IF max_abs > 0 THEN (x * Unit) \div max_abs ELSE x
               [] OTHER -> x
           scaled == Scaled(scores, b, mask)
<1>1. scaled = [s \in DOMAIN scores |-> IF s \in inside THEN scale(scores[s]) ELSE scores[s]]
  BY DEF Scaled
<1>2. IsFiniteSet(values) /\ values \in SUBSET Int
  <2> DEFINE f == [s \in inside |-> scores[s]]
  <2>1. IsFiniteSet(inside)
    BY FS_Subset
  <2>2. DOMAIN f = inside /\ f = [s \in inside |-> f[s]] /\ values = {f[s] : s \in inside}
    OBVIOUS
  <2>3. values \in SUBSET Int
    OBVIOUS
  <2> HIDE DEF f, inside, values
  <2>4. QED
    BY <2>1, <2>2, <2>3, ImageIsSmaller
<1>3. \A s \in inside : scores[s] \in values
  OBVIOUS
<1> HIDE DEF values
<1>4. values # {} => low \in Int /\ high \in Int
  BY <1>2, BestIsNumber
<1>5. max_abs \in Int
  <2> DEFINE f == [x \in values |-> -x]
             negated == {-x : x \in values}
  <2>1. DOMAIN f = values /\ f = [x \in values |-> f[x]] /\ negated = {f[x] : x \in values}
    OBVIOUS
  <2>2. IsFiniteSet(negated)
    <3> HIDE DEF f, negated
    <3>1. QED
      BY <1>2, <2>1, ImageIsSmaller
  <2>3. negated \in SUBSET Int
    BY <1>2
  <2> HIDE DEF f, negated
  <2>4. IsFiniteSet(values \cup negated)
    BY <1>2, <2>2, FS_Union
  <2>5. IsFiniteSet((values \cup negated) \cup {0})
    BY <2>4, FS_AddElement
  <2>6. sizes = (values \cup negated) \cup {0}
    BY DEF negated
  <2> HIDE DEF sizes
  <2>7. sizes \in SUBSET Int /\ sizes # {}
    BY <1>2, <2>3, <2>6
  <2>8. IsFiniteSet(sizes)
    BY <2>5, <2>6, Zenon
  <2>9. QED
    BY <2>7, <2>8, BestIsNumber
<1> HIDE DEF low, high, max_abs
<1>6. Unit \in Int
  BY SearchConstantsOK DEF SearchConstantsOK
<1>7. ASSUME NEW s \in inside
      PROVE  scale(scores[s]) \in Int
  <2> DEFINE x == scores[s]
  <2>1. x \in Int /\ values # {} /\ low \in Int /\ high \in Int
    BY <1>3, <1>4
  <2> HIDE DEF x
  <2>2. high > low => ((x - low) * Unit) \div (high - low) \in Int
    <3> DEFINE above == (x - low) * Unit
               width == high - low
    <3>1. above \in Int /\ (high > low => width \in Int /\ width > 0)
      BY <1>6, <2>1
    <3> HIDE DEF above, width
    <3>2. high > low => above \div width \in Int
      BY <3>1
    <3>3. QED
      BY <3>2 DEF above, width
  <2>3. max_abs > 0 => (x * Unit) \div max_abs \in Int
    <3> DEFINE above == x * Unit
    <3>1. above \in Int
      BY <1>6, <2>1
    <3> HIDE DEF above
    <3>2. max_abs > 0 => above \div max_abs \in Int
      BY <1>5, <3>1
    <3>3. QED
      BY <3>2 DEF above
  <2>4. scale(x) \in Int
    BY <1>6, <2>1, <2>2, <2>3
  <2>5. QED
    BY <2>4 DEF x
<1> HIDE DEF scale, inside, scaled
<1>8. DOMAIN scaled = DOMAIN scores
      /\ \A s \in DOMAIN scores : scaled[s] = IF s \in inside THEN scale(scores[s]) ELSE scores[s]
  BY <1>1
<1>9. QED
  BY <1>7, <1>8 DEF scaled

\* Scores by slot, of candidates.
IsScores(scores) == \A s \in DOMAIN scores : scores[s] \in Int

\* The scores a request is ranked by are numbers.
LEMMA RequestScores ==
  ASSUME IInv, NEW asked, asked.blend \in BlendConfigs, NEW mask,
         asked.kind = "hybrid" => asked.list \in Seq([id : Nat, score : Floats])
  PROVE  IsScores(ScoresOf(asked, mask))
<1>1. CASE asked.kind # "hybrid"
  BY <1>1 DEF IsScores, ScoresOf, EmptyFn
<1>2. CASE asked.kind = "hybrid"
  <2> DEFINE list == asked.list
             scores == CandidateScores(list)
  <2>1. IsFiniteSet(DOMAIN scores) /\ \A s \in DOMAIN scores : scores[s] \in Int
    BY <1>2, ScoresAre
  <2>2. ScoresOf(asked, mask) = Scaled(scores, asked.blend, mask)
    BY <1>2 DEF ScoresOf
  <2> HIDE DEF scores
  <2>3. QED
    BY <2>1, <2>2, ScaledAre DEF IsScores
<1>3. QED
  BY <1>1, <1>2

\* A ranked hit names its slot, with the score of its embedding.
LEMMA HitScored ==
  ASSUME NEW query \in [Vectors -> Int], NEW paths, NEW scores, NEW b \in BlendConfigs,
         NEW s, InUse({s}), paths[s].weight \in Nat, IsScores(scores)
  PROVE  /\ HybridHit(query, s, paths, scores, b) \in Scored
         /\ HybridHit(query, s, paths, scores, b).id = slot_to_id[s]
         /\ HybridHit(query, s, paths, scores, b).vector = ScoreAt(query, s)
<1> DEFINE vector == ScoreAt(query, s)
           graph == Strength(paths[s].weight)
           candidate == IF s \in DOMAIN scores THEN scores[s] ELSE 0
           v == FiniteOr(b.vector_weight, 1)
           g == FiniteOr(b.graph_weight, 0)
           c == FiniteOr(b.candidate_weight, 0)
           hit == HybridHit(query, s, paths, scores, b)
<1>1. vector \in Int /\ slot_to_id[s] \in Int
  BY DEF InUse, ScoreAt
<1>2. graph \in Int
  BY StrengthIs
<1>3. candidate \in Int
  BY DEF IsScores
<1>4. v \in Int /\ g \in Int /\ c \in Int
  <2>1. b.vector_weight \in Floats /\ b.graph_weight \in Floats /\ b.candidate_weight \in Floats
    BY DEF BlendConfigs
  <2>2. QED
    BY <2>1 DEF FiniteOr, Floats
<1>5. hit = [id |-> slot_to_id[s], vector |-> vector, graph |-> graph, candidate |-> candidate,
             score |-> v * vector + g * graph + c * candidate]
  BY DEF HybridHit
<1> HIDE DEF vector, graph, candidate, v, g, c
<1>6. v * vector + g * graph + c * candidate \in Int
  BY <1>1, <1>2, <1>3, <1>4
<1>7. hit \in Scored /\ hit.id = slot_to_id[s] /\ hit.vector = vector
  BY <1>1, <1>2, <1>3, <1>5, <1>6 DEF Scored
<1>8. QED
  BY <1>7 DEF vector, hit

\* A ranking has a hit for each slot that has a path.
LEMMA HybridHitsAre ==
  ASSUME NEW query \in [Vectors -> Int], NEW slots, IsFiniteSet(slots), InUse(slots),
         NEW paths, IsPaths(paths), NEW scores, IsScores(scores), NEW b \in BlendConfigs
  PROVE  LET list == HybridHits(query, slots, paths, scores, b)
         IN  /\ list \in Seq(Scored) /\ Len(list) = Cardinality(slots \cap DOMAIN paths)
             /\ \A n \in DOMAIN list :
                  \E s \in slots \cap DOMAIN paths :
                    list[n].id = slot_to_id[s] /\ list[n].vector = ScoreAt(query, s)
             /\ \A m, n \in DOMAIN list : list[m].id = list[n].id => m = n
<1> DEFINE S == slots \cap DOMAIN paths
           f == [s \in S |-> HybridHit(query, s, paths, scores, b)]
           H == {f[s] : s \in S}
           list == HybridHits(query, slots, paths, scores, b)
<1>1. list = InOrder(H, Outranks)
  <2>1. H = {HybridHit(query, s, paths, scores, b) : s \in slots \cap DOMAIN paths}
    OBVIOUS
  <2> HIDE DEF H
  <2>2. QED
    BY <2>1 DEF HybridHits
<1>2. \A s \in S : f[s] \in Scored /\ f[s].id = slot_to_id[s] /\ f[s].vector = ScoreAt(query, s)
  <2>1. ASSUME NEW s \in S
        PROVE  /\ HybridHit(query, s, paths, scores, b) \in Scored
               /\ HybridHit(query, s, paths, scores, b).id = slot_to_id[s]
               /\ HybridHit(query, s, paths, scores, b).vector = ScoreAt(query, s)
    <3>1. InUse({s}) /\ paths[s].weight \in Nat
      BY DEF InUse, IsPaths
    <3>2. QED
      BY <3>1, HitScored
  <2>2. QED
    BY <2>1
<1>3. DOMAIN f = S /\ f = [s \in S |-> f[s]]
  OBVIOUS
<1>4. \A s, t \in S : slot_to_id[s] = slot_to_id[t] => s = t
  BY DEF InUse
<1>5. IsFiniteSet(S)
  BY FS_Subset
<1> HIDE DEF S, f, list
<1>6. IsFiniteSet(H) /\ Cardinality(H) = Cardinality(S)
  <2>1. \A s, t \in S : f[s] = f[t] => s = t
    BY <1>2, <1>4
  <2>2. QED
    BY <1>3, <1>5, <2>1, ImageIsAsLarge
<1>7. H \subseteq Scored
  BY <1>2
<1>8. \A x \in H : \E s \in S : x = f[s]
  OBVIOUS
<1> HIDE DEF H
<1>9. Lists(list, H)
  BY <1>1, <1>6, <1>7, OutranksOrders
<1>10. list \in Seq(Scored) /\ Len(list) = Cardinality(S) /\ DOMAIN list = 1..Len(list)
       /\ \A n \in DOMAIN list : list[n] \in H
  <2>1. list \in Seq(H) /\ Len(list) = Cardinality(S)
    BY <1>6, <1>9 DEF Lists
  <2>2. QED
    BY <1>7, <2>1
<1>11. ASSUME NEW n \in DOMAIN list
       PROVE  \E s \in S : list[n] = f[s] /\ list[n].id = slot_to_id[s]
                           /\ list[n].vector = ScoreAt(query, s)
  <2>1. PICK s \in S : list[n] = f[s]
    BY <1>8, <1>10
  <2>2. QED
    BY <1>2, <2>1
<1>12. ASSUME NEW m \in DOMAIN list, NEW n \in DOMAIN list, list[m].id = list[n].id
       PROVE  m = n
  <2>1. PICK s \in S : list[m] = f[s] /\ list[m].id = slot_to_id[s]
    BY <1>11
  <2>2. PICK t \in S : list[n] = f[t] /\ list[n].id = slot_to_id[t]
    BY <1>11
  <2>3. list[m] = list[n]
    BY <1>4, <1>12, <2>1, <2>2
  <2>4. QED
    BY <1>9, <1>10, <2>3 DEF Lists, IsDistinct
<1>13. QED
  BY <1>10, <1>11, <1>12 DEF list, S

\* The score a hit has from its embedding.
VectorIn(kind, hit) == IF kind = "plain" THEN hit.score ELSE hit.vector

\* Hits that name distinct slots of a mask that are in use, with their scores.
FindsHits(hits, mask, query, kind) ==
  /\ DOMAIN hits = 1..Len(hits) /\ Len(hits) \in Nat
  /\ \A n \in DOMAIN hits :
       \E s \in mask.slots : /\ InUse({s}) /\ hits[n].id = slot_to_id[s]
                             /\ VectorIn(kind, hits[n]) = ScoreAt(query, s)
  /\ \A m, n \in DOMAIN hits : hits[m].id = hits[n].id => m = n

\* The hits of a search by vector alone are found so.
LEMMA PlainFound ==
  ASSUME IInv, NEW query, NEW k \in Nat, NEW mask, IsMask(mask), Usable(k, mask),
         NEW hits \in PlainHits(query, k, mask)
  PROVE  /\ FindsHits(hits, mask, query, "plain")
         /\ Len(hits) = Min({k, Cardinality(mask.slots)}) /\ Cardinality(mask.slots) \in Nat
<1>1. PICK slots \in TopSlots(query, k, mask) : hits = [i \in DOMAIN slots |-> HitAt(query, slots[i])]
  BY DEF PlainHits
<1>2. /\ slots \in Seq(mask.slots) /\ Len(slots) = Min({k, Cardinality(mask.slots)})
      /\ IsDistinct(slots) /\ Cardinality(mask.slots) \in Nat
  BY TopSlotsAre
<1>3. InUse(Elements(slots))
  BY SlotsInUse
<1>4. DOMAIN slots = 1..Len(slots) /\ Len(slots) \in Nat
  BY <1>2
<1>5. Len(hits) = Len(slots) /\ DOMAIN hits = DOMAIN slots
  BY <1>1, <1>4
<1>6. ASSUME NEW n \in DOMAIN slots
      PROVE  /\ slots[n] \in mask.slots /\ InUse({slots[n]})
             /\ hits[n].id = slot_to_id[slots[n]] /\ hits[n].score = ScoreAt(query, slots[n])
  <2>1. slots[n] \in Elements(slots) /\ slots[n] \in mask.slots
    BY <1>2, <1>4 DEF Elements
  <2>2. hits[n] = HitAt(query, slots[n])
    BY <1>1
  <2>3. QED
    BY <1>3, <2>1, <2>2 DEF InUse, HitAt
<1>7. ASSUME NEW m \in DOMAIN slots, NEW n \in DOMAIN slots, hits[m].id = hits[n].id
      PROVE  m = n
  <2>1. slots[m] = slots[n]
    BY <1>6, <1>7 DEF InUse
  <2>2. QED
    BY <1>2, <1>4, <2>1 DEF IsDistinct
<1>8. \A n \in DOMAIN hits :
        \E s \in mask.slots : /\ InUse({s}) /\ hits[n].id = slot_to_id[s]
                              /\ VectorIn("plain", hits[n]) = ScoreAt(query, s)
  BY <1>5, <1>6 DEF VectorIn
<1>9. QED
  BY <1>2, <1>4, <1>5, <1>7, <1>8 DEF FindsHits

\* What is fetched for a reranking: as many slots in use of the mask as the
\* configuration asks for.
Fetched(slots, k, mask, b) ==
  /\ slots \subseteq mask.slots /\ IsFiniteSet(slots) /\ InUse(slots)
  /\ IsFiniteSet(mask.slots) /\ Cardinality(mask.slots) \in Nat
  /\ Cardinality(slots) = prefetch_k(b, k, Cardinality(mask.slots))
  /\ (prefetch_k(b, k, Cardinality(mask.slots)) = Cardinality(mask.slots) => slots = mask.slots)

\* Every prefetch is one.
LEMMA PrefetchedAre ==
  ASSUME IInv, NEW query \in [Vectors -> Int], NEW k \in Nat, NEW mask, IsMask(mask),
         Usable(k, mask), NEW b \in BlendConfigs, NEW slots \in Prefetched(query, k, mask, b)
  PROVE  Fetched(slots, k, mask, b)
<1> DEFINE all == Cardinality(mask.slots)
<1>21. PICK l : l = prefetch_k(b, k, all)
  OBVIOUS
<1>1. PICK top \in TopSlots(query, l, mask) : slots = Elements(top)
  BY <1>21 DEF Prefetched
<1>2. IsFiniteSet(mask.slots) /\ all \in Nat
  <2>1. mask.slots \subseteq 1..mask.len /\ mask.len \in Int
    BY DEF IsMask
  <2> DEFINE len == mask.len
  <2>2. IsFiniteSet(1..len)
    <3>1. len \in Int
      BY <2>1
    <3> HIDE DEF len
    <3>2. QED
      BY <3>1, FS_Interval
  <2>3. QED
    BY <2>1, <2>2, FS_Subset, FS_CardinalityType
<1> HIDE DEF all
<1>3. l \in 0..all /\ (k = 0 => l = 0)
  BY <1>2, <1>21, PrefetchIs
<1>4. l \in Nat /\ l <= all
  BY <1>2, <1>3
<1>5. /\ Len(top) = Min({l, all}) /\ IsFiniteSet(slots) /\ slots \subseteq mask.slots
      /\ Cardinality(slots) = Len(top) /\ (l >= all => slots = mask.slots)
  <2>1. /\ Len(top) = Min({l, Cardinality(mask.slots)})
        /\ IsFiniteSet(Elements(top)) /\ Elements(top) \subseteq mask.slots
        /\ Cardinality(Elements(top)) = Len(top)
        /\ (l >= Cardinality(mask.slots) => Elements(top) = mask.slots)
    <3>1. top \in TopSlots(query, l, mask) /\ l \in Nat /\ IsMask(mask)
      BY <1>1, <1>4
    <3>2. top \in Seq(mask.slots) /\ Len(top) = Min({l, Cardinality(mask.slots)})
      BY <3>1, TopSlotsAre
    <3>3. IsFiniteSet(Elements(top)) /\ Elements(top) \subseteq mask.slots
      BY <3>1, TopSlotsAre
    <3>4. Cardinality(Elements(top)) = Len(top)
      BY <3>1, TopSlotsAre
    <3>5. Len(top) = Cardinality(mask.slots) => Elements(top) = mask.slots
      BY <3>1, TopSlotsAre
    <3>6. QED
      BY <1>2, <1>4, <3>2, <3>3, <3>4, <3>5, MinOfTwo DEF all
  <2>2. QED
    BY <1>1, <2>1 DEF all
<1>6. InUse(slots)
  BY <1>1, <1>3, <1>4, SlotsInUse
<1>7. Cardinality(slots) = l
  BY <1>2, <1>4, <1>5, MinOfTwo
<1>8. QED
  BY <1>2, <1>4, <1>5, <1>6, <1>7, <1>21 DEF Fetched, all

\* Of them, the ones with a path are reported, at most as many as asked for.
LEMMA RankedLength ==
  ASSUME NEW query, NEW k \in Nat, NEW slots, IsFiniteSet(slots), InUse(slots),
         query \in [Vectors -> Int], NEW paths, IsPaths(paths), NEW scores, IsScores(scores),
         NEW b \in BlendConfigs
  PROVE  Len(FirstOf(HybridHits(query, slots, paths, scores, b), k))
           = Min({k, Cardinality(slots \cap DOMAIN paths)})
<1> DEFINE list == HybridHits(query, slots, paths, scores, b)
<1>1. /\ list \in Seq(Scored) /\ Len(list) = Cardinality(slots \cap DOMAIN paths)
      /\ \A n \in DOMAIN list :
           \E s \in slots \cap DOMAIN paths :
             list[n].id = slot_to_id[s] /\ list[n].vector = ScoreAt(query, s)
      /\ \A m, n \in DOMAIN list : list[m].id = list[n].id => m = n
  BY HybridHitsAre
<1> HIDE DEF list
<1>2. Len(FirstOf(list, k)) = Min({k, Len(list)})
  BY <1>1, FirstOfIs
<1>3. QED
  BY <1>1, <1>2 DEF list

\* The hits of a ranked search are found so too.
LEMMA RankedFound ==
  ASSUME IInv, NEW query \in [Vectors -> Int], NEW k \in Nat, NEW mask, IsMask(mask),
         Usable(k, mask), NEW paths, IsPaths(paths), NEW scores, IsScores(scores),
         NEW b \in BlendConfigs, NEW slots \in Prefetched(query, k, mask, b),
         NEW hits, hits = FirstOf(HybridHits(query, slots, paths, scores, b), k),
         NEW kind, kind # "plain"
  PROVE  FindsHits(hits, mask, query, kind)
<1>5. Fetched(slots, k, mask, b)
  BY PrefetchedAre
<1>6. IsFiniteSet(slots) /\ slots \subseteq mask.slots /\ InUse(slots)
  BY <1>5 DEF Fetched
<1> DEFINE list == HybridHits(query, slots, paths, scores, b)
<1>8. /\ list \in Seq(Scored) /\ Len(list) = Cardinality(slots \cap DOMAIN paths)
      /\ \A n \in DOMAIN list :
           \E s \in slots \cap DOMAIN paths :
             list[n].id = slot_to_id[s] /\ list[n].vector = ScoreAt(query, s)
      /\ \A m, n \in DOMAIN list : list[m].id = list[n].id => m = n
  BY <1>6, HybridHitsAre
<1> HIDE DEF list
<1>9. /\ hits \in Seq(Scored) /\ Len(hits) = Min({k, Len(list)})
      /\ DOMAIN hits = 1..Len(hits) /\ DOMAIN list = 1..Len(list)
      /\ \A n \in 1..Len(hits) : n \in DOMAIN list /\ hits[n] = list[n]
  <2>1. hits = FirstOf(list, k)
    BY DEF list
  <2>2. list \in Seq(Scored)
    BY <1>8
  <2>3. /\ FirstOf(list, k) \in Seq(Scored) /\ Len(FirstOf(list, k)) = Min({k, Len(list)})
        /\ DOMAIN FirstOf(list, k) = 1..Len(FirstOf(list, k)) /\ DOMAIN list = 1..Len(list)
        /\ \A n \in 1..Len(FirstOf(list, k)) : n \in DOMAIN list /\ FirstOf(list, k)[n] = list[n]
    BY <2>2, FirstOfIs
  <2>4. QED
    BY <2>1, <2>3
<1>10. \A n \in DOMAIN hits :
         \E s \in mask.slots : /\ InUse({s}) /\ hits[n].id = slot_to_id[s]
                               /\ VectorIn(kind, hits[n]) = ScoreAt(query, s)
  <2>1. ASSUME NEW n \in DOMAIN hits
        PROVE  \E s \in mask.slots : /\ InUse({s}) /\ hits[n].id = slot_to_id[s]
                                     /\ VectorIn(kind, hits[n]) = ScoreAt(query, s)
    <3>1. PICK s \in slots : list[n].id = slot_to_id[s] /\ list[n].vector = ScoreAt(query, s)
      BY <1>8, <1>9
    <3>2. InUse({s}) /\ s \in mask.slots
      BY <1>6 DEF InUse
    <3>3. hits[n] = list[n]
      BY <1>9
    <3>4. QED
      BY <3>1, <3>2, <3>3 DEF VectorIn
  <2>2. QED
    BY <2>1
<1>11. \A m, n \in DOMAIN hits : hits[m].id = hits[n].id => m = n
  <2>1. \A n \in DOMAIN hits : n \in DOMAIN list /\ hits[n] = list[n]
    BY <1>9
  <2>2. QED
    BY <1>8, <2>1
<1>12. Len(hits) \in Nat
  BY <1>9
<1>13. FindsHits(hits, mask, query, kind)
  BY <1>9, <1>10, <1>11, <1>12 DEF FindsHits
<1>14. QED
  BY <1>13

\* So the hits of every answer are found.
LEMMA AnswerFound ==
  ASSUME IInv, NEW asked, NEW mask, NEW hits, NEW trace, NEW current,
         WellAnswered(asked, mask, hits, trace, current)
  PROVE  FindsHits(hits, mask, asked.query, asked.kind)
<1>1. /\ asked.k \in Nat /\ asked.query \in [Vectors -> Int]
      /\ IsMask(mask) /\ Usable(asked.k, mask)
      /\ \/ asked.kind = "plain" /\ hits \in PlainHits(asked.query, asked.k, mask)
         \/ RankedToday(asked, mask, hits, current)
  BY DEF WellAnswered
<1>2. CASE asked.kind = "plain" /\ hits \in PlainHits(asked.query, asked.k, mask)
  BY <1>1, <1>2, PlainFound
<1>3. CASE RankedToday(asked, mask, hits, current)
  <2>1. asked.kind # "plain" /\ asked.blend \in BlendConfigs
        /\ (asked.kind = "hybrid" => asked.list \in Seq([id : Nat, score : Floats]))
    BY <1>3, SearchConstantsOK DEF RankedToday, SearchConstantsOK
  <2>2. PICK paths : IsPaths(paths) /\ Ranked(asked, mask, hits, paths)
    BY <1>3 DEF RankedToday
  <2>3. PICK slots \in Prefetched(asked.query, asked.k, mask, asked.blend) :
          hits = FirstOf(HybridHits(asked.query, slots, paths, ScoresOf(asked, mask), asked.blend),
                         asked.k)
    BY <2>2 DEF Ranked
  <2>4. IsScores(ScoresOf(asked, mask))
    BY <2>1, RequestScores
  <2>5. QED
    BY <1>1, <2>1, <2>2, <2>3, <2>4, RankedFound
<1>4. QED
  BY <1>1, <1>2, <1>3

\* Every hit names a node that is in the memory now, once, with the score of the
\* embedding it has now, by whatever view, prepared before or not, it was found
\* (search_with_slot_mask, hits_from_results and the hybrid forms).
THEOREM HitsStayLive == SessionSpec => []HitsLive
<1>1. ASSUME IInv, SearchInv
      PROVE  HitsLive
  <2>1. CASE ~Answered
    BY <2>1 DEF HitsLive
  <2>2. CASE Answered
    <3> DEFINE hits == answer.hits
               asked == answer.asked
               mask == answer.mask
    <3>1. FindsHits(hits, mask, asked.query, asked.kind)
      BY <1>1, <2>2, AnswerFound DEF SearchInv, AnswerInv
    <3>2. ASSUME NEW n \in DOMAIN hits
          PROVE  /\ hits[n].id \in Live
                 /\ VectorIn(asked.kind, hits[n]) = ScoreAt(asked.query, id_to_slot[hits[n].id])
      <4>1. PICK s \in mask.slots : /\ InUse({s}) /\ hits[n].id = slot_to_id[s]
                                   /\ VectorIn(asked.kind, hits[n]) = ScoreAt(asked.query, s)
        BY <3>1 DEF FindsHits
      <4>2. QED
        BY <4>1 DEF InUse
    <3>3. \A m, n \in DOMAIN hits : hits[m].id = hits[n].id => m = n
      BY <3>1 DEF FindsHits
    <3>4. QED
      BY <3>2, <3>3 DEF HitsLive, VectorIn
  <2>3. QED
    BY <2>1, <2>2
<1>2. QED
  BY <1>1, SessionStays, PTL

\* What a mask that selects today's wanted ids has: their slots, one for each.
LEMMA SelectedAre ==
  ASSUME IInv, NEW asked, NEW mask, Selects(mask, Wanted(asked))
  PROVE  /\ InUse(mask.slots)
         /\ \A s \in mask.slots : slot_to_id[s] \in Wanted(asked)
         /\ \A i \in Wanted(asked) : \E s \in mask.slots : slot_to_id[s] = i
         /\ Cardinality(mask.slots) = Cardinality(Wanted(asked))
<1> DEFINE S == mask.slots
           f == [s \in S |-> slot_to_id[s]]
<1>1. S \subseteq 1..Len(slot_to_id) /\ {slot_to_id[s] : s \in S} = Wanted(asked)
  BY DEF Selects
<1>2. InUse(S)
  <2>1. /\ Live = Elements(slot_to_id)
        /\ \A s \in 1..Len(slot_to_id) : id_to_slot[slot_to_id[s]] = s
        /\ rows \in Seq(Vectors) /\ Len(rows) = Len(slot_to_id)
        /\ slot_to_id \in Seq(Ids) /\ Ids \subseteq Int
    BY GraphConstantsOK DEF IInv, Tables, NodesAligned, GraphConstantsOK
  <2>2. \A s \in 1..Len(slot_to_id) : slot_to_id[s] \in Ids /\ slot_to_id[s] \in Elements(slot_to_id)
                                      /\ rows[s] \in Vectors
    BY <2>1 DEF Elements
  <2>3. QED
    BY <1>1, <2>1, <2>2 DEF InUse
<1>3. IsFiniteSet(S)
  <2>1. Len(slot_to_id) \in Int
    BY DEF IInv, Tables
  <2>2. IsFiniteSet(1..Len(slot_to_id))
    BY <2>1, FS_Interval
  <2>3. QED
    BY <1>1, <2>2, FS_Subset
<1>4. DOMAIN f = S /\ f = [s \in S |-> f[s]] /\ \A s, t \in S : f[s] = f[t] => s = t
  BY <1>2 DEF InUse
<1>5. {f[s] : s \in S} = Wanted(asked)
  BY <1>1
<1> HIDE DEF f, S
<1>6. Cardinality(S) = Cardinality(Wanted(asked))
  BY <1>3, <1>4, <1>5, ImageIsAsLarge
<1>7. QED
  BY <1>1, <1>2, <1>6 DEF S

\* All of them have a path today.
LEMMA PathsCover ==
  ASSUME IInv, NEW asked, IsPolicyView(asked.view), NEW mask, Selects(mask, Wanted(asked))
  PROVE  mask.slots \subseteq DOMAIN PathsBySlot(Visits(asked.view))
<1> DEFINE p == asked.view
<1>1. DOMAIN PathsBySlot(Visits(p)) = PolicyMask(p).slots
  BY PathsFit
<1>2. PolicyMask(p).slots = {id_to_slot[i] : i \in VisitedIds(Visits(p)) \cap Live}
  BY DEF PolicyMask, MaskOf
<1>3. Wanted(asked) \subseteq VisitedIds(Visits(p))
  BY PolicyViewsSelect DEF Wanted
<1>4. \A s \in mask.slots : /\ slot_to_id[s] \in Wanted(asked) /\ slot_to_id[s] \in Live
                            /\ id_to_slot[slot_to_id[s]] = s
  BY SelectedAre DEF InUse
<1>5. QED
  BY <1>1, <1>2, <1>3, <1>4

\* A ranked answer, with the slots that were fetched for it and their paths.
RankedBy(asked, mask, hits, current, slots, paths) ==
  /\ slots \in Prefetched(asked.query, asked.k, mask, asked.blend) /\ IsPaths(paths)
  /\ hits = FirstOf(HybridHits(asked.query, slots, paths, ScoresOf(asked, mask), asked.blend),
                    asked.k)
  /\ (current => paths = PathsBySlot(Visits(asked.view)))
  /\ asked.kind # "plain" /\ asked.blend \in BlendConfigs /\ IsPolicyView(asked.view)
  /\ IsScores(ScoresOf(asked, mask))

\* Every ranked answer is one.
LEMMA RankedAs ==
  ASSUME IInv, NEW asked, NEW mask, NEW hits, NEW current, RankedToday(asked, mask, hits, current)
  PROVE  \E slots, paths : RankedBy(asked, mask, hits, current, slots, paths)
<1>1. /\ asked.kind # "plain" /\ asked.blend \in BlendConfigs /\ IsPolicyView(asked.view)
      /\ (asked.kind = "hybrid" => asked.list \in Seq([id : Nat, score : Floats]))
  BY SearchConstantsOK DEF RankedToday, SearchConstantsOK
<1>2. PICK paths : /\ IsPaths(paths) /\ Ranked(asked, mask, hits, paths)
                   /\ (current => paths = PathsBySlot(Visits(asked.view)))
  BY DEF RankedToday
<1>3. PICK slots \in Prefetched(asked.query, asked.k, mask, asked.blend) :
        hits = FirstOf(HybridHits(asked.query, slots, paths, ScoresOf(asked, mask), asked.blend),
                       asked.k)
  BY <1>2 DEF Ranked
<1>4. IsScores(ScoresOf(asked, mask))
  BY <1>1, RequestScores
<1>5. RankedBy(asked, mask, hits, current, slots, paths)
  BY <1>1, <1>2, <1>3, <1>4 DEF RankedBy
<1>6. QED
  BY <1>5

\* What was fetched for a ranked answer, and how many hits it has.
FetchedFor(asked, mask, hits, slots, paths) ==
  /\ Fetched(slots, asked.k, mask, asked.blend)
  /\ Len(hits) = Min({asked.k, Cardinality(slots \cap DOMAIN paths)})

\* It holds of every ranked answer.
LEMMA RankedSlots ==
  ASSUME IInv, NEW asked, NEW mask, NEW hits, NEW slots, NEW paths,
         asked.k \in Nat, asked.query \in [Vectors -> Int], IsMask(mask), Usable(asked.k, mask),
         RankedBy(asked, mask, hits, TRUE, slots, paths)
  PROVE  FetchedFor(asked, mask, hits, slots, paths)
<1> DEFINE query == asked.query
           k == asked.k
           b == asked.blend
           scores == ScoresOf(asked, mask)
<1>1. /\ query \in [Vectors -> Int] /\ k \in Nat /\ IsPaths(paths) /\ IsScores(scores)
      /\ b \in BlendConfigs /\ slots \in Prefetched(query, k, mask, b) /\ Usable(k, mask)
      /\ hits = FirstOf(HybridHits(query, slots, paths, scores, b), k)
  BY DEF RankedBy
<1> HIDE DEF query, k, b, scores
<1>2. Fetched(slots, k, mask, b)
  BY <1>1, PrefetchedAre
<1>3. IsFiniteSet(slots) /\ InUse(slots)
  BY <1>2 DEF Fetched
<1>4. Len(FirstOf(HybridHits(query, slots, paths, scores, b), k))
        = Min({k, Cardinality(slots \cap DOMAIN paths)})
  BY <1>1, <1>3, RankedLength
<1>5. QED
  BY <1>1, <1>2, <1>4 DEF k, b, FetchedFor

\* An answer of today has all that is wanted, or as many as were asked for.
LEMMA AnswerSize ==
  ASSUME IInv, NEW asked, NEW mask, NEW hits, NEW trace,
         WellAnswered(asked, mask, hits, trace, TRUE)
  PROVE  Len(hits) = Min({asked.k, Cardinality(Wanted(asked))})
<1> DEFINE k == asked.k
           all == Cardinality(mask.slots)
<1>1. /\ k \in Nat /\ asked.query \in [Vectors -> Int] /\ IsMask(mask) /\ Usable(k, mask)
      /\ Selects(mask, Wanted(asked))
      /\ \/ asked.kind = "plain" /\ hits \in PlainHits(asked.query, k, mask)
         \/ RankedToday(asked, mask, hits, TRUE)
  BY DEF WellAnswered
<1>2. all = Cardinality(Wanted(asked))
  BY <1>1, SelectedAre
<1>3. CASE asked.kind = "plain" /\ hits \in PlainHits(asked.query, k, mask)
  BY <1>1, <1>2, <1>3, PlainFound
<1>4. CASE RankedToday(asked, mask, hits, TRUE)
  <2>1. PICK slots, paths : RankedBy(asked, mask, hits, TRUE, slots, paths)
    BY <1>4, RankedAs
  <2>2. /\ Len(hits) = Min({k, Cardinality(slots \cap DOMAIN paths)})
        /\ slots \subseteq mask.slots /\ all \in Nat
        /\ Cardinality(slots) = prefetch_k(asked.blend, k, all)
    <3>1. asked.k \in Nat /\ asked.query \in [Vectors -> Int] /\ Usable(asked.k, mask)
      BY <1>1
    <3>2. FetchedFor(asked, mask, hits, slots, paths)
      BY <1>1, <2>1, <3>1, RankedSlots
    <3>3. QED
      BY <3>2 DEF FetchedFor, Fetched
  <2>3. slots \cap DOMAIN paths = slots
    BY <1>1, <2>1, <2>2, PathsCover DEF RankedBy
  <2> DEFINE l == prefetch_k(asked.blend, k, all)
  <2>4. l \in 0..all /\ (k <= all => k <= l) /\ (k > all => l = all)
    <3>1. asked.blend \in BlendConfigs
      BY <2>1 DEF RankedBy
    <3> HIDE DEF all, k
    <3>2. QED
      BY <1>1, <2>2, <3>1, PrefetchIs
  <2>5. Len(hits) = Min({k, l})
    BY <2>2, <2>3
  <2> HIDE DEF l, all, k
  <2>6. Min({k, l}) = Min({k, all})
    <3>1. l \in Int /\ all \in Int /\ k \in Int
      BY <1>1, <2>2, <2>4
    <3>2. Min({k, l}) = IF k <= l THEN k ELSE l
      BY <3>1, MinOfTwo
    <3>3. Min({k, all}) = IF k <= all THEN k ELSE all
      BY <3>1, MinOfTwo
    <3>4. QED
      BY <2>2, <2>4, <3>1, <3>2, <3>3
  <2>7. QED
    BY <1>2, <2>5, <2>6 DEF k, all
<1>5. QED
  BY <1>1, <1>3, <1>4

\* A search returns as many hits as it was asked for and its request leaves, all
\* from today's view, records and candidates, whichever of the masks, visits and
\* plans it combined were cached, when, and trimmed since (the search_graph_view
\* family, whose caches are filled and cleared one by one).
THEOREM AnswersStayWanted == SessionSpec => []AnswersWanted
<1>1. ASSUME IInv, SearchInv
      PROVE  AnswersWanted
  <2> DEFINE hits == answer.hits
             asked == answer.asked
             mask == answer.mask
  <2>1. CASE ~(Answered /\ answer.current)
    BY <2>1 DEF AnswersWanted
  <2>2. CASE Answered /\ answer.current
    <3>1. WellAnswered(asked, mask, hits, answer.trace, answer.current)
      BY <1>1, <2>2 DEF SearchInv, AnswerInv
    <3>2. WellAnswered(asked, mask, hits, answer.trace, TRUE)
      BY <2>2, <3>1 DEF WellAnswered, RankedToday
    <3>3. FindsHits(hits, mask, asked.query, asked.kind)
      BY <1>1, <3>1, AnswerFound
    <3>4. \A s \in mask.slots : slot_to_id[s] \in Wanted(asked)
      BY <1>1, <3>2, SelectedAre DEF WellAnswered
    <3>5. \A n \in DOMAIN hits : hits[n].id \in Wanted(asked)
      BY <3>3, <3>4 DEF FindsHits
    <3>6. Len(hits) = Min({asked.k, Cardinality(Wanted(asked))})
      BY <1>1, <3>2, AnswerSize
    <3>7. QED
      BY <3>5, <3>6 DEF AnswersWanted
  <2>3. QED
    BY <2>1, <2>2
<1>2. QED
  BY <1>1, SessionStays, PTL

\* The trace of an explained search has every hit among its nodes, each node once,
\* live, and after another one hop nearer that is linked to it
\* (explain_graph_search_with_policy_metadata_rerank_timed and debug_snapshot, which
\* put trace and hits together from separate caches).
LEMMA HitsStayExplained == SessionSpec => []HitsExplained
<1>1. ASSUME IInv, SearchInv
      PROVE  HitsExplained
  <2> DEFINE hits == answer.hits
             asked == answer.asked
             mask == answer.mask
             trace == answer.trace
             nodes_ == trace.nodes
             ids == [n \in DOMAIN nodes_ |-> nodes_[n].id]
             ranks == HitRanks(hits, trace)
  <2>1. CASE ~(Answered /\ answer.trace # NoTrace)
    BY <2>1 DEF HitsExplained
  <2>2. CASE Answered /\ answer.trace # NoTrace
    <3>1. WellAnswered(asked, mask, hits, trace, answer.current)
      BY <1>1, <2>2 DEF SearchInv, AnswerInv
    <3>2. IsTrace(trace, ViewIds(asked.view)) /\ Selects(mask, Wanted(asked))
      BY <2>2, <3>1 DEF WellAnswered
    <3>3. FindsHits(hits, mask, asked.query, asked.kind)
      BY <1>1, <3>1, AnswerFound
    <3>4. \A n \in DOMAIN hits : hits[n].id \in ViewIds(asked.view)
      <4>1. \A s \in mask.slots : slot_to_id[s] \in Wanted(asked)
        BY <1>1, <3>2, SelectedAre
      <4>2. QED
        BY <3>3, <4>1 DEF FindsHits, Wanted
    <3>5. /\ DOMAIN nodes_ = 1..Len(nodes_) /\ Len(nodes_) \in Nat
          /\ {nodes_[n].id : n \in DOMAIN nodes_} = ViewIds(asked.view)
          /\ ViewIds(asked.view) \subseteq Live
          /\ \A m, n \in DOMAIN nodes_ : nodes_[m].id = nodes_[n].id => m = n
          /\ \A n \in DOMAIN nodes_ : nodes_[n].depth > 0 =>
               \E m \in 1..(n - 1) : /\ nodes_[m].depth = nodes_[n].depth - 1
                                    /\ <<nodes_[m].id, nodes_[n].id>> \in DOMAIN edges
          /\ trace.edges = EdgesAmong(ViewIds(asked.view))
      BY <3>2 DEF IsTrace
    <3> HIDE DEF nodes_
    <3>6. Len(ids) = Len(nodes_) /\ DOMAIN ids = DOMAIN nodes_
          /\ \A n \in DOMAIN nodes_ : ids[n] = nodes_[n].id
      BY <3>5
    <3> HIDE DEF ids
    <3>7. Elements(ids) = ViewIds(asked.view) /\ IsDistinct(ids)
      BY <3>5, <3>6 DEF Elements, IsDistinct
    <3>8. {hits[n].id : n \in DOMAIN hits} \subseteq Elements(ids)
      BY <3>4, <3>7
    <3>9. ASSUME NEW n \in DOMAIN nodes_, nodes_[n].depth > 0
          PROVE  \E m \in 1..(n - 1) : /\ nodes_[m].depth = nodes_[n].depth - 1
                                      /\ <<ids[m], ids[n]>> \in trace.edges
      <4>1. PICK m \in 1..(n - 1) : /\ nodes_[m].depth = nodes_[n].depth - 1
                                   /\ <<nodes_[m].id, nodes_[n].id>> \in DOMAIN edges
        BY <3>5, <3>9
      <4>2. m \in DOMAIN nodes_
        BY <3>5
      <4>3. ids[m] = nodes_[m].id /\ ids[n] = nodes_[n].id
            /\ ids[m] \in ViewIds(asked.view) /\ ids[n] \in ViewIds(asked.view)
        BY <3>5, <3>6, <4>2
      <4>4. <<ids[m], ids[n]>> \in trace.edges
        BY <3>5, <4>1, <4>3 DEF EdgesAmong
      <4>5. QED
        BY <4>1, <4>4
    <3>10. trace.edges = EdgesAmong(Elements(ids))
      BY <3>5, <3>7
    <3>11. ASSUME NEW r \in DOMAIN hits
           PROVE  r \in Elements(ranks)
      <4>1. PICK n \in DOMAIN nodes_ : nodes_[n].id = hits[r].id
        BY <3>4, <3>5
      <4>2. {q \in DOMAIN hits : hits[q].id = nodes_[n].id} = {r}
        BY <3>3, <4>1 DEF FindsHits
      <4>3. r \in Int
        BY <3>3 DEF FindsHits
      <4>4. Max({r}) = r
        BY <4>3, MaxOfTwo
      <4>5. ranks = [m \in DOMAIN nodes_ |->
                       LET same == {q \in DOMAIN hits : hits[q].id = nodes_[m].id}
                       IN  IF same = {} THEN 0 ELSE Max(same)]
        BY DEF HitRanks, nodes_
      <4> HIDE DEF ranks
      <4>6. ranks[n] = r
        BY <4>2, <4>4, <4>5
      <4>7. n \in 1..Len(ranks)
        BY <3>5, <4>5
      <4>8. QED
        BY <4>6, <4>7 DEF Elements
    <3>12. QED
      BY <2>2, <3>5, <3>7, <3>8, <3>9, <3>10, <3>11 DEF HitsExplained, nodes_, ids
  <2>3. QED
    BY <2>1, <2>2
<1>2. QED
  BY <1>1, SessionStays, PTL

\* A list no longer than zero places has no head.
LEMMA NoneAskedFor ==
  ASSUME NEW query \in [Vectors -> Int], NEW slots, IsFiniteSet(slots), InUse(slots),
         NEW paths, IsPaths(paths), NEW scores, IsScores(scores), NEW b \in BlendConfigs
  PROVE  FirstOf(HybridHits(query, slots, paths, scores, b), 0) = << >>
<1> DEFINE list == HybridHits(query, slots, paths, scores, b)
<1>1. /\ list \in Seq(Scored) /\ Len(list) = Cardinality(slots \cap DOMAIN paths)
      /\ \A n \in DOMAIN list :
           \E s \in slots \cap DOMAIN paths :
             list[n].id = slot_to_id[s] /\ list[n].vector = ScoreAt(query, s)
      /\ \A m, n \in DOMAIN list : list[m].id = list[n].id => m = n
  BY HybridHitsAre
<1> HIDE DEF list
<1>2. Len(list) \in Nat
  BY <1>1
<1>3. Min({0, Len(list)}) = 0
  BY <1>2, MinOfTwo
<1>4. FirstOf(list, 0) = << >>
  BY <1>1, <1>3 DEF FirstOf
<1>5. QED
  BY <1>4 DEF list

\* When no fewer slots are prefetched than the mask selects, a rerank or hybrid
\* search returns the head of the ranking of the whole view, whatever the limits,
\* weights and caches (prefetch_k and the hits_from_results_for_query family).
THEOREM BlendStaysBest == SessionSpec => []BestBlend
<1>1. ASSUME IInv, SearchInv
      PROVE  BestBlend
  <2> DEFINE hits == answer.hits
             asked == answer.asked
             mask == answer.mask
             selected == Cardinality(mask.slots)
             factor == asked.blend.prefetch_factor
             paths == PathsBySlot(Visits(asked.view))
             scores == ScoresOf(asked, mask)
  <2>1. CASE ~(Answered /\ answer.current /\ asked.kind # "plain")
    BY <2>1 DEF BestBlend
  <2>2. CASE Answered /\ answer.current /\ asked.kind # "plain"
    <3>1. WellAnswered(asked, mask, hits, answer.trace, TRUE)
      BY <1>1, <2>2 DEF SearchInv, AnswerInv, WellAnswered, RankedToday
    <3>2. /\ asked.k \in Nat /\ asked.query \in [Vectors -> Int]
          /\ IsMask(mask) /\ Usable(asked.k, mask) /\ Selects(mask, Wanted(asked))
          /\ RankedToday(asked, mask, hits, TRUE)
      BY <2>2, <3>1 DEF WellAnswered
    <3>3. PICK slots, ps : RankedBy(asked, mask, hits, TRUE, slots, ps)
      BY <1>1, <3>2, RankedAs
    <3>4. /\ ps = paths /\ IsPaths(paths) /\ IsScores(scores)
          /\ hits = FirstOf(HybridHits(asked.query, slots, paths, scores, asked.blend), asked.k)
          /\ asked.blend \in BlendConfigs
      BY <3>3 DEF RankedBy
    <3>5. FetchedFor(asked, mask, hits, slots, ps)
      BY <1>1, <3>2, <3>3, RankedSlots
    <3>6. /\ IsFiniteSet(slots) /\ InUse(slots) /\ IsFiniteSet(mask.slots) /\ selected \in Nat
          /\ (prefetch_k(asked.blend, asked.k, selected) = selected => slots = mask.slots)
      BY <3>5 DEF FetchedFor, Fetched
    <3>7. InUse(mask.slots)
      BY <1>1, <3>2, SelectedAre
    <3>8. Blended(asked, mask) = HybridHits(asked.query, mask.slots, paths, scores, asked.blend)
      BY DEF Blended, ScoresOf
    <3>9. ASSUME asked.blend.min_prefetch >= selected \/ asked.k * factor >= selected
          PROVE  hits = FirstOf(Blended(asked, mask), asked.k)
      <4>1. CASE asked.k = 0
        <5>1. hits = << >>
          BY <3>2, <3>4, <3>6, <4>1, NoneAskedFor
        <5>2. FirstOf(Blended(asked, mask), asked.k) = << >>
          BY <3>2, <3>4, <3>6, <3>7, <3>8, <4>1, NoneAskedFor
        <5>3. QED
          BY <5>1, <5>2
      <4>2. CASE asked.k # 0
        <5> DEFINE k == asked.k
                   b == asked.blend
        <5>1. k \in Nat /\ k # 0 /\ b \in BlendConfigs /\ selected \in Nat
              /\ (b.min_prefetch >= selected \/ k * b.prefetch_factor >= selected)
          BY <3>2, <3>4, <3>6, <3>9, <4>2
        <5> HIDE DEF k, b, selected
        <5>2. prefetch_k(b, k, selected) = selected
          BY <5>1, PrefetchIs
        <5>3. slots = mask.slots
          BY <3>6, <5>2 DEF k, b
        <5>4. QED
          BY <3>4, <3>8, <5>3
      <4>3. QED
        BY <4>1, <4>2
    <3>10. QED
      BY <3>9 DEF BestBlend
  <2>3. QED
    BY <2>1, <2>2
<1>2. QED
  BY <1>1, SessionStays, PTL

\* The scale is that of the scores inside the mask: others do not change it.
LEMMA ScaledLocally ==
  ASSUME NEW few, NEW many, NEW b, NEW mask,
         mask.slots \subseteq DOMAIN few, mask.slots \subseteq DOMAIN many,
         \A s \in mask.slots : few[s] = many[s]
  PROVE  \A s \in mask.slots : /\ s \in DOMAIN Scaled(few, b, mask)
                               /\ s \in DOMAIN Scaled(many, b, mask)
                               /\ Scaled(few, b, mask)[s] = Scaled(many, b, mask)[s]
<1> DEFINE inside == mask.slots
           values == {many[s] : s \in inside}
           low == Min(values)
           high == Max(values)
           max_abs == Max(values \cup {-x : x \in values} \cup {0})
           scale(x) ==
             CASE b.normalization = "min_max" ->
                    IF high > low THEN ((x - low) * Unit) \div (high - low) ELSE Unit
               [] b.normalization = "max_abs" ->
                    IF max_abs > 0 THEN (x * Unit) \div max_abs ELSE x
               [] OTHER -> x
<1>1. inside = DOMAIN few \cap mask.slots /\ inside = DOMAIN many \cap mask.slots
  OBVIOUS
<1>2. values = {few[s] : s \in inside}
  OBVIOUS
<1>3. Scaled(many, b, mask)
        = [s \in DOMAIN many |-> IF s \in inside THEN scale(many[s]) ELSE many[s]]
  BY <1>1, Zenon DEF Scaled
<1>4. Scaled(few, b, mask)
        = [s \in DOMAIN few |-> IF s \in inside THEN scale(few[s]) ELSE few[s]]
  BY <1>1, <1>2, Zenon DEF Scaled
<1> HIDE DEF scale
<1>5. QED
  BY <1>3, <1>4

\* The wanted part of a list of candidates: it has the slots of the mask, and their
\* scores, of the whole list.
ScoresKept(asked, mask, wanted) ==
  /\ wanted \in Seq([id : Nat, score : Floats])
  /\ mask.slots \subseteq CandidateMask(wanted).slots
  /\ CandidateMask(wanted).slots \subseteq CandidateMask(asked.list).slots
  /\ \A s \in mask.slots : CandidateScores(wanted)[s] = CandidateScores(asked.list)[s]

\* EntriesAt picks it out so.
LEMMA WantedList ==
  ASSUME IInv, NEW asked, asked.list \in Seq([id : Nat, score : Floats]),
         NEW mask, Selects(mask, Wanted(asked)),
         NEW wanted, wanted = EntriesAt(asked.list, {n \in DOMAIN asked.list :
                                                       asked.list[n].id \in Wanted(asked)})
  PROVE  ScoresKept(asked, mask, wanted)
<1> DEFINE list == asked.list
           ids == Wanted(asked)
           places == {n \in DOMAIN list : list[n].id \in ids}
           Entry == [id : Nat, score : Floats]
<1>1. list \in Seq(Entry) /\ places \in SUBSET (DOMAIN list) /\ wanted = EntriesAt(list, places)
  OBVIOUS
<1>2. ids \subseteq CandidateIds(list)
  BY <1>1, SearchConstantsOK DEF Wanted, SearchConstantsOK
<1>3. \A s \in mask.slots : /\ slot_to_id[s] \in ids /\ slot_to_id[s] \in Live
                            /\ id_to_slot[slot_to_id[s]] = s
  BY SelectedAre DEF InUse
<1> HIDE DEF Entry
<1>4. /\ wanted \in Seq(Entry)
      /\ \A n \in DOMAIN wanted : \E m \in places : wanted[n] = list[m]
      /\ \A m \in places : \E n \in DOMAIN wanted : wanted[n] = list[m]
  <2>1. EntriesAt(list, places) \in Seq(Entry)
    BY <1>1, EntriesListed
  <2>2. \A n \in DOMAIN EntriesAt(list, places) : \E m \in places : EntriesAt(list, places)[n] = list[m]
    BY <1>1, EntriesListed
  <2>3. \A m \in places : \E n \in DOMAIN EntriesAt(list, places) : EntriesAt(list, places)[n] = list[m]
    BY <1>1, EntriesListed
  <2>4. QED
    BY <1>1, <2>1, <2>2, <2>3
<1> HIDE DEF list, ids
<1>5. CandidateIds(wanted) = ids
  <2>1. ASSUME NEW i \in CandidateIds(wanted)
        PROVE  i \in ids
    BY <1>4 DEF CandidateIds
  <2>2. ASSUME NEW i \in ids
        PROVE  i \in CandidateIds(wanted)
    <3>1. PICK m \in DOMAIN list : list[m].id = i
      BY <1>2 DEF CandidateIds
    <3>2. PICK n \in DOMAIN wanted : wanted[n] = list[m]
      BY <1>4, <3>1
    <3>3. QED
      BY <3>1, <3>2 DEF CandidateIds
  <2>3. QED
    BY <2>1, <2>2
<1>6. \A l : CandidateMask(l).slots = {id_to_slot[i] : i \in CandidateIds(l) \cap Live}
  BY DEF CandidateMask, MaskOf
<1> DEFINE inside == CandidateMask(wanted).slots
           outside == CandidateMask(list).slots
<1>12. /\ inside = {id_to_slot[i] : i \in ids \cap Live}
       /\ outside = {id_to_slot[i] : i \in CandidateIds(list) \cap Live}
  BY <1>5, <1>6
<1> HIDE DEF inside, outside
<1>7. mask.slots \subseteq CandidateMask(wanted).slots
  <2>1. ASSUME NEW s \in mask.slots
        PROVE  s \in inside
    BY <1>3, <1>12
  <2>2. QED
    BY <2>1 DEF inside
<1>8. CandidateMask(wanted).slots \subseteq CandidateMask(list).slots
  <2>1. \A s \in inside : s \in outside
    BY <1>2, <1>12
  <2>2. QED
    BY <2>1 DEF inside, outside
<1>9. ASSUME NEW i \in ids
      PROVE  Given(wanted, i) = Given(list, i)
  <2>1. ASSUME NEW x \in Given(wanted, i)
        PROVE  x \in Given(list, i)
    <3>1. PICK n \in DOMAIN wanted : wanted[n].id = i /\ x = FiniteOr(wanted[n].score, 0)
      BY <2>1 DEF Given
    <3>2. PICK m \in places : wanted[n] = list[m]
      BY <1>4
    <3>3. QED
      BY <3>1, <3>2 DEF Given
  <2>2. ASSUME NEW x \in Given(list, i)
        PROVE  x \in Given(wanted, i)
    <3>1. PICK m \in DOMAIN list : list[m].id = i /\ x = FiniteOr(list[m].score, 0)
      BY <2>2 DEF Given
    <3>2. PICK n \in DOMAIN wanted : wanted[n] = list[m]
      BY <1>4, <3>1
    <3>3. QED
      BY <3>1, <3>2 DEF Given
  <2>3. QED
    BY <2>1, <2>2
<1>10. ASSUME NEW s \in mask.slots
       PROVE  CandidateScores(wanted)[s] = CandidateScores(list)[s]
  <2>1. s \in CandidateMask(wanted).slots /\ s \in CandidateMask(list).slots
    BY <1>7, <1>8
  <2>2. CandidateScores(wanted)[s] = Max(Given(wanted, slot_to_id[s]))
    BY <1>4, <2>1, ScoresAre DEF Entry
  <2>3. CandidateScores(list)[s] = Max(Given(list, slot_to_id[s]))
    BY <1>1, <2>1, ScoresAre DEF Entry
  <2>4. QED
    BY <1>3, <1>9, <2>2, <2>3
<1>11. QED
  BY <1>4, <1>7, <1>8, <1>10 DEF Entry, list, ScoresKept

\* Two rankings of the same slots, whose scores agree on them, are one.
LEMMA SameRanking ==
  ASSUME NEW query, NEW slots, NEW paths, NEW few, NEW many, NEW b,
         \A s \in slots : s \in DOMAIN few /\ s \in DOMAIN many /\ few[s] = many[s]
  PROVE  HybridHits(query, slots, paths, few, b) = HybridHits(query, slots, paths, many, b)
<1>1. \A s \in slots : HybridHit(query, s, paths, few, b) = HybridHit(query, s, paths, many, b)
  BY DEF HybridHit
<1>2. {HybridHit(query, s, paths, few, b) : s \in slots \cap DOMAIN paths}
        = {HybridHit(query, s, paths, many, b) : s \in slots \cap DOMAIN paths}
  BY <1>1
<1>3. QED
  BY <1>2, Zenon DEF HybridHits

\* Candidates outside the view, the filter or the memory do not change the scale of
\* those inside: a hybrid search returns what it would return for the wanted
\* candidates alone (normalize_candidate_score_map, under the narrowed mask).
THEOREM NormalizationStaysLocal == SessionSpec => []NormalizationLocal
<1>1. ASSUME IInv, SearchInv
      PROVE  NormalizationLocal
  <2> DEFINE hits == answer.hits
             asked == answer.asked
             mask == answer.mask
             list == asked.list
             view == asked.view
             filter == asked.filter
             b == asked.blend
             wanted == EntriesAt(list, {n \in DOMAIN list : list[n].id \in Wanted(asked)})
             narrow == Narrowed(PolicyPlanMask(view, filter), wanted)
             paths == PathsBySlot(Visits(view))
             many == Scaled(CandidateScores(list), b, mask)
             few == Scaled(CandidateScores(wanted), b, mask)
  <2>1. CASE ~(Answered /\ asked.kind = "hybrid")
    BY <2>1 DEF NormalizationLocal
  <2>2. CASE Answered /\ asked.kind = "hybrid"
    <3>1. WellAnswered(asked, mask, hits, answer.trace, answer.current)
      BY <1>1, <2>2 DEF SearchInv, AnswerInv
    <3>2. RankedToday(asked, mask, hits, answer.current)
      BY <2>2, <3>1 DEF WellAnswered
    <3>3. /\ answer.current /\ asked.list \in CandidateLists /\ IsFilter(filter)
          /\ IsPolicyView(view) /\ b \in BlendConfigs
          /\ mask = Narrowed(FreshPlan(PolicyMask(view), filter).mask, list)
      BY <2>2, <3>2 DEF RankedToday
    <3>4. /\ RankedToday(asked, mask, hits, TRUE)
          /\ Selects(mask, Wanted(asked)) /\ asked.query \in [Vectors -> Int] /\ asked.k \in Nat
          /\ IsMask(mask) /\ Usable(asked.k, mask)
      BY <3>1, <3>2, <3>3 DEF WellAnswered, RankedToday
    <3>5. asked.list \in Seq([id : Nat, score : Floats])
      BY <3>3, SearchConstantsOK DEF SearchConstantsOK
    <3>6. /\ wanted \in Seq([id : Nat, score : Floats])
          /\ mask.slots \subseteq CandidateMask(wanted).slots
          /\ CandidateMask(wanted).slots \subseteq CandidateMask(list).slots
          /\ \A s \in mask.slots : CandidateScores(wanted)[s] = CandidateScores(list)[s]
      <4>1. PICK w : w = wanted
        OBVIOUS
      <4>2. w = EntriesAt(asked.list, {n \in DOMAIN asked.list : asked.list[n].id \in Wanted(asked)})
        BY <4>1
      <4> HIDE DEF wanted
      <4>3. /\ w \in Seq([id : Nat, score : Floats])
            /\ mask.slots \subseteq CandidateMask(w).slots
            /\ CandidateMask(w).slots \subseteq CandidateMask(asked.list).slots
            /\ \A s \in mask.slots : CandidateScores(w)[s] = CandidateScores(asked.list)[s]
        <5> HIDE DEF asked, mask
        <5>1. ScoresKept(asked, mask, w)
          BY <1>1, <3>4, <3>5, <4>2, WantedList
        <5>2. QED
          BY <5>1 DEF ScoresKept
      <4>4. QED
        BY <4>1, <4>3
    <3>7. wanted # AnyIds /\ list # AnyIds
      <4> HIDE DEF wanted
      <4>1. QED
        BY <3>5, <3>6, SearchConstantsOK DEF SearchConstantsOK
    <3> HIDE DEF wanted
    <3>8. narrow = mask
      <4> DEFINE whole == FreshPlan(PolicyMask(view), filter).mask
      <4>1. PolicyPlanMask(view, filter) = whole
        BY <1>1, <3>3, PolicyViewsSelect
      <4> HIDE DEF whole
      <4>2. /\ mask = [whole EXCEPT !.slots = @ \cap CandidateMask(list).slots]
            /\ narrow = [whole EXCEPT !.slots = @ \cap CandidateMask(wanted).slots]
        BY <3>3, <3>7, <4>1 DEF Narrowed, whole
      <4>3. whole = [len |-> whole.len, slots |-> whole.slots]
        BY DEF whole, FreshPlan, PolicyMask, MaskOf
      <4>4. mask = [len |-> whole.len, slots |-> whole.slots \cap CandidateMask(list).slots]
        BY <4>2, <4>3
      <4>5. whole.slots \cap CandidateMask(list).slots = whole.slots \cap CandidateMask(wanted).slots
        BY <3>6, <4>4
      <4>6. QED
        BY <4>2, <4>5
    <3>9. PICK slots, ps : RankedBy(asked, mask, hits, TRUE, slots, ps)
      BY <1>1, <3>4, RankedAs
    <3>10. /\ ps = paths /\ slots \in Prefetched(asked.query, asked.k, mask, b)
           /\ hits = FirstOf(HybridHits(asked.query, slots, paths, many, b), asked.k)
      BY <2>2, <3>9 DEF RankedBy, ScoresOf
    <3>11. slots \subseteq mask.slots
      <4>1. FetchedFor(asked, mask, hits, slots, ps)
        BY <1>1, <3>4, <3>9, RankedSlots
      <4>2. QED
        BY <4>1 DEF FetchedFor, Fetched
    <3>12. \A s \in mask.slots : s \in DOMAIN few /\ s \in DOMAIN many /\ few[s] = many[s]
      <4> DEFINE one == CandidateScores(wanted)
                 all == CandidateScores(list)
      <4>1. mask.slots \subseteq DOMAIN one
        BY <1>1, <3>6, ScoresAre
      <4>2. mask.slots \subseteq DOMAIN all
        BY <1>1, <3>5, <3>6, ScoresAre
      <4>3. \A s \in mask.slots : one[s] = all[s]
        BY <3>6
      <4> HIDE DEF one, all
      <4>4. \A s \in mask.slots : /\ s \in DOMAIN Scaled(one, b, mask)
                                  /\ s \in DOMAIN Scaled(all, b, mask)
                                  /\ Scaled(one, b, mask)[s] = Scaled(all, b, mask)[s]
        <5> HIDE DEF b, mask
        <5>1. QED
          BY <4>1, <4>2, <4>3, ScaledLocally
      <4>5. QED
        BY <4>4 DEF one, all
    <3> HIDE DEF few, many
    <3>13. HybridHits(asked.query, slots, paths, few, b) = HybridHits(asked.query, slots, paths, many, b)
      <4>1. \A s \in slots : s \in DOMAIN few /\ s \in DOMAIN many /\ few[s] = many[s]
        BY <3>11, <3>12
      <4>2. QED
        BY <4>1, SameRanking
    <3>14. PathsBySlot(VisitsOf(view)) = paths
      BY <1>1, LookupsAreFresh
    <3>15. HybridSearchHits(view, filter, wanted, asked.k, asked.query, b)
             = {FirstOf(HybridHits(asked.query, t, paths, few, b), asked.k) :
                  t \in Prefetched(asked.query, asked.k, mask, b)}
      BY <3>8, <3>14, Zenon DEF HybridSearchHits, few
    <3>16. hits \in HybridSearchHits(view, filter, wanted, asked.k, asked.query, b)
      BY <3>10, <3>13, <3>15
    <3>17. QED
      BY <3>16 DEF NormalizationLocal, wanted
  <2>3. QED
    BY <2>1, <2>2
<1>2. QED
  BY <1>1, SessionStays, PTL

\* A preset never tunes its budgets to nothing: a search from a seed in the memory
\* visits it at least, whatever numbers the preset holds (GraphSearchPreset::tune).
LEMMA PresetsVisit ==
  ASSUME IInv
  PROVE  PresetNeverStarves
<1>1. ASSUME NEW preset \in Presets, NEW k \in Ks, preset.seeds \cap Live # {}
      PROVE  Visits(Tune(preset, k)) # << >>
  <2>1. k \in Nat
    BY SearchConstantsOK DEF SearchConstantsOK
  <2>2. Len(slot_to_id) > 0
    <3>1. Live = Elements(slot_to_id) /\ slot_to_id \in Seq(Ids)
      BY DEF IInv, Tables, NodesAligned
    <3>2. Elements(slot_to_id) # {}
      BY <1>1, <3>1
    <3>3. QED
      BY <3>1, <3>2 DEF Elements
  <2> DEFINE p == Tune(preset, k)
  <2>3. /\ IsPolicyView(p) /\ p.seeds = preset.seeds
        /\ p.max_nodes > 0 /\ p.max_active_blocks > 0
    BY <2>1, <2>2, Tuned
  <2> HIDE DEF p
  <2>4. IsPolicyKey(p) /\ IsGraph(edges, id_to_slot)
    BY <2>3, ViewsDiffer, MemoryIsGraph
  <2>5. p.seeds \cap DOMAIN id_to_slot # {} /\ p.max_nodes # 0 /\ p.max_active_blocks # 0
    BY <1>1, <2>3 DEF Live
  <2>6. WeightedVisits(edges, id_to_slot, p) # << >>
    BY <2>4, <2>5, SeedsVisited
  <2>7. QED
    BY <2>6 DEF Visits, p
<1>2. QED
  BY <1>1 DEF PresetNeverStarves

\* The trace of an explained search has every hit among its nodes, each node once,
\* live, and after another one hop nearer that is linked to it, whatever a preset
\* made of the budgets of the search (explain_graph_search_with_policy_metadata_-
\* rerank_timed, debug_snapshot and GraphSearchPreset::tune).
THEOREM TracesStayExplained == SessionSpec => []TracesExplain
<1>1. ASSUME IInv
      PROVE  PresetNeverStarves
  BY <1>1, PresetsVisit
<1>2. HitsExplained /\ PresetNeverStarves => TracesExplain
  BY DEF TracesExplain
<1>3. QED
  BY <1>1, <1>2, SessionStays, HitsStayExplained, PTL

=============================================================================
