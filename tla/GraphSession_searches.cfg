CONSTANTS
  Ids = {1, 2, 3}
  Vectors = {"near", "far"}
  BadVectors = {}
  Tags = {"x"}
  Sources = {}
  NoSource = NoSource
  NoTime = NoTime
  NoParent = NoParent
  BadWeight = BadWeight
  BLOCK = 2
  MaxBatch = 1
  Weights = {1}
  LinkCalls <- ChainCalls
  Metadata <- BothRecords
  ViewKeys <- OneView
  PolicyKeys <- OnePolicy
  Filters <- TagFilter
  Budgets <- KeepPlans
  Unit = 4
  NotFinite = NotFinite
  AnyIds = AnyIds
  Queries <- OneQuery
  Ks = {1, 2}
  Blends <- SomeBlends
  CandidateLists <- SomeLists
  Presets <- EmptyPreset
  NoView = NoView
  NoAnswer = NoAnswer
  Shapes = {"a", "b"}
  OldPairs <- OldPair
  NoFile = NoFile
  Torn = Torn
  Uses <- SomeUses
SPECIFICATION SessionSpec
INVARIANTS MemorySound HitsLive AnswersWanted BestBlend NormalizationLocal PreparedCurrent TracesExplain
PROPERTIES WritesRestored
