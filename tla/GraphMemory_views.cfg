CONSTANTS
  Ids = {1, 2, 3, 4}
  Vectors = {"v1", "v2", "nan"}
  BadVectors = {"nan"}
  Tags = {"x", "y"}
  Sources = {"s", "r"}
  NoSource = NoSource
  NoTime = NoTime
  NoParent = NoParent
  BadWeight = BadWeight
  BLOCK = 2
  MaxBatch = 2
  Weights <- AllWeights
  LinkCalls <- AllLinks
  Metadata <- MixedRecords
  ViewKeys <- SeedViews
  PolicyKeys <- AllPolicies
  Filters <- SomeFilters
  Budgets <- SomeBudgets
SPECIFICATION MCSpec
INVARIANTS TypeOK ViewsCurrent PolicyViewsCurrent BestFirst MetadataMasksCurrent PlansCurrent
PROPERTIES ImplementsVectorStore
