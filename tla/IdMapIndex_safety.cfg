CONSTANTS
  Vectors = {v1, v2, nan}
  BadVectors = {nan}
  Dims = {0, 8}
  Threads = {t1}
  Constructors = {NoDim, 8}
  Ids = {a, b, c}
  MinSamples = 2
  MaxBatch = 2
  MaxSlots = 3
  NoDim = NoDim
  NoCal = NoCal
  NoCache = NoCache
  NoFile = NoFile
  Torn = Torn
SYMMETRY Symmetry
SPECIFICATION SpecIds
INVARIANTS TypeOKIds TablesInverse HitsAreAllowed
PROPERTIES ImplementsVectorStore
