CONSTANTS
  Vectors = {v1, v2, nan}
  BadVectors = {nan}
  Dims = {0, 8, 12, 16}
  Threads = {t1, t2}
  Constructors = {NoDim, 8}
  Ids = {}
  MinSamples = 2
  MaxBatch = 2
  MaxSlots = 3
  NoDim = NoDim
  NoCal = NoCal
  NoCache = NoCache
  NoFile = NoFile
  Torn = Torn
SPECIFICATION FairSpec
INVARIANTS TypeOK StorageAligned OneCalibration CachesCurrent FileSound
PROPERTIES CommitsKept SearchReturns
