CONSTANTS
  WordBits = 4
  BLOCK = 2
  CHUNK = 2
  Lens <- SomeLens
  Scores = {0, 1, 2}
  Ks = {1, 2, 3}
  Kernels = {"scalar", "avx2", "avx512bw"}
SPECIFICATION Spec
INVARIANTS TypeOK RepresentsASet IterationExact SearchIsExact
