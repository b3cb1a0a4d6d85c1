CONSTANTS
  Vectors = {"u", "v", "w", "nan"}
  BadVectors = {"nan"}
  Readers = {r1}
  MaxHandle = 4
  Anything = Anything
  Kinds = {"llama_index"}
  Documents <- TwoDocuments
  Uses <- SharedTwo
  NoFile = NoFile
  Torn = Torn
SPECIFICATION Spec
INVARIANTS HitsNameTheirDocument
