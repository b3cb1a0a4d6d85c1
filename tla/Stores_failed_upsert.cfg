CONSTANTS
  Vectors = {"u", "v", "w", "nan"}
  BadVectors = {"nan"}
  Readers = {r1}
  MaxHandle = 4
  Anything = Anything
  Kinds = {"langchain"}
  Documents <- SomeDocuments
  Uses <- Shared
  NoFile = NoFile
  Torn = Torn
SPECIFICATION Spec

PROPERTIES FailedUpsertKeeps
