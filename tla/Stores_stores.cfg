CONSTANTS
  Vectors = {"u", "v", "w", "nan"}
  BadVectors = {"nan"}
  Readers = {r1}
  MaxHandle = 4
  Anything = Anything
  Kinds = {"langchain", "llama_index", "haystack"}
  Documents <- SomeDocuments
  Uses <- SharedOrSaved
  NoFile = NoFile
  Torn = Torn
SPECIFICATION Spec
INVARIANTS TypeOK TablesAgree  SearchUndisturbed
PROPERTIES CallsAsPromised
