CONSTANTS
  Documents <- AllDocuments
  Facts = {"x"}
  Names = {"n1", "n2"}
  NoName = NoName
  ContentIds = {"c1", "c2"}
  Hashes = {h1, h2}
  Tasks = {t1, t2}
  Uses <- CallsAndSaves
  MaxHandle = 3
  NoIndex = NoIndex
  Idle = Idle
  NoFile = NoFile
  Torn = Torn
SYMMETRY Symmetry
SPECIFICATION Spec
INVARIANTS TypeOK HandlesMatch LookupsAgree HandlesFresh
PROPERTIES OnlyOwnGeneration
