CONSTANTS
  Documents <- Twins
  Facts = {"x"}
  Names = {"n1", "n2"}
  NoName = NoName
  ContentIds = {"c1", "c2"}
  Hashes = {h1, h2}
  Tasks = {t1}
  Uses <- OnlyDrops
  MaxHandle = 3
  NoIndex = NoIndex
  Idle = Idle
  NoFile = NoFile
  Torn = Torn
SPECIFICATION FairSpec
PROPERTIES OthersLeftAlone
