SPECIFICATION Spec
CONSTANTS
  Null = Null
  Level = 3
  TotalPages = 5
  MetaPages = 2
  MinBlockSize = 2
  MaxBlockSize = 3
  FactorNum = 11
  FactorDen = 10
  MultiHead = 1
  AllocHead = 1
  ChunkHead = 1
  FirstSize = 15
  TotalSizes = {26}
  MaxDeaths = 2
  Parts = {"shared"}
INVARIANT HandsDisjoint
CHECK_DEADLOCK FALSE
