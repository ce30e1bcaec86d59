\* Clients may stop, and a destroyed cache or arena does nothing more.
SPECIFICATION Spec
CONSTANTS
  Null = Null
  Level = 3
  TotalPages = 5
  MetaPages = 2
  MinBlockSize = 2
  MaxBlockSize = 3
  FactorNum = 11
  FactorDen = 10
  MultiHead = 1
  AllocHead = 1
  ChunkHead = 1
  FirstSize = 15
  TotalSizes = {26}
  MaxDeaths = 2
  Parts = {"cache", "sharded", "buddy", "pages", "chunks", "easy", "arena", "easypool",
           "items", "pieces", "knv", "handles", "atomic", "ccref", "lazy"}
INVARIANTS MemoryExclusive CrashSafe ReferencesExact CacheConsistent
PROPERTY RemovesOldestOnly
CHECK_DEADLOCK FALSE
