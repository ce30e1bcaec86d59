\* A client may stop; a closed file or a destroyed object does nothing more.
SPECIFICATION Spec
CONSTANTS
  Parts = {"steal", "nodes", "spsc", "free", "linked",
           "seqlock", "hazard", "rcu", "flat",
           "limited", "cuckoo", "path", "skip", "splay", "radix", "list", "hlist",
           "adlist", "indexed", "small", "range", "vector", "hash", "heap", "top",
           "lru", "mru", "easy", "ae", "sequence", "coroutine", "local", "exit",
           "signal", "registry", "scoped", "stream", "crc", "block", "digest",
           "base64", "bits", "shared", "transfer", "mapfile", "plain", "input",
           "safe", "roll", "child", "socket", "breaker", "fixed", "data", "tc", "pool", "sds", "split", "args"}
  Tombstones = FALSE
  Thieves = {"g", "h"}  StealCapacity = 2  StealItems = 4
  NodeProducers = {"p", "q"}  NodeConsumers = {"c", "d"}  NodeValues = {1, 2, 3}  NoValue = 0  NodeCount = 2
  SpscSizes = {3, 4}  SpscLimits = {8}  SpscItems = 12
  Threads = {1, 2, 3}  LinkItems = {1, 2, 3}  ListItems = {1, 2}  MaxWrites = 2  MaxNest = 2
INVARIANTS
  ItemsHandedOutOnce ReadersProtected OrderExact CallbacksServed BytesExact FilesExact CrashAtomic
PROPERTIES
  RefusalsJustified LookupsExact
CHECK_DEADLOCK FALSE
