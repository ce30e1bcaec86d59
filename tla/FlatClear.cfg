SPECIFICATION Spec
CONSTANTS
  Parts = {"flat"}
  Tombstones = TRUE
  Thieves = {"g", "h"}  StealCapacity = 2  StealItems = 4
  NodeProducers = {"p", "q"}  NodeConsumers = {"c", "d"}  NodeValues = {1, 2, 3}  NoValue = 0  NodeCount = 2
  SpscSizes = {3, 4}  SpscLimits = {8}  SpscItems = 12
  Threads = {1, 2, 3}  LinkItems = {1, 2, 3}  ListItems = {1, 2}  MaxWrites = 2  MaxNest = 2
INVARIANT NotEmptyCounted
CHECK_DEADLOCK FALSE
