SPECIFICATION Spec
CONSTANTS
  j1 = j1  j2 = j2  t1 = t1  t2 = t2  NoJob = NoJob
  Jobs = {j1, j2}
  Tag <- MCTag
  HasUnsched = {}
  MaxThreads = 3
  Kinds = {}
  JoinModes = {FALSE}
PROPERTIES
  JoinAllDiscards
CHECK_DEADLOCK FALSE
