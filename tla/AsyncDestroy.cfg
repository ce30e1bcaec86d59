SPECIFICATION FairSpec
CONSTANTS
  N = 1
  Tasks = {t1}
  Waiters = {}
PROPERTIES
  DestroyReturns
CHECK_DEADLOCK FALSE
