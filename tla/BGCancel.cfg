SPECIFICATION Spec
CONSTANTS
  N = 2
  Normal = {}
  Urgent = {}
  MaxDelayed = 2
  Delays = {0}
  TickMs = 2
  MaxTime = 0
  MaxCount = 0
  Cancels = {FALSE}
  NoTask = NoTask
PROPERTIES
  CancelWaits
CHECK_DEADLOCK FALSE
