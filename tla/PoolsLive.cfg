SPECIFICATION FairSpec
CONSTANTS
  a1 = a1  a2 = a2  u1 = u1  NoTask = NoTask
  PoolJobs = {"j1", "j2"}  WithUnsched = {"j2"}  PoolThreads = 3  PoolKinds = {}  PoolJoinModes = {TRUE, FALSE}
  Jobs = {"j1", "j2", "j3"}  MaxThreads = 2
  ClientTasks = {"t1", "t2", "t3"}  Waiters = {"c1"}  TaskThreads = 2
  AsyncTasks = {"t1", "t2"}  AsyncWaiters = {"c1", "c2"}  AsyncThreads = 2
  SimpleThreads = 3
  Parts = {"impl", "fixed", "timers", "task", "async", "simple"}
PROPERTIES
  PoolProgresses CallsReturn TasksRun
CHECK_DEADLOCK FALSE
