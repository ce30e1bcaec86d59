SPECIFICATION SuiteSpec
CONSTANTS
  Threads = {t1, t2, t3, t4}
  Parts = {"rwlock", "light", "free", "auto", "manual", "latch", "counted", "counter", "note",
           "grant", "semmutex", "future", "posix", "bgthread", "worker", "queue", "uthread", "log"}
INVARIANTS
  MutualExclusion BitsExact UnitsAccounted HandoversSafe WorkDoneOnce
PROPERTIES
  NoNewReaders LightImplementsSemaphore WaitersReleased RequestsServed
CHECK_DEADLOCK FALSE
