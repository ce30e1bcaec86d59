SPECIFICATION SuiteSpec
CONSTANTS
  Parts = {"blocking", "every", "circular", "mpmc", "simple", "channel", "fifo", "heap",
           "ring", "ringone", "buffered",
           "deque", "loop"}
  Clients = {"x", "y", "z"}  Max = 2  MaxPush = 3
  EveryClients = {"x", "y"}  EveryMax = 2  EveryPush = 2
  Producers = {"p", "q"}  Consumers = {"c", "d"}  Capacity = 1  Values = {"u", "v", "w"}
  Enqueuers = {"p"}  Dequeuers = {"c", "d"}  EmptyWaiters = {"e"}  TimedWaiters = {"n"}
  SimpleValues = {"v", "w"}  ChannelReaders = {"r", "s"}  Urgent = {"u"}
  RingProducers = {"p", "q"}  RingConsumers = {"c", "d"}  RingValues = {1, 2}
  OneProducer = "p"  OneConsumer = "c"  OneValues = {1, 2, 3}  RingSize = 2
  DequeValues = {"v", "w"}  DequeCap = 3
  LoopValues = {"v", "w"}  LoopSize = 3
  Readers = {r1, r2}
  Modifiers = {m1, m2}
  None = None
  MaxChanges = 3
INVARIANTS
  SleepersCovered DeliveredInOrder ReadersUndisturbed InstancesAgree
PROPERTIES
  SleepersReleased RingsImplementQueues
CHECK_DEADLOCK FALSE
