---------------------------- MODULE QueueSuite ------------------------------
(***************************************************************************)
(* The queues and rings of util/blocking_queue.h and the doubly buffered   *)
(* data of util/lock_free_util.h, model checked together.  They            *)
(* share nothing, so a behaviour picks one instance (focus) and only that  *)
(* instance steps.  Several instances of one module use the same           *)
(* variables.  DoublyBufferedData is extended, with its constants given by *)
(* the configuration; the others are instantiated here.                    *)
(***************************************************************************)
EXTENDS DoublyBufferedData, Sequences

CONSTANTS
  Parts,                                             \* the instances to check
  Clients, Max, MaxPush, EveryClients, EveryMax, EveryPush,  \* BlockingQueue
  Producers, Consumers, Capacity, Values,  \* the circular queues, and values of all
  Enqueuers, Dequeuers, EmptyWaiters, TimedWaiters, SimpleValues,  \* SimpleBlockingQueue
  ChannelReaders, Urgent,                            \* BlockChannel; heap of ConcurrentBlockingQueue
  RingProducers, RingConsumers, RingValues,          \* QueueRing
  OneProducer, OneConsumer, OneValues, RingSize,
  DequeValues, DequeCap,                             \* BoundedQueue
  LoopValues, LoopSize                               \* TCLoopQueue

VARIABLES focus,
  \* BlockingQueue
  queue, q_pc, op, failed, log, e_queue, e_pc, e_op, e_failed, e_log,
  \* SimpleCircularQueue, MPMCBlockingQueue
  c_queue, c_pc, c_produced, c_consumed,
  \* SimpleBlockingQueue
  elements, numElements, s_pc, s_produced, s_consumed, result,
  \* BlockChannel
  buffer, eof, b_pc, written, read, ended,
  \* ConcurrentBlockingQueue
  k_queue, exit_now, nwait, k_pc, pushed, k_popped, k_log,
  \* QueueRing
  entries, cur_write, cur_read, r_pc, bucket, r_val, claimed, r_consumed, asserted,
  \* BoundedQueue
  items, start, count, out,
  \* TCLoopQueue
  p, begin, end, t_out, bEmpty

blockingVars == <<queue, q_pc, op, failed, log>>
everyVars == <<e_queue, e_pc, e_op, e_failed, e_log>>
circularVars == <<c_queue, c_pc, c_produced, c_consumed>>
simpleVars == <<elements, numElements, s_pc, s_produced, s_consumed, result>>
channelVars == <<buffer, eof, b_pc, written, read, ended>>
concurrentVars == <<k_queue, exit_now, nwait, k_pc, pushed, k_popped, k_log>>
ringVars == <<entries, cur_write, cur_read, r_pc, bucket, r_val, claimed, r_consumed, asserted>>
dequeVars == <<items, start, count, out>>
loopVars == <<p, begin, end, t_out, bEmpty>>
suiteVars == <<focus, vars, blockingVars, everyVars, circularVars, simpleVars, channelVars,
               concurrentVars, ringVars, dequeVars, loopVars>>

-----------------------------------------------------------------------------

BlockingOps ==
  [dir : {"push"}, end : {"back"}, mode : {"wait"}]
    \cup [dir : {"pop"}, end : {"front", "back", "all"}, mode : {"wait"}]
AllOps ==
  BlockingOps
    \cup [dir : {"push"}, end : {"front", "back"}, mode : {"try", "timed"}]
    \cup [dir : {"pop"}, end : {"front", "back", "all"}, mode : {"try", "timed"}]

\* The constants of BlockingQueues that are not constants here, where an
\* instance does not say otherwise.
NoValue == "none"
Ops == BlockingOps
Bounded == TRUE
Callers == Enqueuers \cup Dequeuers \cup EmptyWaiters \cup TimedWaiters
Kind == [c \in Callers |->
  IF c \in Enqueuers THEN "enqueue" ELSE IF c \in Dequeuers THEN "dequeue"
  ELSE IF c \in EmptyWaiters THEN "waitEmpty" ELSE "waitNotEmptyFor"]
Type == "kFIFO"
Prio == [v \in Values |-> IF v \in Urgent THEN 1 ELSE 0]

\* Each class, with clients of the blocking operations of BlockingQueue,
\* SimpleCircularQueue and the FIFO form of ConcurrentBlockingQueue; then
\* clients of all operations of BlockingQueue; then MPMCBlockingQueue and the
\* priority form.
Queues == INSTANCE BlockingQueues
Every == INSTANCE BlockingQueues WITH
  Clients <- EveryClients, Max <- EveryMax, MaxPush <- EveryPush, Ops <- AllOps,
  queue <- e_queue, q_pc <- e_pc, op <- e_op, failed <- e_failed, log <- e_log
Variant == INSTANCE BlockingQueues WITH Bounded <- FALSE, Type <- "kPriority"

\* Any number of clients on either side, and the one producer and one consumer
\* for which the ring is a FIFO.
Ring == INSTANCE QueueRing WITH
  Producers <- RingProducers, Consumers <- RingConsumers, Values <- RingValues, N <- RingSize,
  pc <- r_pc, val <- r_val, consumed <- r_consumed
RingOne == INSTANCE QueueRing WITH
  Producers <- {OneProducer}, Consumers <- {OneConsumer}, Values <- OneValues, N <- RingSize,
  pc <- r_pc, val <- r_val, consumed <- r_consumed

Deque == INSTANCE BoundedQueue WITH
  Values <- DequeValues, Foreign <- "foreign", Cap <- DequeCap
Loop == INSTANCE TCLoopQueue WITH
  Values <- LoopValues, Raw <- "raw", Size <- LoopSize, out <- t_out

ASSUME QueueSuiteAssumption ==
  /\ Queues!BlockingQueueAssumption /\ Every!BlockingQueueAssumption
  /\ Queues!CircularQueueAssumption /\ Variant!CircularQueueAssumption
  /\ Queues!SimpleQueueAssumption /\ Queues!ChannelAssumption
  /\ Queues!ConcurrentQueueAssumption /\ Variant!ConcurrentQueueAssumption
  /\ Ring!QueueRingAssumption /\ RingOne!QueueRingAssumption
  /\ Deque!BoundedQueueAssumption /\ Loop!LoopQueueAssumption

-----------------------------------------------------------------------------

SuiteInit ==
  /\ focus \in Parts
  /\ Init
  /\ Queues!BlockingInit /\ Every!BlockingInit
  /\ Queues!CircularInit /\ Queues!SimpleInit /\ Queues!ChannelInit /\ Queues!ConcurrentInit
  /\ IF focus = "ringone" THEN RingOne!Init ELSE Ring!Init
  /\ Deque!Init /\ Loop!Init

SuiteNext ==
  /\ UNCHANGED focus
  /\ IF focus = "buffered" THEN Next ELSE UNCHANGED vars
  /\ IF focus = "blocking" THEN Queues!BlockingNext ELSE UNCHANGED blockingVars
  /\ IF focus = "every" THEN Every!BlockingNext ELSE UNCHANGED everyVars
  /\ IF focus = "circular" THEN Queues!CircularNext
     ELSE IF focus = "mpmc" THEN Variant!CircularNext ELSE UNCHANGED circularVars
  /\ IF focus = "simple" THEN Queues!SimpleNext ELSE UNCHANGED simpleVars
  /\ IF focus = "channel" THEN Queues!ChannelNext ELSE UNCHANGED channelVars
  /\ IF focus = "fifo" THEN Queues!ConcurrentNext
     ELSE IF focus = "heap" THEN Variant!ConcurrentNext ELSE UNCHANGED concurrentVars
  /\ IF focus = "ring" THEN Ring!Next
     ELSE IF focus = "ringone" THEN RingOne!Next ELSE UNCHANGED ringVars
  /\ IF focus = "deque" THEN Deque!Next ELSE UNCHANGED dequeVars
  /\ IF focus = "loop" THEN Loop!Next ELSE UNCHANGED loopVars

\* A client inside an operation is scheduled and timed waits run out; where it
\* says so, consumers keep calling.
SuiteSpec ==
  /\ SuiteInit /\ [][SuiteNext]_suiteVars
  /\ \A r \in Readers : WF_vars(focus = "buffered" /\ (UnsafeRead(r) \/ EndRead(r)))
  /\ \A m \in Modifiers :
       /\ WF_vars(focus = "buffered" /\ (FirstCall(m) \/ Flip(m) \/ ScanEnd(m) \/ SecondCall(m)))
       /\ SF_vars(focus = "buffered" /\ (ScanBegin(m) \/ \E r \in Readers : WaitReadDone(m, r)))
  /\ \A c \in Clients : WF_blockingVars(focus = "blocking" /\ Queues!Running(c))
  /\ \A c \in Producers \cup Consumers :
       /\ WF_circularVars(focus = "circular" /\ Queues!CircularRunning(c))
       /\ WF_circularVars(focus = "mpmc" /\ Variant!CircularRunning(c))
  /\ \A c \in Consumers :
       WF_circularVars(focus \in {"circular", "mpmc"} /\ Queues!CircularCall(c))
  /\ \A c \in Callers \ Enqueuers : WF_simpleVars(focus = "simple" /\ Queues!SimpleRunning(c))
  /\ \A c \in Dequeuers : WF_simpleVars(focus = "simple" /\ Queues!SimpleCall(c))
  /\ \A r \in ChannelReaders :
       /\ WF_channelVars(focus = "channel" /\ Queues!ReadRunning(r))
       /\ WF_channelVars(focus = "channel" /\ r \notin ended /\ Queues!Read(r))
  /\ \A c \in Clients : WF_concurrentVars(focus = "heap" /\ Variant!Inside(c))
  /\ WF_ringVars(focus = "ringone" /\ asserted /\ RingOne!Enqueue(OneProducer))
  /\ WF_ringVars(focus = "ringone" /\ asserted /\ RingOne!Consumer(OneConsumer))

-----------------------------------------------------------------------------
(* The components' properties, in the instances above, gathered by the     *)
(* promise they make; ReadersUndisturbed and InstancesAgree are those of   *)
(* DoublyBufferedData.                                                     *)

\* While a client sleeps, each element or free place it could use has an awake
\* client for it or one that is about to signal: BlockingQueue signals once
\* per operation and after the unlock, and broadcasts in PopAll; the circular
\* queues notify one client per operation; three kinds of waiters share the
\* condition variable of SimpleBlockingQueue; BlockChannel notifies one reader
\* per element; ConcurrentBlockingQueue decides from a count of waiters and
\* notifies after the unlock.
SleepersCovered ==
  /\ Queues!ConsumersCovered /\ Every!ConsumersCovered
  /\ Queues!ProducersCovered /\ Every!ProducersCovered
  /\ Queues!UsersCovered
  /\ Queues!NobodySleepsReady
  /\ Queues!ReadersCovered
  /\ Queues!PoppersCovered

\* Elements come out once each and in the order in which they went in, from
\* BlockingQueue and the FIFO form of ConcurrentBlockingQueue at either end,
\* and from its priority form by priority.  Of a QueueRing they come out once
\* each, in order only with one producer and one consumer, for whom dequeue's
\* assertion holds after every wakeup but a spurious one.  No queue holds more
\* than its capacity, and what is read without a look at the queue is right:
\* numElements_ of SimpleBlockingQueue is the length of its deque,
\* nwait_consumer_ of ConcurrentBlockingQueue counts the consumers in Pop, and
\* blocking operations of BlockingQueue never return false.
DeliveredInOrder ==
  /\ Queues!BlockingDelivers /\ Every!BlockingDelivers
  /\ Queues!CircularFifo
  /\ Queues!SimpleFifo /\ Queues!CountExact
  /\ Queues!ChannelFifo
  /\ Queues!NwaitExact
  /\ IF focus = "heap" THEN Variant!ConcurrentDelivers ELSE Queues!ConcurrentDelivers
  /\ focus = "ring" => Ring!NothingLost
  /\ focus = "ringone" => RingOne!RingOrder /\ RingOne!AssertionHolds
  /\ Every!BlockingNeverFails
  /\ Queues!BlockingTypeOK /\ Every!BlockingTypeOK /\ Queues!SimpleTypeOK
  /\ Deque!TypeOK /\ Loop!TypeOK
  /\ focus # "mpmc" => Queues!CircularTypeOK

\* The i-th member of a set, in some fixed order.
Rest(S) == S \ {CHOOSE x \in S : TRUE}
Nth(S, i) ==
  LET from[n \in Nat] == IF n <= 1 THEN S ELSE Rest(from[n - 1]) IN CHOOSE x \in from[i] : TRUE
Has(S, i) == i <= Cardinality(S)

\* What the i-th client of the queue in focus waits for is there, or the i-th
\* element was produced, and what follows.
Due(i) ==
  CASE focus = "blocking" /\ Has(Clients, i) ->
         \/ Nth(Clients, i) \in Queues!Waiting(q_pc, "pop") /\ queue # <<>>
         \/ Nth(Clients, i) \in Queues!Waiting(q_pc, "push") /\ ~Queues!UnlockedIsFull(queue)
    [] focus \in {"circular", "mpmc"} -> Len(c_produced) >= i
    [] focus = "simple" /\ Has(EmptyWaiters, i) -> s_pc[Nth(EmptyWaiters, i)] # "idle"
    [] focus = "channel" /\ Has(Values, i) ->
         (\E n \in DOMAIN written : written[n] = Nth(Values, i)) /\ ended # ChannelReaders
    [] focus = "channel" -> eof
    [] focus = "heap" /\ Has(Clients, i) -> k_pc[Nth(Clients, i)] = "wait" /\ k_queue # <<>>
    [] focus = "heap" -> exit_now
    [] focus = "ringone" -> Len(claimed) >= i
    [] focus = "buffered" /\ Has(Modifiers, i) -> pc[Nth(Modifiers, i)] # "idle"
    [] OTHER -> FALSE
Done(i) ==
  CASE focus = "blocking" /\ Has(Clients, i) -> ~Due(i)
    [] focus \in {"circular", "mpmc"} -> Len(c_consumed) >= i
    [] focus = "simple" /\ Has(EmptyWaiters, i) -> s_pc[Nth(EmptyWaiters, i)] = "idle"
    [] focus = "channel" /\ Has(Values, i) -> \E n \in DOMAIN read : read[n] = Nth(Values, i)
    [] focus = "channel" -> ended = ChannelReaders
    [] focus = "heap" /\ Has(Clients, i) -> ~Due(i)
    [] focus = "heap" -> Variant!InPop = {}
    [] focus = "ringone" -> Len(r_consumed) >= i \/ ~asserted
    [] focus = "buffered" /\ Has(Modifiers, i) -> pc[Nth(Modifiers, i)] = "idle"
    [] OTHER -> TRUE

\* A blocked client gets out when what it waits for is there: consumers and
\* producers of the blocking queues, waitEmpty, readers of an ended channel,
\* which read everything that was written before, consumers of a killed queue,
\* which pop nothing any more; with consumers that keep calling, everything
\* that is produced is consumed, through QueueRing with one consumer too,
\* although its enqueue signals only into an empty bucket, unless a spurious
\* wakeup has ended the process at dequeue's assertion.  Modify of
\* DoublyBufferedData returns when the reads it waits for end, although it
\* holds the mutex with which threads register and leave.
SleepersReleased ==
  /\ \A i \in 1 .. 4 : Due(i) ~> Done(i)
  /\ Queues!KilledPopsNothing

\* BoundedQueue, wherever it has wrapped, behaves as a bounded double-ended
\* queue, whose items top(i) and bottom(i) reach alike, with one exception: when
\* the bottom item lies behind the wrap, pop_bottom takes it out of the queue
\* but hands out what lies behind the last slot.  TCLoopQueue behaves as a
\* queue of exactly iSize items into which a vector goes as a whole or not at
\* all, and whose push_back reports an empty queue exactly when it was empty.
RingsImplementQueues ==
  /\ Deque!ImplementsDeque /\ Loop!ImplementsQueue /\ Loop!ReportsEmpty
  /\ []Deque!AccessorsAgree

=============================================================================
