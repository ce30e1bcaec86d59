--------------------------- MODULE BlockingQueues ---------------------------
(***************************************************************************)
(* The queues of util/blocking_queue.h whose clients wait: BlockingQueue,  *)
(* SimpleCircularQueue and MPMCBlockingQueue, SimpleBlockingQueue,         *)
(* BlockChannel and ConcurrentBlockingQueue, one section with its own      *)
(* variables each; the theorems are in the last section.                   *)
(***************************************************************************)
EXTENDS Integers, FiniteSetTheorems, SequenceTheorems, TLAPS

CONSTANTS
  Clients,          \* of BlockingQueue and ConcurrentBlockingQueue
  SimpleValues,     \* of SimpleBlockingQueue
  Values,           \* of the other queues
  Max,              \* m_max_elements of BlockingQueue
  Ops,              \* the operations of BlockingQueue that its clients use
  MaxPush,          \* bound: the elements pushed into BlockingQueue
  Producers, Consumers,  \* the clients of SimpleCircularQueue
  Bounded,          \* TRUE: SimpleCircularQueue, FALSE: MPMCBlockingQueue
  Capacity,         \* capacity_, without meaning when Bounded is FALSE
  Callers,          \* the clients of SimpleBlockingQueue
  Kind,             \* Kind[c]: the operation that caller c calls
  ChannelReaders,   \* of BlockChannel
  Type,             \* of ConcurrentBlockingQueue: "kFIFO" or "kPriority"
  Prio              \* Prio[v]: the priority of v, without meaning for kFIFO

\* A std::condition_variable: clients in "wait" are blocked on it, and a woken
\* one is at "check" until it has the mutex and tests its predicate again.
Sleeping(p, S) == {c \in S : p[c] = "wait"}
Awake(p, S) == {c \in S : p[c] = "check"}
NotifyOne(p, S) ==
  IF Sleeping(p, S) = {} THEN {p} ELSE {[p EXCEPT ![c] = "check"] : c \in Sleeping(p, S)}
NotifyAll(p, S) == [c \in S |-> IF p[c] = "wait" THEN "check" ELSE p[c]]

\* While a client of S sleeps, each of n things has a client awake that can use it.
Covered(p, S, n) == Sleeping(p, S) # {} => n <= Cardinality(Awake(p, S))

Elements(q) == {q[i] : i \in 1 .. Len(q)}
Ascending(n, f) == \A i, j \in 1 .. n : i < j => f[i] < f[j]

\* What went into a FIFO is what came out and then what is still in it.
InOrder(in, out, q) == in = out \o q

-----------------------------------------------------------------------------
(* BlockingQueue: a bounded deque with blocking, trying and timed forms of *)
(* push and pop at either end, pops of the whole content, and Clear.  Two  *)
(* condition variables share m_mutex, and all operations but Clear signal  *)
(* after they have released it.                                            *)
(*                                                                         *)
(* An operation is a record: its direction, the end it works on, and its   *)
(* mode.  A client is "check" on its way to test the queue, "wait" in an   *)
(* untimed and "twait" in a timed wait, "final" on its way to the one test *)
(* after a timed wait, and "signal" between the unlock and the signal.     *)
(* The blocking PushFront is not among Ops: it constructs its MutexLock    *)
(* from m_mutex instead of its address and cannot be instantiated.         *)

Modes == {"wait", "try", "timed"}
AllOps ==
  ([dir : {"push"}, end : {"front", "back"}, mode : Modes]
     \ {[dir |-> "push", end |-> "front", mode |-> "wait"]})
  \cup [dir : {"pop"}, end : {"front", "back", "all"}, mode : Modes]

NoOp == [dir |-> "none", end |-> "none", mode |-> "none"]

BlockingQueueAssumption ==
  IsFiniteSet(Clients) /\ Max \in Nat \ {0} /\ Ops \subseteq AllOps

VARIABLES
  queue,     \* m_queue
  q_pc, op,  \* what each client does, and inside which operation
  failed,    \* history: the modes of operations that returned false
  log        \* history: what was pushed and what has left the queue, see below

blockingVars == <<queue, q_pc, op, failed, log>>

\* An element is the number under which it was pushed: the next one behind all
\* others (hi) at the back, and the next one before them (lo) at the front, so
\* that the elements given out so far are those between lo and hi, and of two
\* of them the smaller one belongs nearer to the front.  left holds those that
\* were popped or cleared, and inOrder says that each pop took the elements
\* nearest to its end.
EmptyLog == [lo |-> 0, hi |-> 1, left |-> {}, inOrder |-> TRUE]
Pushed == (log.lo + 1) .. (log.hi - 1)

Label(o) == IF o.end = "front" THEN log.lo ELSE log.hi
Popped(o) ==
  IF o.end = "front" THEN {Head(queue)}
  ELSE IF o.end = "back" THEN {queue[Len(queue)]} ELSE Elements(queue)
Nearest(o, S) ==
  \A x \in S, y \in Elements(queue) \ S : IF o.end = "back" THEN y < x ELSE x < y

Logged(o) ==
  IF o.dir = "push"
  THEN IF o.end = "front" THEN [log EXCEPT !.lo = @ - 1] ELSE [log EXCEPT !.hi = @ + 1]
  ELSE [log EXCEPT !.left = @ \cup Popped(o), !.inOrder = @ /\ Nearest(o, Popped(o))]

UnlockedIsFull(q) == Len(q) >= Max
Blocked(o) == IF o.dir = "push" THEN UnlockedIsFull(queue) ELSE queue = <<>>

\* The clients blocked on m_cond_not_full ("push") or m_cond_not_empty ("pop").
Waiting(p, dir) == {c \in Clients : op[c].dir = dir /\ p[c] \in {"wait", "twait"}}

Testing(dir) == {c \in Clients : op[c].dir = dir /\ q_pc[c] \in {"check", "final"}}

\* A loop tests again after the wait, an if only once.
Woken(s) == IF s = "wait" THEN "check" ELSE "final"

SignalOne(p, dir) ==
  IF Waiting(p, dir) = {} THEN {p}
  ELSE {[p EXCEPT ![c] = Woken(@)] : c \in Waiting(p, dir)}
Broadcast(p, dir) ==
  [c \in Clients |-> IF c \in Waiting(p, dir) THEN Woken(p[c]) ELSE p[c]]

SignalIfWasEmpty(p) == IF Len(queue) = 1 THEN SignalOne(p, "pop") ELSE {p} \* fault
PushSignal(p) == SignalOne(p, "pop")

\* TimedPopAll broadcasts before the unlock and signals after it.
PopSignal(p, o) ==
  IF o.end = "all" /\ o.mode # "timed" THEN {Broadcast(p, "push")}
  ELSE SignalOne(p, "push")
EarlyBroadcast(p, o) ==
  IF o.dir = "pop" /\ o.end = "all" /\ o.mode = "timed" THEN Broadcast(p, "push") ELSE p

BlockingInit ==
  /\ queue = <<>>
  /\ q_pc = [c \in Clients |-> "idle"] /\ op = [c \in Clients |-> NoOp]
  /\ failed = {} /\ log = EmptyLog

Call(c, o) ==
  /\ q_pc[c] = "idle"
  /\ q_pc' = [q_pc EXCEPT ![c] = "check"]
  /\ op' = [op EXCEPT ![c] = o]
  /\ o.dir = "push" => Cardinality(Testing("push") \cup Waiting(q_pc, "push"))
                          < MaxPush - (log.hi - log.lo - 1)
  /\ UNCHANGED <<queue, failed, log>>

\* The queue is full or empty: wait, wait with a timeout, or give up.
Block(c) ==
  /\ q_pc[c] = "check" /\ Blocked(op[c]) /\ op[c].mode # "try"
  /\ q_pc' = [q_pc EXCEPT ![c] = IF op[c].mode = "wait" THEN "wait" ELSE "twait"]
  /\ UNCHANGED <<queue, op, failed, log>>

GiveUp(c) ==
  /\ Blocked(op[c])
  /\ q_pc[c] = "final" \/ (q_pc[c] = "check" /\ op[c].mode = "try")
  /\ q_pc' = [q_pc EXCEPT ![c] = "idle"]
  /\ failed' = failed \cup {op[c].mode}
  /\ op' = [op EXCEPT ![c] = NoOp]
  /\ UNCHANGED <<queue, log>>

\* The effect on m_queue, up to the unlock.
After(o, v) ==
  IF o.dir = "push" THEN IF o.end = "front" THEN <<v>> \o queue ELSE Append(queue, v)
  ELSE IF o.end = "front" THEN Tail(queue)
  ELSE IF o.end = "back" THEN SubSeq(queue, 1, Len(queue) - 1) ELSE <<>>

Perform(c) ==
  /\ q_pc[c] \in {"check", "final"} /\ ~Blocked(op[c])
  /\ queue' = After(op[c], Label(op[c])) /\ log' = Logged(op[c])
  /\ q_pc' = [EarlyBroadcast(q_pc, op[c]) EXCEPT ![c] = "signal"]
  /\ UNCHANGED <<op, failed>>

\* The signal after the unlock, and the return.
Signal(c) ==
  /\ q_pc[c] = "signal"
  /\ LET p == [q_pc EXCEPT ![c] = "idle"]
     IN  q_pc' \in IF op[c].dir = "push" THEN PushSignal(p) ELSE PopSignal(p, op[c])
  /\ op' = [op EXCEPT ![c] = NoOp]
  /\ UNCHANGED <<queue, failed, log>>

Clear ==
  /\ queue # <<>>
  /\ queue' = <<>> /\ log' = [log EXCEPT !.left = @ \cup Elements(queue)]
  /\ q_pc' = Broadcast(q_pc, "push")
  /\ UNCHANGED <<op, failed>>

\* A timed wait runs out, or a wait ends spuriously.
Timeout(c) ==
  /\ q_pc[c] = "twait"
  /\ q_pc' = [q_pc EXCEPT ![c] = Woken(@)]
  /\ UNCHANGED <<queue, op, failed, log>>

SpuriousWakeup(c) ==
  /\ q_pc[c] = "wait"
  /\ q_pc' = [q_pc EXCEPT ![c] = Woken(@)]
  /\ UNCHANGED <<queue, op, failed, log>>

Running(c) == Block(c) \/ GiveUp(c) \/ Perform(c) \/ Signal(c)

BlockingNext ==
  \/ \E c \in Clients : Running(c) \/ Timeout(c) \/ SpuriousWakeup(c)
  \/ \E c \in Clients, o \in Ops : Call(c, o)
  \/ Clear

BlockingTypeOK ==
  /\ queue \in Seq(Int) /\ Len(queue) <= Max
  /\ q_pc \in [Clients -> {"idle", "check", "wait", "twait", "final", "signal"}]
  /\ op \in [Clients -> AllOps \cup {NoOp}]

Signalling(dir) == {c \in Clients : op[c].dir = dir /\ q_pc[c] = "signal"}

\* Signalling once per push and after the unlock leaves nobody behind: while
\* a consumer sleeps, each queued element is accounted for by a consumer that
\* is awake or a producer that is about to signal.
ConsumersCovered ==
  Waiting(q_pc, "pop") # {}
    => Len(queue) <= Cardinality(Testing("pop")) + Cardinality(Signalling("push"))

\* The same for the free places while a producer sleeps; one PopAll stands
\* for all of them, because it broadcasts.
ProducersCovered ==
  Waiting(q_pc, "push") # {}
    => \/ \E c \in Signalling("pop") : op[c].end = "all"
       \/ Max - Len(queue) <= Cardinality(Testing("push")) + Cardinality(Signalling("pop"))

\* Only trying and timed operations may fail: a blocking pop hands out a value
\* and a blocking PopAll at least one.
BlockingNeverFails == "wait" \notin failed

\* Whoever signals whom and however late, each element that was pushed is
\* either queued or has left the queue, once; the queue keeps them in the order
\* of their pushes at either end, and every pop hands out what is nearest to
\* its end.
BlockingDelivers ==
  /\ log.inOrder
  /\ Ascending(Len(queue), queue)
  /\ Elements(queue) \cap log.left = {} /\ Elements(queue) \cup log.left = Pushed

-----------------------------------------------------------------------------
(* SimpleCircularQueue and MPMCBlockingQueue: a FIFO under one mutex whose *)
(* operations notify while they hold it.  The first is bounded and has a   *)
(* second condition variable for producers, the second never makes a       *)
(* producer wait and also offers try_consume.                              *)

CircularQueueAssumption ==
  /\ IsFiniteSet(Producers) /\ IsFiniteSet(Consumers) /\ Producers \cap Consumers = {}
  /\ Bounded \in BOOLEAN /\ Capacity \in Nat \ {0}

Users == Producers \cup Consumers

VARIABLES
  c_queue,     \* queue_
  c_pc,        \* what each client does
  c_produced,  \* history: the values enqueued, in order
  c_consumed   \* history: the values dequeued, in order

circularVars == <<c_queue, c_pc, c_produced, c_consumed>>

Full == Bounded /\ Len(c_queue) >= Capacity

NotifyNotEmpty(p) == NotifyOne(p, Consumers)
NotifyNotFull(p) == IF Bounded THEN NotifyOne(p, Producers) ELSE {p}

CircularInit ==
  /\ c_queue = <<>>
  /\ c_pc = [c \in Users |-> "idle"]
  /\ c_produced = <<>> /\ c_consumed = <<>>

CircularCall(c) ==
  /\ c_pc[c] = "idle"
  /\ c \in Producers => Cardinality({p \in Producers : c_pc[p] # "idle"})
                           < Cardinality(Values \ Range(c_produced))
  /\ c_pc' = [c_pc EXCEPT ![c] = "check"]
  /\ UNCHANGED <<c_queue, c_produced, c_consumed>>

\* The wait of enqueue on notFull_ or of dequeue on notEmpty_.
CircularWait(c) ==
  /\ c_pc[c] = "check"
  /\ IF c \in Producers THEN Full ELSE c_queue = <<>>
  /\ c_pc' = [c_pc EXCEPT ![c] = "wait"]
  /\ UNCHANGED <<c_queue, c_produced, c_consumed>>

\* enqueue, produce
Enqueue(p) ==
  /\ c_pc[p] = "check" /\ ~Full
  /\ \E v \in Values \ Range(c_produced) :
       /\ c_queue' = Append(c_queue, v)
       /\ c_produced' = Append(c_produced, v)
  /\ c_pc' \in NotifyNotEmpty([c_pc EXCEPT ![p] = "idle"])
  /\ UNCHANGED c_consumed

TakeFront ==
  /\ c_queue # <<>>
  /\ c_queue' = Tail(c_queue)
  /\ c_consumed' = Append(c_consumed, Head(c_queue))
  /\ UNCHANGED c_produced

\* dequeue, wait_and_consume
Dequeue(c) ==
  /\ c_pc[c] = "check" /\ TakeFront
  /\ c_pc' \in NotifyNotFull([c_pc EXCEPT ![c] = "idle"])

\* try_consume returns false and changes nothing when the queue is empty.
TryConsume(c) ==
  /\ ~Bounded /\ c_pc[c] = "idle" /\ TakeFront
  /\ UNCHANGED c_pc

CircularSpurious(c) ==
  /\ c_pc[c] = "wait"
  /\ c_pc' = [c_pc EXCEPT ![c] = "check"]
  /\ UNCHANGED <<c_queue, c_produced, c_consumed>>

CircularRunning(c) ==
  \/ CircularWait(c)
  \/ c \in Producers /\ Enqueue(c)
  \/ c \in Consumers /\ Dequeue(c)

CircularNext ==
  \/ \E c \in Users : CircularCall(c) \/ CircularRunning(c) \/ CircularSpurious(c)
  \/ \E c \in Consumers : TryConsume(c)

CircularTypeOK ==
  /\ c_queue \in Seq(Values) /\ (Bounded => Len(c_queue) <= Capacity)
  /\ c_pc \in [Users -> {"idle", "check", "wait"}]

\* notify_one per operation wakes enough clients: while one sleeps, every
\* element (every free place) has a client awake that can use it.
UsersCovered ==
  /\ Covered(c_pc, Consumers, Len(c_queue))
  /\ Covered(c_pc, Producers, Capacity - Len(c_queue))

\* Values come out once each and in the order in which enqueue put them in,
\* whichever consumers take them.
CircularFifo == InOrder(c_produced, c_consumed, c_queue)

-----------------------------------------------------------------------------
(* SimpleBlockingQueue: an unbounded FIFO with a single condition variable *)
(* that consumers, callers of waitEmpty and callers of waitNotEmptyFor     *)
(* share.  enqueue notifies all of them, and so does a dequeue that        *)
(* empties the queue.                                                      *)

Kinds == {"enqueue", "dequeue", "waitEmpty", "waitNotEmptyFor"}

SimpleQueueAssumption == Kind \in [Callers -> Kinds]

VARIABLES
  elements,     \* elements_
  numElements,  \* numElements_
  s_pc,         \* what each caller does
  s_produced,   \* history: the values enqueued, in order
  s_consumed,   \* history: the values dequeued, in order
  result        \* what the last waitNotEmptyFor of each caller returned

simpleVars == <<elements, numElements, s_pc, s_produced, s_consumed, result>>

\* enqueue notifies everybody, dequeue only when the queue got empty.
EnqueueNotify(p) == NotifyAll(p, Callers)
DequeueNotify(p, n) == IF n = 0 THEN NotifyAll(p, Callers) ELSE p

\* The predicate each kind of caller waits for.
Ready(c) == IF Kind[c] = "waitEmpty" THEN numElements = 0 ELSE numElements # 0

SimpleInit ==
  /\ elements = <<>> /\ numElements = 0
  /\ s_pc = [c \in Callers |-> "idle"]
  /\ s_produced = <<>> /\ s_consumed = <<>>
  /\ result = [c \in Callers |-> FALSE]

enqueue(c) ==
  /\ Kind[c] = "enqueue" /\ s_pc[c] = "idle"
  /\ \E v \in SimpleValues \ Range(s_produced) :
       /\ elements' = Append(elements, v)
       /\ s_produced' = Append(s_produced, v)
  /\ numElements' = numElements + 1
  /\ s_pc' = EnqueueNotify(s_pc)
  /\ UNCHANGED <<s_consumed, result>>

SimpleCall(c) ==
  /\ Kind[c] # "enqueue" /\ s_pc[c] = "idle"
  /\ s_pc' = [s_pc EXCEPT ![c] = "check"]
  /\ UNCHANGED <<elements, numElements, s_produced, s_consumed, result>>

SimpleWait(c) ==
  /\ s_pc[c] = "check" /\ ~Ready(c)
  /\ s_pc' = [s_pc EXCEPT ![c] = "wait"]
  /\ UNCHANGED <<elements, numElements, s_produced, s_consumed, result>>

dequeue(c) ==
  /\ Kind[c] = "dequeue" /\ s_pc[c] = "check" /\ Ready(c)
  /\ s_consumed' = Append(s_consumed, Head(elements))
  /\ elements' = Tail(elements)
  /\ numElements' = numElements - 1
  /\ s_pc' = DequeueNotify([s_pc EXCEPT ![c] = "idle"], numElements')
  /\ UNCHANGED <<s_produced, result>>

waitEmpty(c) ==
  /\ Kind[c] = "waitEmpty" /\ s_pc[c] = "check" /\ Ready(c)
  /\ s_pc' = [s_pc EXCEPT ![c] = "idle"]
  /\ UNCHANGED <<elements, numElements, s_produced, s_consumed, result>>

\* wait_for with a predicate returns the predicate's value, also when the time
\* is up: "expired" is a caller whose time ran out and that tests once more.
waitNotEmptyFor(c) ==
  /\ Kind[c] = "waitNotEmptyFor"
  /\ s_pc[c] = "expired" \/ (s_pc[c] = "check" /\ Ready(c))
  /\ result' = [result EXCEPT ![c] = Ready(c)]
  /\ s_pc' = [s_pc EXCEPT ![c] = "idle"]
  /\ UNCHANGED <<elements, numElements, s_produced, s_consumed>>

SimpleTimeout(c) ==
  /\ Kind[c] = "waitNotEmptyFor" /\ s_pc[c] = "wait"
  /\ s_pc' = [s_pc EXCEPT ![c] = "expired"]
  /\ UNCHANGED <<elements, numElements, s_produced, s_consumed, result>>

SimpleSpurious(c) ==
  /\ s_pc[c] = "wait"
  /\ s_pc' = [s_pc EXCEPT ![c] = "check"]
  /\ UNCHANGED <<elements, numElements, s_produced, s_consumed, result>>

SimpleRunning(c) ==
  SimpleWait(c) \/ dequeue(c) \/ waitEmpty(c) \/ waitNotEmptyFor(c) \/ SimpleTimeout(c)

SimpleNext ==
  \E c \in Callers : enqueue(c) \/ SimpleCall(c) \/ SimpleRunning(c) \/ SimpleSpurious(c)

SimpleTypeOK ==
  /\ elements \in Seq(SimpleValues) /\ numElements \in Nat
  /\ s_pc \in [Callers -> {"idle", "check", "wait", "expired"}]
  /\ result \in [Callers -> BOOLEAN]

\* numElements_, which the predicates and the unlocked size() read, is the
\* length of the deque, so a dequeue never takes from an empty one.
CountExact == numElements = Len(elements)

\* Although three kinds of waiters share one condition variable, nobody ever
\* sleeps while what it waits for is the case.
NobodySleepsReady == \A c \in Callers : s_pc[c] = "wait" => ~Ready(c)

\* Values come out once each, in the order they were enqueued.
SimpleFifo == InOrder(s_produced, s_consumed, elements)

-----------------------------------------------------------------------------
(* BlockChannel: an unbounded channel with an end of file.  Readers block  *)
(* on cv_ until there is an element or the end; Write and a successful     *)
(* Read notify one of them, SendEof all.                                   *)

ChannelAssumption == IsFiniteSet(ChannelReaders)

VARIABLES
  buffer,   \* buffer_
  eof,      \* eof_
  b_pc,     \* what each reader does
  written,  \* history: the elements written, in order
  read,     \* history: the elements read, in order
  ended     \* history: the readers whose Read returned false

channelVars == <<buffer, eof, b_pc, written, read, ended>>

\* Read's predicate, and its test for the end.
Readable == eof \/ buffer # <<>>
EndReached == eof /\ buffer = <<>>

ChannelInit ==
  /\ buffer = <<>> /\ eof = FALSE
  /\ b_pc = [r \in ChannelReaders |-> "idle"]
  /\ written = <<>> /\ read = <<>> /\ ended = {}

SendEof ==
  /\ ~eof
  /\ eof' = TRUE
  /\ b_pc' = NotifyAll(b_pc, ChannelReaders)
  /\ UNCHANGED <<buffer, written, read, ended>>

\* Write does not look at eof_.
Write(v) ==
  /\ v \notin Range(written)
  /\ buffer' = Append(buffer, v)
  /\ written' = Append(written, v)
  /\ b_pc' \in NotifyOne(b_pc, ChannelReaders)
  /\ UNCHANGED <<eof, read, ended>>

Read(r) ==
  /\ b_pc[r] = "idle"
  /\ b_pc' = [b_pc EXCEPT ![r] = "check"]
  /\ UNCHANGED <<buffer, eof, written, read, ended>>

ReadWait(r) ==
  /\ b_pc[r] = "check" /\ ~Readable
  /\ b_pc' = [b_pc EXCEPT ![r] = "wait"]
  /\ UNCHANGED <<buffer, eof, written, read, ended>>

ReadEnd(r) ==
  /\ b_pc[r] = "check" /\ Readable /\ EndReached
  /\ b_pc' = [b_pc EXCEPT ![r] = "idle"]
  /\ ended' = ended \cup {r}
  /\ UNCHANGED <<buffer, eof, written, read>>

ReadTake(r) ==
  /\ b_pc[r] = "check" /\ Readable /\ ~EndReached
  /\ read' = Append(read, Head(buffer))
  /\ buffer' = Tail(buffer)
  /\ b_pc' \in NotifyOne([b_pc EXCEPT ![r] = "idle"], ChannelReaders)
  /\ UNCHANGED <<eof, written, ended>>

ChannelSpurious(r) ==
  /\ b_pc[r] = "wait"
  /\ b_pc' = [b_pc EXCEPT ![r] = "check"]
  /\ UNCHANGED <<buffer, eof, written, read, ended>>

ReadRunning(r) == ReadWait(r) \/ ReadEnd(r) \/ ReadTake(r)

ChannelNext ==
  \/ SendEof
  \/ \E v \in Values : Write(v)
  \/ \E r \in ChannelReaders : Read(r) \/ ReadRunning(r) \/ ChannelSpurious(r)

\* While a reader sleeps the end was not sent and every buffered element has
\* a reader awake to take it.
ReadersCovered ==
  Sleeping(b_pc, ChannelReaders) # {} =>
    /\ ~eof
    /\ Len(buffer) <= Cardinality(Awake(b_pc, ChannelReaders))

\* Elements come out once each and in order, also those still buffered when
\* the end is sent.
ChannelFifo == InOrder(written, read, buffer)

-----------------------------------------------------------------------------
(* ConcurrentBlockingQueue: an unbounded FIFO or priority queue.  Push     *)
(* decides under the mutex, from the number of consumers inside Pop,       *)
(* whether to notify, and notifies after the unlock.  SignalForKill makes  *)
(* every Pop return false.                                                 *)

ConcurrentQueueAssumption ==
  IsFiniteSet(Clients) /\ Type \in {"kFIFO", "kPriority"} /\ Prio \in [Values -> Int]

VARIABLES
  k_queue,    \* fifo_queue_ or priority_queue_
  exit_now,   \* exit_now_
  nwait,      \* nwait_consumer_
  k_pc,       \* what each client does
  pushed,     \* history: the values pushed
  k_popped,   \* history: the values popped
  k_log       \* history: the order of the pushes, see below

concurrentVars == <<k_queue, exit_now, nwait, k_pc, pushed, k_popped, k_log>>

\* Each value gets a rank when it is pushed, behind all others (hi) or, at the
\* front, before them (lo); inOrder says that each Pop took the value of lowest
\* rank, or of a heap one of greatest priority.
NoRanks == [lo |-> 0, hi |-> 1, rank |-> [v \in Values |-> 0], inOrder |-> TRUE]
Ranked(v, front) ==
  IF front THEN [k_log EXCEPT !.rank[v] = k_log.lo, !.lo = @ - 1]
           ELSE [k_log EXCEPT !.rank[v] = k_log.hi, !.hi = @ + 1]
Ranks == [i \in 1 .. Len(k_queue) |-> k_log.rank[k_queue[i]]]
IsFirst(v) ==
  \A i \in 1 .. Len(k_queue) :
    IF Type = "kFIFO" THEN k_log.rank[v] <= k_log.rank[k_queue[i]] ELSE Prio[k_queue[i]] <= Prio[v]

\* Push notifies when there are consumers inside Pop.
NotifyIfNew == nwait # 0 /\ k_queue = <<>>                            \* fault
Notifies == nwait # 0

Available == k_queue # <<>> \/ exit_now

\* The position of the element that Pop takes: the front of a FIFO, and any
\* element of greatest priority for a heap.
Best == {k \in DOMAIN k_queue : \A j \in DOMAIN k_queue : Prio[k_queue[j]] <= Prio[k_queue[k]]}
Takeable == IF Type = "kFIFO" THEN {1} ELSE Best

\* Pop gives up when the queue is exiting, whatever it holds.
GivesUp == exit_now

ConcurrentInit ==
  /\ k_queue = <<>> /\ exit_now = FALSE /\ nwait = 0
  /\ k_pc = [c \in Clients |-> "idle"]
  /\ pushed = {} /\ k_popped = {} /\ k_log = NoRanks

\* Push and PushFront up to the unlock; PushFront of a heap is Push.
Push(c, v, front) ==
  /\ k_pc[c] = "idle" /\ v \notin pushed
  /\ k_queue' = IF front THEN <<v>> \o k_queue ELSE Append(k_queue, v)
  /\ pushed' = pushed \cup {v} /\ k_log' = Ranked(v, front)
  /\ k_pc' = [k_pc EXCEPT ![c] = IF Notifies THEN "notify" ELSE "idle"]
  /\ UNCHANGED <<exit_now, nwait, k_popped>>
PushBack(c, v) == Push(c, v, FALSE)
PushFront(c, v) == Push(c, v, Type = "kFIFO")

Notify(c) ==
  /\ k_pc[c] = "notify"
  /\ k_pc' \in NotifyOne([k_pc EXCEPT ![c] = "idle"], Clients)
  /\ UNCHANGED <<k_queue, exit_now, nwait, pushed, k_popped, k_log>>

\* Pop finds nothing: it is counted in nwait_consumer_ and blocks.
PopWait(c) ==
  /\ k_pc[c] \in {"idle", "check"} /\ ~Available
  /\ nwait' = IF k_pc[c] = "idle" THEN nwait + 1 ELSE nwait
  /\ k_pc' = [k_pc EXCEPT ![c] = "wait"]
  /\ UNCHANGED <<k_queue, exit_now, pushed, k_popped, k_log>>

\* A consumer that never had to wait is not visible in nwait_consumer_
\* between two critical sections.
Return(c) ==
  /\ k_pc[c] \in {"idle", "check"} /\ Available
  /\ nwait' = IF k_pc[c] = "idle" THEN nwait ELSE nwait - 1
  /\ k_pc' = [k_pc EXCEPT ![c] = "idle"]

PopTrue(c) ==
  /\ Return(c) /\ ~GivesUp
  /\ \E k \in Takeable :
       /\ k_queue' = SubSeq(k_queue, 1, k - 1) \o SubSeq(k_queue, k + 1, Len(k_queue))
       /\ k_popped' = k_popped \cup {k_queue[k]}
       /\ k_log' = [k_log EXCEPT !.rank[k_queue[k]] = 0, !.inOrder = @ /\ IsFirst(k_queue[k])]
  /\ UNCHANGED <<exit_now, pushed>>

PopFalse(c) ==
  /\ Return(c) /\ GivesUp
  /\ UNCHANGED <<k_queue, exit_now, pushed, k_popped, k_log>>

SignalForKill(c) ==
  /\ k_pc[c] = "idle" /\ ~exit_now
  /\ exit_now' = TRUE
  /\ k_pc' = [k_pc EXCEPT ![c] = "kill"]
  /\ UNCHANGED <<k_queue, nwait, pushed, k_popped, k_log>>

KillNotified(c) ==
  /\ k_pc[c] = "kill"
  /\ k_pc' = NotifyAll([k_pc EXCEPT ![c] = "idle"], Clients)
  /\ UNCHANGED <<k_queue, exit_now, nwait, pushed, k_popped, k_log>>

PopSpurious(c) ==
  /\ k_pc[c] = "wait"
  /\ k_pc' = [k_pc EXCEPT ![c] = "check"]
  /\ UNCHANGED <<k_queue, exit_now, nwait, pushed, k_popped, k_log>>

Inside(c) ==
  /\ k_pc[c] # "idle"
  /\ PopWait(c) \/ PopTrue(c) \/ PopFalse(c) \/ Notify(c) \/ KillNotified(c)

ConcurrentNext ==
  \E c \in Clients :
    \/ \E v \in Values : PushBack(c, v) \/ PushFront(c, v)
    \/ Notify(c) \/ PopWait(c) \/ PopTrue(c) \/ PopFalse(c)
    \/ SignalForKill(c) \/ KillNotified(c) \/ PopSpurious(c)

InPop == {c \in Clients : k_pc[c] \in {"wait", "check"}}
Notifying == {c \in Clients : k_pc[c] = "notify"}

\* nwait_consumer_ counts exactly the consumers blocked in Pop or on their
\* way out of it, so Push never overlooks one.
NwaitExact == nwait = Cardinality(InPop)

\* Every value that was pushed is queued or was popped, and not both; the
\* values are kept in the order of their pushes at either end, and each Pop
\* hands out the first of them, or of a heap one of greatest priority.
ConcurrentDelivers ==
  /\ k_log.inOrder
  /\ Ascending(Len(k_queue), Ranks)
  /\ Elements(k_queue) \cap k_popped = {} /\ Elements(k_queue) \cup k_popped = pushed

\* Notifying from a stale count and after the unlock is enough: while a
\* consumer sleeps, each element is accounted for by an awake consumer or a
\* client about to notify, and a queue that exits has its notify_all ahead.
PoppersCovered ==
  Sleeping(k_pc, Clients) # {} =>
    IF exit_now THEN \E c \in Clients : k_pc[c] = "kill"
    ELSE Len(k_queue) <= Cardinality(Awake(k_pc, Clients)) + Cardinality(Notifying)

\* After SignalForKill no Pop hands out an element any more, not even one
\* that was queued before.
KilledPopsNothing == [][exit_now => k_popped' = k_popped]_concurrentVars

-----------------------------------------------------------------------------
(* The theorems.  First what a notification does to the numbers of clients *)
(* asleep and awake, and what a FIFO hands out.                            *)

\* r differs from p in what c does, and the numbers with it.
Moved(p, r, c, S) == \A d \in S : d # c => r[d] = p[d]
MovedOne(p, r, c, S) ==
  /\ Cardinality(Awake(p, S)) \in Nat /\ Cardinality(Awake(r, S)) \in Nat
  /\ c \notin S => Awake(r, S) = Awake(p, S) /\ Sleeping(r, S) = Sleeping(p, S)
  /\ c \in S /\ p[c] = "check" /\ r[c] # "check" =>
       Cardinality(Awake(r, S)) = Cardinality(Awake(p, S)) - 1
  /\ c \in S /\ p[c] # "check" /\ r[c] = "check" =>
       Cardinality(Awake(r, S)) = Cardinality(Awake(p, S)) + 1
  /\ p[c] # "check" /\ r[c] # "check" => Awake(r, S) = Awake(p, S)
  /\ r[c] # "wait" => Sleeping(r, S) \subseteq Sleeping(p, S)

LEMMA AwakeAfter ==
  ASSUME NEW S, IsFiniteSet(S), NEW p, NEW r, NEW c, Moved(p, r, c, S)
  PROVE  MovedOne(p, r, c, S)
<1>1. IsFiniteSet(Awake(p, S)) /\ IsFiniteSet(Awake(r, S))
  BY FS_Subset DEF Awake
<1>2. Cardinality(Awake(p, S)) \in Nat /\ Cardinality(Awake(r, S)) \in Nat
  BY <1>1, FS_CardinalityType
<1>3. ASSUME c \in S, p[c] = "check", r[c] # "check"
      PROVE  Cardinality(Awake(r, S)) = Cardinality(Awake(p, S)) - 1
  <2>1. c \in Awake(p, S) /\ Awake(r, S) = Awake(p, S) \ {c}
    BY <1>3 DEF Awake, Moved
  <2>2. Cardinality(Awake(p, S) \ {c}) = Cardinality(Awake(p, S)) - 1
    BY <2>1, <1>1, FS_RemoveElement
  <2> QED BY <2>1, <2>2
<1>4. ASSUME c \in S, p[c] # "check", r[c] = "check"
      PROVE  Cardinality(Awake(r, S)) = Cardinality(Awake(p, S)) + 1
  <2>1. c \notin Awake(p, S) /\ Awake(r, S) = Awake(p, S) \cup {c}
    BY <1>4 DEF Awake, Moved
  <2>2. Cardinality(Awake(p, S) \cup {c}) = Cardinality(Awake(p, S)) + 1
    BY <2>1, <1>1, FS_AddElement
  <2> QED BY <2>1, <2>2
<1>5. c \notin S => Awake(r, S) = Awake(p, S) /\ Sleeping(r, S) = Sleeping(p, S)
  BY DEF Awake, Sleeping, Moved
<1>6. p[c] # "check" /\ r[c] # "check" => Awake(r, S) = Awake(p, S)
  BY DEF Awake, Moved
<1>7. r[c] # "wait" => Sleeping(r, S) \subseteq Sleeping(p, S)
  BY DEF Sleeping, Moved
<1> QED BY <1>2, <1>3, <1>4, <1>5, <1>6, <1>7 DEF MovedOne

\* notify_one wakes one client of the condition variable, if there is one.
Notified(p, r, S, T, V) ==
  /\ r \in [T -> V]
  /\ \A c \in T : r[c] = p[c] \/ (c \in S /\ p[c] = "wait" /\ r[c] = "check")
  /\ Sleeping(r, S) \subseteq Sleeping(p, S)
  /\ Cardinality(Awake(r, S)) \in Nat /\ Cardinality(Awake(p, S)) \in Nat
  /\ Sleeping(r, S) # {} => Cardinality(Awake(r, S)) = Cardinality(Awake(p, S)) + 1

LEMMA NotifyOneWakes ==
  ASSUME NEW T, NEW V, "check" \in V, NEW p, p \in [T -> V], NEW S, S \subseteq T, IsFiniteSet(S),
         NEW r, r \in NotifyOne(p, S)
  PROVE  Notified(p, r, S, T, V)
<1>1. CASE Sleeping(p, S) = {}
  <2>1. r = p
    BY <1>1 DEF NotifyOne
  <2>2. IsFiniteSet(Awake(p, S))
    BY FS_Subset DEF Awake
  <2> QED BY <1>1, <2>1, <2>2, FS_CardinalityType DEF Notified
<1>2. CASE Sleeping(p, S) # {}
  <2>1. PICK c \in Sleeping(p, S) : r = [p EXCEPT ![c] = "check"]
    BY <1>2 DEF NotifyOne
  <2>2. c \in T /\ c \in S /\ p[c] = "wait"
    BY <2>1 DEF Sleeping
  <2>3. /\ r \in [T -> V]
        /\ \A d \in T : d # c => r[d] = p[d]
        /\ r[c] = "check"
    BY <2>1, <2>2
  <2>4. Moved(p, r, c, S)
    BY <2>3 DEF Moved
  <2>5. /\ Cardinality(Awake(p, S)) \in Nat /\ Cardinality(Awake(r, S)) \in Nat
        /\ Cardinality(Awake(r, S)) = Cardinality(Awake(p, S)) + 1
        /\ Sleeping(r, S) \subseteq Sleeping(p, S)
    <3>1. MovedOne(p, r, c, S)
      BY <2>4, AwakeAfter
    <3> QED BY <2>2, <2>3, <3>1 DEF MovedOne
  <2> QED BY <2>2, <2>3, <2>5 DEF Notified
<1> QED BY <1>1, <1>2

\* A step of one client, a notification, and a step of others keep the cover.
LEMMA CoveredMove ==
  ASSUME NEW S, IsFiniteSet(S), NEW p, NEW r, NEW c, Moved(p, r, c, S),
         NEW n \in Int, NEW m \in Int, Covered(p, S, n),
         \/ m <= 0
         \/ (c \notin S \/ r[c] = "check" \/ (p[c] # "check" /\ r[c] # "wait")) /\ m <= n
         \/ r[c] # "wait" /\ m <= n - 1
  PROVE  Covered(r, S, m)
<1>1. MovedOne(p, r, c, S)
  BY AwakeAfter
<1>2. CASE m <= 0
  BY <1>1, <1>2 DEF MovedOne, Covered
<1>3. CASE c \notin S /\ m <= n
  BY <1>1, <1>3 DEF MovedOne, Covered
<1>4. CASE c \in S /\ r[c] = "check" /\ m <= n
  <2>1. CASE p[c] = "check"
    <3>1. Awake(r, S) = Awake(p, S) /\ Sleeping(r, S) = Sleeping(p, S)
      BY <1>4, <2>1 DEF Moved, Awake, Sleeping
    <3> QED BY <1>1, <1>4, <3>1 DEF MovedOne, Covered
  <2>2. CASE p[c] # "check"
    BY <1>1, <1>4, <2>2 DEF MovedOne, Covered
  <2> QED BY <2>1, <2>2
<1>5. CASE c \in S /\ r[c] # "wait" /\ r[c] # "check" /\ m <= n /\ (p[c] = "check" => m <= n - 1)
  <2>1. CASE p[c] = "check"
    BY <1>1, <1>5, <2>1 DEF MovedOne, Covered
  <2>2. CASE p[c] # "check"
    BY <1>1, <1>5, <2>2 DEF MovedOne, Covered
  <2> QED BY <2>1, <2>2
<1> QED BY <1>2, <1>3, <1>4, <1>5

LEMMA CoveredNotify ==
  ASSUME NEW S, NEW T, NEW V, NEW p, NEW r, Notified(p, r, S, T, V),
         NEW n \in Int, NEW m \in Int, Covered(p, S, n), m <= n + 1
  PROVE  Covered(r, S, m)
  BY DEF Notified, Covered

LEMMA CoveredOther ==
  ASSUME NEW S, NEW p, NEW r, \A d \in S : r[d] = p[d], NEW n, Covered(p, S, n)
  PROVE  Covered(r, S, n)
<1>1. Awake(r, S) = Awake(p, S) /\ Sleeping(r, S) = Sleeping(p, S)
  BY DEF Awake, Sleeping
<1> QED BY <1>1 DEF Covered

\* The number of clients in one of the states M, when c moves.
In(p, S, M) == {c \in S : p[c] \in M}
CountMoved(p, r, c, S, M) ==
  /\ Cardinality(In(p, S, M)) \in Nat /\ Cardinality(In(r, S, M)) \in Nat
  /\ p[c] \in M /\ r[c] \notin M => Cardinality(In(r, S, M)) = Cardinality(In(p, S, M)) - 1
  /\ p[c] \notin M /\ r[c] \in M => Cardinality(In(r, S, M)) = Cardinality(In(p, S, M)) + 1
  /\ (p[c] \in M <=> r[c] \in M) => In(r, S, M) = In(p, S, M)

LEMMA CountAfter ==
  ASSUME NEW S, IsFiniteSet(S), NEW p, NEW r, NEW c \in S, Moved(p, r, c, S), NEW M
  PROVE  CountMoved(p, r, c, S, M)
<1>1. IsFiniteSet(In(p, S, M)) /\ IsFiniteSet(In(r, S, M))
  BY FS_Subset DEF In
<1>2. Cardinality(In(p, S, M)) \in Nat /\ Cardinality(In(r, S, M)) \in Nat
  BY <1>1, FS_CardinalityType
<1>3. ASSUME p[c] \in M, r[c] \notin M
      PROVE  Cardinality(In(r, S, M)) = Cardinality(In(p, S, M)) - 1
  <2>1. c \in In(p, S, M) /\ In(r, S, M) = In(p, S, M) \ {c}
    BY <1>3 DEF In, Moved
  <2>2. Cardinality(In(p, S, M) \ {c}) = Cardinality(In(p, S, M)) - 1
    BY <2>1, <1>1, FS_RemoveElement
  <2> QED BY <2>1, <2>2
<1>4. ASSUME p[c] \notin M, r[c] \in M
      PROVE  Cardinality(In(r, S, M)) = Cardinality(In(p, S, M)) + 1
  <2>1. c \notin In(p, S, M) /\ In(r, S, M) = In(p, S, M) \cup {c}
    BY <1>4 DEF In, Moved
  <2>2. Cardinality(In(p, S, M) \cup {c}) = Cardinality(In(p, S, M)) + 1
    BY <2>1, <1>1, FS_AddElement
  <2> QED BY <2>1, <2>2
<1>5. (p[c] \in M <=> r[c] \in M) => In(r, S, M) = In(p, S, M)
  BY DEF In, Moved
<1> QED BY <1>2, <1>3, <1>4, <1>5 DEF CountMoved

\* What is put in at the end comes out after what went in before.
\* One element more at the front or at the back of an ascending sequence, or a
\* part of it.
Between(n, f, lo, hi) == \A i \in 1 .. n : f[i] \in Int /\ lo < f[i] /\ f[i] < hi

LEMMA AscendFront ==
  ASSUME NEW n \in Nat, NEW f, NEW g, NEW lo \in Int, NEW hi \in Int, lo < hi,
         Ascending(n, f), Between(n, f, lo, hi),
         g[1] = lo, \A i \in 1 .. n + 1 : i # 1 => g[i] = f[i - 1]
  PROVE  Ascending(n + 1, g) /\ Between(n + 1, g, lo - 1, hi)
<1>1. \A i \in 1 .. n + 1 : i # 1 => i - 1 \in 1 .. n /\ g[i] = f[i - 1]
  OBVIOUS
<1>2. Between(n + 1, g, lo - 1, hi)
  <2> SUFFICES ASSUME NEW i \in 1 .. n + 1 PROVE g[i] \in Int /\ lo - 1 < g[i] /\ g[i] < hi
    BY DEF Between
  <2>1. CASE i = 1
    BY <2>1
  <2>2. CASE i # 1
    <3>1. i - 1 \in 1 .. n /\ g[i] = f[i - 1]
      BY <1>1, <2>2
    <3>2. f[i - 1] \in Int /\ lo < f[i - 1] /\ f[i - 1] < hi
      BY <3>1 DEF Between
    <3> QED BY <3>1, <3>2
  <2> QED BY <2>1, <2>2
<1>3. Ascending(n + 1, g)
  <2> SUFFICES ASSUME NEW i \in 1 .. n + 1, NEW j \in 1 .. n + 1, i < j PROVE g[i] < g[j]
    BY DEF Ascending
  <2>1. j # 1 /\ j - 1 \in 1 .. n /\ g[j] = f[j - 1]
    BY <1>1
  <2>2. CASE i = 1
    BY <2>1, <2>2 DEF Between
  <2>3. CASE i # 1
    <3>1. i - 1 \in 1 .. n /\ g[i] = f[i - 1] /\ i - 1 < j - 1
      BY <1>1, <2>3
    <3> QED BY <2>1, <3>1 DEF Ascending
  <2> QED BY <2>2, <2>3
<1> QED BY <1>2, <1>3

LEMMA AscendBack ==
  ASSUME NEW n \in Nat, NEW f, NEW g, NEW lo \in Int, NEW hi \in Int, lo < hi,
         Ascending(n, f), Between(n, f, lo, hi),
         g[n + 1] = hi, \A i \in 1 .. n : g[i] = f[i]
  PROVE  Ascending(n + 1, g) /\ Between(n + 1, g, lo, hi + 1)
<1>1. \A i \in 1 .. n + 1 : i = n + 1 \/ i \in 1 .. n
  OBVIOUS
<1>2. Between(n + 1, g, lo, hi + 1)
  <2> SUFFICES ASSUME NEW i \in 1 .. n + 1 PROVE g[i] \in Int /\ lo < g[i] /\ g[i] < hi + 1
    BY DEF Between
  <2>1. CASE i = n + 1
    BY <2>1
  <2>2. CASE i \in 1 .. n
    BY <2>2 DEF Between
  <2> QED BY <1>1, <2>1, <2>2
<1>3. Ascending(n + 1, g)
  <2> SUFFICES ASSUME NEW i \in 1 .. n + 1, NEW j \in 1 .. n + 1, i < j PROVE g[i] < g[j]
    BY DEF Ascending
  <2>1. i \in 1 .. n
    OBVIOUS
  <2>2. CASE j = n + 1
    BY <2>1, <2>2 DEF Between
  <2>3. CASE j \in 1 .. n
    BY <2>1, <2>3 DEF Ascending
  <2> QED BY <1>1, <2>2, <2>3
<1> QED BY <1>2, <1>3

LEMMA AscendPart ==
  ASSUME NEW n \in Nat, NEW m \in Nat, NEW f, NEW g, NEW lo \in Int, NEW hi \in Int, NEW at,
         Ascending(n, f), Between(n, f, lo, hi),
         \A i \in 1 .. m : at[i] \in 1 .. n /\ g[i] = f[at[i]],
         \A i, j \in 1 .. m : i < j => at[i] < at[j]
  PROVE  Ascending(m, g) /\ Between(m, g, lo, hi)
<1>1. Between(m, g, lo, hi)
  BY DEF Between
<1>2. Ascending(m, g)
  <2> SUFFICES ASSUME NEW i \in 1 .. m, NEW j \in 1 .. m, i < j PROVE g[i] < g[j]
    BY DEF Ascending
  <2>1. at[i] \in 1 .. n /\ at[j] \in 1 .. n /\ at[i] < at[j] /\ g[i] = f[at[i]] /\ g[j] = f[at[j]]
    OBVIOUS
  <2> QED BY <2>1 DEF Ascending
<1> QED BY <1>1, <1>2

\* What a push at either end, and the removal of the k-th element, make of a
\* sequence.
LEMMA Prepended ==
  ASSUME NEW S, NEW q \in Seq(S), NEW v \in S, NEW p, p = <<v>> \o q
  PROVE  /\ Len(p) = Len(q) + 1 /\ p[1] = v
         /\ \A i \in 1 .. Len(q) + 1 : i # 1 => i - 1 \in 1 .. Len(q) /\ p[i] = q[i - 1]
         /\ Elements(p) = {v} \cup Elements(q)
<1> DEFINE n == Len(q)
<1>0. n \in Nat
  BY LenProperties
<1>1. <<v>> \in Seq(S) /\ Len(<<v>>) = 1 /\ <<v>>[1] = v
  OBVIOUS
<1>2. /\ Len(p) = 1 + n
      /\ \A i \in 1 .. 1 + n : p[i] = IF i <= 1 THEN <<v>>[i] ELSE q[i - 1]
  BY <1>1, ConcatProperties
<1> HIDE DEF n
<1>3. Len(p) = n + 1 /\ p[1] = v
  BY <1>0, <1>1, <1>2
<1>4. \A i \in 1 .. n + 1 : i # 1 => i - 1 \in 1 .. n /\ p[i] = q[i - 1]
  BY <1>0, <1>2
<1>5. \A i \in 1 .. n : i + 1 \in 1 .. n + 1 /\ p[i + 1] = q[i]
  <2> TAKE i \in 1 .. n
  <2>1. i + 1 \in 1 .. n + 1 /\ i + 1 # 1 /\ (i + 1) - 1 = i
    BY <1>0
  <2> QED BY <1>4, <2>1
<1>6. Elements(p) = {v} \cup Elements(q)
  <2>1. 1 \in 1 .. n + 1
    BY <1>0
  <2> QED BY <1>3, <1>4, <1>5, <2>1 DEF Elements, n
<1> QED BY <1>3, <1>4, <1>6 DEF n

LEMMA Appended ==
  ASSUME NEW S, NEW q \in Seq(S), NEW v \in S, NEW p, p = Append(q, v)
  PROVE  /\ Len(p) = Len(q) + 1 /\ p[Len(q) + 1] = v
         /\ \A i \in 1 .. Len(q) : p[i] = q[i]
         /\ Elements(p) = {v} \cup Elements(q)
<1> DEFINE n == Len(q)
<1>0. n \in Nat
  BY LenProperties
<1>1. Len(p) = n + 1 /\ p[n + 1] = v /\ \A i \in 1 .. n : p[i] = q[i]
  BY AppendProperties
<1> HIDE DEF n
<1>2. /\ \A i \in 1 .. n + 1 : i = n + 1 \/ i \in 1 .. n
      /\ \A i \in 1 .. n : i \in 1 .. n + 1
      /\ n + 1 \in 1 .. n + 1
  BY <1>0
<1> QED BY <1>1, <1>2 DEF Elements, n

At(k, i) == IF i < k THEN i ELSE i + 1
Cut(q, k) == SubSeq(q, 1, k - 1) \o SubSeq(q, k + 1, Len(q))
LEMMA Removed ==
  ASSUME NEW S, NEW q \in Seq(S), NEW k \in 1 .. Len(q)
  PROVE  /\ Len(Cut(q, k)) = Len(q) - 1
         /\ \A i \in 1 .. Len(q) - 1 :
              Cut(q, k)[i] = q[At(k, i)] /\ At(k, i) \in (1 .. Len(q)) \ {k}
         /\ \A i, j \in 1 .. Len(q) - 1 : i < j => At(k, i) < At(k, j)
         /\ \A j \in (1 .. Len(q)) \ {k} : \E i \in 1 .. Len(q) - 1 : At(k, i) = j
<1> DEFINE n == Len(q)
           a == SubSeq(q, 1, k - 1)
           b == SubSeq(q, k + 1, n)
           p == Cut(q, k)
<1>0. n \in Nat /\ k \in 1 .. n /\ k \in Nat
  BY LenProperties
<1>v. \A i \in 1 .. n : q[i] \in S
  BY ElementOfSeq
<1>1. a \in Seq(S) /\ Len(a) = k - 1 /\ \A i \in 1 .. k - 1 : a[i] = q[i]
  <2>1. 1 \in Int /\ k - 1 \in Int /\ \A i \in 1 .. k - 1 : q[i] \in S
    BY <1>0, <1>v
  <2>2. /\ a \in Seq(S) /\ Len(a) = IF 1 <= k - 1 THEN (k - 1) - 1 + 1 ELSE 0
        /\ \A i \in 1 .. (k - 1) - 1 + 1 : a[i] = q[1 + i - 1]
    BY <2>1, SubSeqProperties
  <2> HIDE DEF a
  <2>3. (k - 1) - 1 + 1 = k - 1 /\ (IF 1 <= k - 1 THEN (k - 1) - 1 + 1 ELSE 0) = k - 1
    BY <1>0
  <2>4. \A i \in 1 .. k - 1 : 1 + i - 1 = i
    BY <1>0
  <2> QED BY <2>2, <2>3, <2>4
<1>2. b \in Seq(S) /\ Len(b) = n - k /\ \A i \in 1 .. n - k : b[i] = q[k + i]
  <2>1. k + 1 \in Int /\ n \in Int /\ \A i \in k + 1 .. n : q[i] \in S
    BY <1>0, <1>v
  <2>2. /\ b \in Seq(S) /\ Len(b) = IF k + 1 <= n THEN n - (k + 1) + 1 ELSE 0
        /\ \A i \in 1 .. n - (k + 1) + 1 : b[i] = q[(k + 1) + i - 1]
    <3> HIDE DEF n
    <3> QED BY <2>1, SubSeqProperties
  <2> HIDE DEF b, n
  <2>3. n - (k + 1) + 1 = n - k /\ (IF k + 1 <= n THEN n - (k + 1) + 1 ELSE 0) = n - k
    BY <1>0
  <2>4. \A i \in 1 .. n - k : (k + 1) + i - 1 = k + i
    BY <1>0
  <2> QED BY <2>2, <2>3, <2>4
<1>3. /\ Len(p) = (k - 1) + (n - k)
      /\ \A i \in 1 .. (k - 1) + (n - k) : p[i] = IF i <= k - 1 THEN a[i] ELSE b[i - (k - 1)]
  <2>1. p = a \o b
    BY DEF Cut
  <2>2. a \in Seq(S) /\ b \in Seq(S) /\ Len(a) = k - 1 /\ Len(b) = n - k
    BY <1>1, <1>2
  <2> HIDE DEF a, b, n, p
  <2>3. /\ Len(a \o b) = Len(a) + Len(b)
        /\ \A i \in 1 .. Len(a) + Len(b) : (a \o b)[i] = IF i <= Len(a) THEN a[i] ELSE b[i - Len(a)]
    BY <2>2, ConcatProperties
  <2> QED BY <2>1, <2>2, <2>3, Zenon
<1> HIDE DEF a, b, n, p
<1>4. (k - 1) + (n - k) = n - 1
  BY <1>0
<1>5. ASSUME NEW i \in 1 .. n - 1 PROVE p[i] = q[At(k, i)] /\ At(k, i) \in 1 .. n \ {k}
  <2>1. CASE i < k
    <3>1. i \in 1 .. k - 1 /\ i <= k - 1 /\ i \in 1 .. n /\ i # k
      BY <1>0, <2>1
    <3> QED BY <1>1, <1>3, <1>4, <2>1, <3>1 DEF At
  <2>2. CASE ~(i < k)
    <3>1. /\ i - (k - 1) \in 1 .. n - k /\ k + (i - (k - 1)) = i + 1 /\ ~(i <= k - 1)
          /\ i + 1 \in 1 .. n /\ i + 1 # k
      BY <1>0, <2>2
    <3>2. b[i - (k - 1)] = q[k + (i - (k - 1))]
      BY <1>2, <3>1
    <3>3. p[i] = b[i - (k - 1)]
      BY <1>3, <1>4, <3>1
    <3> QED BY <2>2, <3>1, <3>2, <3>3 DEF At
  <2> QED BY <2>1, <2>2
<1>6. \A i, j \in 1 .. n - 1 : i < j => At(k, i) < At(k, j)
  BY <1>0 DEF At
<1>7. ASSUME NEW j \in 1 .. n \ {k} PROVE \E i \in 1 .. n - 1 : At(k, i) = j
  <2>1. CASE j < k
    <3>1. j \in 1 .. n - 1 /\ At(k, j) = j
      BY <1>0, <2>1 DEF At
    <3> QED BY <3>1
  <2>2. CASE j > k
    <3>1. j - 1 \in 1 .. n - 1 /\ At(k, j - 1) = j
      BY <1>0, <2>2 DEF At
    <3> QED BY <3>1
  <2> QED BY <1>0, <2>1, <2>2
<1> QED BY <1>3, <1>4, <1>5, <1>6, <1>7 DEF n, p

LEMMA FifoEmpty == InOrder(<<>>, <<>>, <<>>)
  BY EmptySeq, ConcatEmptySeq DEF InOrder

LEMMA FifoPut ==
  ASSUME NEW S, NEW in, NEW out \in Seq(S), NEW q \in Seq(S), NEW v \in S, InOrder(in, out, q)
  PROVE  InOrder(Append(in, v), out, Append(q, v))
<1>1. <<v>> \in Seq(S) /\ in \in Seq(S) /\ in = out \o q
  BY ConcatProperties DEF InOrder
<1>2. Append(in, v) = in \o <<v>> /\ Append(q, v) = q \o <<v>>
  BY <1>1, AppendIsConcat
<1>3. (out \o q) \o <<v>> = out \o (q \o <<v>>)
  BY <1>1, ConcatAssociative
<1> QED BY <1>1, <1>2, <1>3 DEF InOrder

LEMMA FifoTake ==
  ASSUME NEW S, NEW in, NEW out \in Seq(S), NEW q \in Seq(S), q # <<>>, InOrder(in, out, q)
  PROVE  InOrder(in, Append(out, Head(q)), Tail(q))
<1>1. Head(q) \in S /\ Tail(q) \in Seq(S) /\ <<Head(q)>> \in Seq(S)
  BY HeadTailProperties
<1>2. q = <<Head(q)>> \o Tail(q)
  <2>1. Len(q) \in Nat \ {0} /\ Head(q) = q[1]
    BY EmptySeq
  <2>2. 1 \in 1 .. Len(q) /\ Len(q) \in 1 .. Len(q)
    BY <2>1
  <2>3. SubSeq(q, 1, Len(q)) = <<q[1]>> \o SubSeq(q, 1 + 1, Len(q))
    BY <2>2, SubSeqRecursiveFirst
  <2> QED BY <2>1, <2>3, SubSeqFull, TailIsSubSeq
<1>3. Append(out, Head(q)) = out \o <<Head(q)>>
  BY <1>1, AppendIsConcat
<1>4. (out \o <<Head(q)>>) \o Tail(q) = out \o (<<Head(q)>> \o Tail(q))
  BY <1>1, ConcatAssociative
<1> QED BY <1>2, <1>3, <1>4 DEF InOrder

-----------------------------------------------------------------------------
(* SimpleBlockingQueue.                                                    *)

SimpleSpec == SimpleInit /\ [][SimpleNext]_simpleVars

SimpleInv ==
  /\ SimpleTypeOK /\ s_produced \in Seq(SimpleValues) /\ s_consumed \in Seq(SimpleValues)
  /\ CountExact /\ NobodySleepsReady /\ SimpleFifo

LEMMA SimpleKeeps ==
  ASSUME SimpleQueueAssumption, SimpleInv, SimpleNext
  PROVE  SimpleInv'
<1>1. PICK c \in Callers : enqueue(c) \/ SimpleCall(c) \/ SimpleRunning(c) \/ SimpleSpurious(c)
  BY DEF SimpleNext
<1>2. CASE enqueue(c)
  <2>1. PICK v \in SimpleValues : elements' = Append(elements, v) /\ s_produced' = Append(s_produced, v)
    BY <1>2 DEF enqueue
  <2>2. /\ elements' \in Seq(SimpleValues) /\ s_produced' \in Seq(SimpleValues)
        /\ Len(elements') = Len(elements) + 1
    BY <2>1, AppendProperties DEF SimpleInv, SimpleTypeOK
  <2>3. SimpleFifo'
    BY <1>2, <2>1, FifoPut DEF SimpleInv, SimpleTypeOK, SimpleFifo, enqueue
  <2>4. /\ s_pc' \in [Callers -> {"idle", "check", "wait", "expired"}]
        /\ \A d \in Callers : s_pc'[d] # "wait"
    BY <1>2 DEF enqueue, EnqueueNotify, NotifyAll, SimpleInv, SimpleTypeOK
  <2> QED
    BY <1>2, <2>2, <2>3, <2>4
    DEF enqueue, SimpleInv, SimpleTypeOK, CountExact, NobodySleepsReady
<1>3. CASE dequeue(c)
  <2>1. elements # <<>> /\ Len(elements) \in Nat
    BY <1>3, EmptySeq, LenProperties DEF dequeue, Ready, SimpleInv, SimpleTypeOK, CountExact
  <2>2. /\ Head(elements) \in SimpleValues /\ elements' \in Seq(SimpleValues)
        /\ Len(elements') = Len(elements) - 1
    BY <1>3, <2>1, HeadTailProperties DEF dequeue, SimpleInv, SimpleTypeOK
  <2>3. s_consumed' \in Seq(SimpleValues)
    BY <1>3, <2>2, AppendProperties DEF dequeue, SimpleInv
  <2>4. SimpleFifo'
    BY <1>3, <2>1, FifoTake DEF dequeue, SimpleInv, SimpleTypeOK, SimpleFifo
  <2>5. numElements' = numElements - 1 /\ numElements # 0 /\ numElements' \in Nat
    BY <1>3, <2>1 DEF dequeue, Ready, SimpleInv, SimpleTypeOK, CountExact
  <2>6. s_pc' \in [Callers -> {"idle", "check", "wait", "expired"}]
    BY <1>3 DEF dequeue, DequeueNotify, NotifyAll, SimpleInv, SimpleTypeOK
  <2>7. NobodySleepsReady'
    <3>1. CASE numElements' = 0
      <4>1. \A d \in Callers : s_pc'[d] # "wait"
        BY <1>3, <3>1 DEF dequeue, DequeueNotify, NotifyAll, SimpleInv, SimpleTypeOK
      <4> QED BY <4>1 DEF NobodySleepsReady
    <3>2. CASE numElements' # 0
      <4>1. \A d \in Callers : s_pc'[d] = "wait" => s_pc[d] = "wait"
        BY <1>3, <3>2 DEF dequeue, DequeueNotify, SimpleInv, SimpleTypeOK
      <4> QED BY <2>5, <3>2, <4>1 DEF NobodySleepsReady, Ready, SimpleInv
    <3> QED BY <3>1, <3>2
  <2>8. CountExact'
    BY <2>2, <2>5 DEF CountExact, SimpleInv
  <2> QED
    BY <1>3, <2>2, <2>3, <2>4, <2>5, <2>6, <2>7, <2>8 DEF dequeue, SimpleInv, SimpleTypeOK
<1>4. CASE SimpleCall(c) \/ SimpleWait(c) \/ waitEmpty(c) \/ SimpleTimeout(c) \/ SimpleSpurious(c)
  <2>1. UNCHANGED <<elements, numElements, s_produced, s_consumed, result>>
    BY <1>4 DEF SimpleCall, SimpleWait, waitEmpty, SimpleTimeout, SimpleSpurious
  <2>2. /\ s_pc' \in [Callers -> {"idle", "check", "wait", "expired"}]
        /\ NobodySleepsReady'
    BY <1>4, <2>1
    DEF SimpleCall, SimpleWait, waitEmpty, SimpleTimeout, SimpleSpurious, SimpleInv, SimpleTypeOK,
        NobodySleepsReady, Ready
  <2> QED BY <2>1, <2>2 DEF SimpleInv, SimpleTypeOK, CountExact, SimpleFifo
<1>5. CASE waitNotEmptyFor(c)
  <2>1. UNCHANGED <<elements, numElements, s_produced, s_consumed>>
    BY <1>5 DEF waitNotEmptyFor
  <2>2. Ready(c) \in BOOLEAN
    BY DEF Ready
  <2>3. result' \in [Callers -> BOOLEAN]
    BY <1>5, <2>2 DEF waitNotEmptyFor, SimpleInv, SimpleTypeOK
  <2>4. /\ s_pc' \in [Callers -> {"idle", "check", "wait", "expired"}]
        /\ NobodySleepsReady'
    BY <1>5, <2>1 DEF waitNotEmptyFor, SimpleInv, SimpleTypeOK, NobodySleepsReady, Ready
  <2> QED BY <2>1, <2>3, <2>4 DEF SimpleInv, SimpleTypeOK, CountExact, SimpleFifo
<1> QED BY <1>1, <1>2, <1>3, <1>4, <1>5 DEF SimpleRunning

\* SimpleBlockingQueue wakes everybody it has to, on its one condition
\* variable, counts its elements exactly and is a FIFO.
THEOREM SimpleQueueSafe ==
  ASSUME SimpleQueueAssumption
  PROVE  SimpleSpec => [](NobodySleepsReady /\ SimpleFifo /\ CountExact /\ SimpleTypeOK)
<1>1. SimpleInit => SimpleInv
  <2> SUFFICES ASSUME SimpleInit PROVE SimpleInv
    OBVIOUS
  <2>1. elements \in Seq(SimpleValues) /\ s_produced \in Seq(SimpleValues) /\ s_consumed \in Seq(SimpleValues)
        /\ Len(elements) = 0
    BY EmptySeq DEF SimpleInit
  <2>2. SimpleFifo
    BY FifoEmpty DEF SimpleInit, SimpleFifo
  <2> QED
    BY <2>1, <2>2 DEF SimpleInit, SimpleInv, SimpleTypeOK, CountExact, NobodySleepsReady
<1>2. SimpleInv /\ [SimpleNext]_simpleVars => SimpleInv'
  <2>1. ASSUME SimpleInv, UNCHANGED simpleVars PROVE SimpleInv'
    BY <2>1
    DEF SimpleInv, SimpleTypeOK, CountExact, NobodySleepsReady, SimpleFifo, Ready, simpleVars
  <2> QED BY <2>1, SimpleKeeps
<1>3. SimpleInv => NobodySleepsReady /\ SimpleFifo /\ CountExact /\ SimpleTypeOK
  BY DEF SimpleInv
<1> QED BY <1>1, <1>2, <1>3, PTL DEF SimpleSpec

-----------------------------------------------------------------------------
(* BlockChannel.                                                           *)

ChannelSpec == ChannelInit /\ [][ChannelNext]_channelVars

ChannelTypeOK ==
  /\ buffer \in Seq(Values) /\ written \in Seq(Values) /\ read \in Seq(Values)
  /\ eof \in BOOLEAN
  /\ b_pc \in [ChannelReaders -> {"idle", "check", "wait"}]
ChannelInv == ChannelTypeOK /\ ReadersCovered /\ ChannelFifo

LEMMA ChannelKeeps ==
  ASSUME ChannelAssumption, ChannelInv, ChannelNext
  PROVE  ChannelInv'
<1> DEFINE P == {"idle", "check", "wait"}
           a == Cardinality(Awake(b_pc, ChannelReaders))
           s == Sleeping(b_pc, ChannelReaders)
<1>0. /\ b_pc \in [ChannelReaders -> P] /\ buffer \in Seq(Values) /\ read \in Seq(Values)
      /\ IsFiniteSet(ChannelReaders) /\ "check" \in P /\ Len(buffer) \in Nat
  BY LenProperties DEF ChannelInv, ChannelTypeOK, ChannelAssumption
<1>1. ASSUME SendEof PROVE ChannelInv'
  <2>1. /\ b_pc' \in [ChannelReaders -> P]
        /\ Sleeping(b_pc, ChannelReaders)' = {}
    BY <1>0, <1>1 DEF SendEof, NotifyAll, Sleeping
  <2> QED BY <1>1, <2>1 DEF SendEof, ChannelInv, ChannelTypeOK, ReadersCovered, ChannelFifo
<1>2. ASSUME NEW v \in Values, Write(v) PROVE ChannelInv'
  <2>1. /\ buffer' \in Seq(Values) /\ written' \in Seq(Values)
        /\ Len(buffer') = Len(buffer) + 1
    BY <1>2, AppendProperties DEF Write, ChannelInv, ChannelTypeOK
  <2>2. ChannelFifo'
    BY <1>0, <1>2, FifoPut DEF Write, ChannelInv, ChannelFifo
  <2>3. /\ b_pc' \in [ChannelReaders -> P]
        /\ Sleeping(b_pc', ChannelReaders) \subseteq s
        /\ Cardinality(Awake(b_pc', ChannelReaders)) \in Nat /\ a \in Nat
        /\ Sleeping(b_pc', ChannelReaders) # {} =>
             Cardinality(Awake(b_pc', ChannelReaders)) = a + 1
    <3>1. b_pc' \in NotifyOne(b_pc, ChannelReaders)
      BY <1>2 DEF Write
    <3>2. Notified(b_pc, b_pc', ChannelReaders, ChannelReaders, P)
      BY <1>0, <3>1, NotifyOneWakes
    <3> QED BY <3>2 DEF Notified
  <2>4. ReadersCovered'
    BY <1>0, <1>2, <2>1, <2>3 DEF Write, ReadersCovered, ChannelInv
  <2> QED BY <1>2, <2>1, <2>2, <2>3, <2>4 DEF Write, ChannelInv, ChannelTypeOK
<1>3. ASSUME NEW r \in ChannelReaders, Read(r) \/ ChannelSpurious(r) PROVE ChannelInv'
  <2>1. /\ b_pc' = [b_pc EXCEPT ![r] = "check"] /\ b_pc[r] # "check"
        /\ UNCHANGED <<buffer, eof, written, read>>
    BY <1>3 DEF Read, ChannelSpurious
  <2>2. b_pc' \in [ChannelReaders -> P] /\ b_pc'[r] = "check" /\ Moved(b_pc, b_pc', r, ChannelReaders)
    BY <1>0, <2>1 DEF Moved
  <2>3. /\ Cardinality(Awake(b_pc', ChannelReaders)) = a + 1 /\ a \in Nat
        /\ Sleeping(b_pc', ChannelReaders) \subseteq s
    <3>1. MovedOne(b_pc, b_pc', r, ChannelReaders)
      BY <1>0, <2>2, AwakeAfter
    <3> QED BY <2>1, <2>2, <3>1 DEF MovedOne
  <2>4. ReadersCovered'
    <3>1. eof' = eof /\ buffer' = buffer
      BY <2>1
    <3> QED BY <1>0, <2>3, <3>1 DEF ReadersCovered, ChannelInv
  <2> QED BY <2>1, <2>2, <2>4 DEF ChannelInv, ChannelTypeOK, ChannelFifo
<1>4. ASSUME NEW r \in ChannelReaders, ReadWait(r) PROVE ChannelInv'
  <2>1. /\ b_pc' = [b_pc EXCEPT ![r] = "wait"] /\ buffer = <<>> /\ ~eof
        /\ UNCHANGED <<buffer, eof, written, read>>
    BY <1>4 DEF ReadWait, Readable
  <2>2. b_pc' \in [ChannelReaders -> P] /\ Moved(b_pc, b_pc', r, ChannelReaders)
    BY <1>0, <2>1 DEF Moved
  <2>3. Cardinality(Awake(b_pc', ChannelReaders)) \in Nat
    <3>1. MovedOne(b_pc, b_pc', r, ChannelReaders)
      BY <1>0, <2>2, AwakeAfter
    <3> QED BY <2>2, <3>1 DEF MovedOne
  <2>4. ReadersCovered'
    BY <2>1, <2>3, EmptySeq DEF ReadersCovered
  <2> QED BY <2>1, <2>2, <2>4 DEF ChannelInv, ChannelTypeOK, ChannelFifo
<1>5. ASSUME NEW r \in ChannelReaders, ReadEnd(r) PROVE ChannelInv'
  <2>1. /\ b_pc' = [b_pc EXCEPT ![r] = "idle"] /\ eof
        /\ UNCHANGED <<buffer, eof, written, read>>
    BY <1>5 DEF ReadEnd, EndReached
  <2>2. /\ b_pc' \in [ChannelReaders -> P] /\ b_pc'[r] = "idle"
        /\ Moved(b_pc, b_pc', r, ChannelReaders)
    BY <1>0, <2>1 DEF Moved
  <2>3. Sleeping(b_pc', ChannelReaders) \subseteq s
    <3>1. MovedOne(b_pc, b_pc', r, ChannelReaders)
      BY <1>0, <2>2, AwakeAfter
    <3> QED BY <2>2, <3>1 DEF MovedOne
  <2>4. ReadersCovered'
    BY <2>1, <2>3 DEF ReadersCovered, ChannelInv
  <2> QED BY <2>1, <2>2, <2>4 DEF ChannelInv, ChannelTypeOK, ChannelFifo
<1>6. ASSUME NEW r \in ChannelReaders, ReadTake(r) PROVE ChannelInv'
  <2> DEFINE p == [b_pc EXCEPT ![r] = "idle"]
  <2>1. buffer # <<>> /\ b_pc[r] = "check" /\ b_pc' \in NotifyOne(p, ChannelReaders)
    BY <1>6 DEF ReadTake, Readable, EndReached
  <2>2. /\ Head(buffer) \in Values /\ buffer' \in Seq(Values) /\ Len(buffer') = Len(buffer) - 1
        /\ read' \in Seq(Values)
    BY <1>0, <1>6, <2>1, HeadTailProperties, AppendProperties DEF ReadTake
  <2>3. ChannelFifo'
    BY <1>0, <1>6, <2>1, FifoTake DEF ReadTake, ChannelInv, ChannelFifo
  <2>4. p \in [ChannelReaders -> P] /\ p[r] = "idle" /\ Moved(b_pc, p, r, ChannelReaders)
    BY <1>0 DEF Moved
  <2> HIDE DEF p
  <2>5. /\ Cardinality(Awake(p, ChannelReaders)) = a - 1 /\ a \in Nat
        /\ Sleeping(p, ChannelReaders) \subseteq s
    <3>1. MovedOne(b_pc, p, r, ChannelReaders)
      BY <1>0, <2>4, AwakeAfter
    <3> QED BY <2>1, <2>4, <3>1 DEF MovedOne
  <2>6. /\ b_pc' \in [ChannelReaders -> P]
        /\ Sleeping(b_pc', ChannelReaders) \subseteq Sleeping(p, ChannelReaders)
        /\ Sleeping(b_pc', ChannelReaders) # {} =>
             Cardinality(Awake(b_pc', ChannelReaders)) = Cardinality(Awake(p, ChannelReaders)) + 1
    <3>1. Notified(p, b_pc', ChannelReaders, ChannelReaders, P)
      BY <1>0, <2>1, <2>4, NotifyOneWakes
    <3> QED BY <3>1 DEF Notified
  <2>7. ReadersCovered'
    BY <1>0, <1>6, <2>2, <2>5, <2>6 DEF ReadTake, ReadersCovered, ChannelInv
  <2> QED BY <1>6, <2>2, <2>3, <2>6, <2>7 DEF ReadTake, ChannelInv, ChannelTypeOK
<1> QED BY <1>1, <1>2, <1>3, <1>4, <1>5, <1>6 DEF ChannelNext, ReadRunning

\* One notification per Write and per Read, and one broadcast at the end, leave
\* no reader of a BlockChannel asleep beside an element or after the end, and
\* elements are read in the order in which they were written.
THEOREM ChannelSafe ==
  ASSUME ChannelAssumption
  PROVE  ChannelSpec => [](ReadersCovered /\ ChannelFifo)
<1>1. ChannelInit => ChannelInv
  <2> SUFFICES ASSUME ChannelInit PROVE ChannelInv
    OBVIOUS
  <2>1. buffer \in Seq(Values) /\ written \in Seq(Values) /\ read \in Seq(Values)
    BY EmptySeq DEF ChannelInit
  <2>2. ChannelFifo
    BY FifoEmpty DEF ChannelInit, ChannelFifo
  <2> QED
    BY <2>1, <2>2 DEF ChannelInit, ChannelInv, ChannelTypeOK, ReadersCovered, Sleeping
<1>2. ChannelInv /\ [ChannelNext]_channelVars => ChannelInv'
  <2>1. ASSUME ChannelInv, UNCHANGED channelVars PROVE ChannelInv'
    BY <2>1 DEF ChannelInv, ChannelTypeOK, ReadersCovered, ChannelFifo, channelVars
  <2> QED BY <2>1, ChannelKeeps
<1>3. ChannelInv => ReadersCovered /\ ChannelFifo
  BY DEF ChannelInv
<1> QED BY <1>1, <1>2, <1>3, PTL DEF ChannelSpec

-----------------------------------------------------------------------------
(* SimpleCircularQueue and MPMCBlockingQueue.                              *)

CircularSpec == CircularInit /\ [][CircularNext]_circularVars

CircularInv ==
  /\ CircularTypeOK /\ c_produced \in Seq(Values) /\ c_consumed \in Seq(Values)
  /\ UsersCovered /\ CircularFifo
  /\ ~Bounded => \A p \in Producers : c_pc[p] # "wait"

LEMMA CircularKeeps ==
  ASSUME CircularQueueAssumption, CircularInv, CircularNext
  PROVE  CircularInv'
<1> DEFINE P == {"idle", "check", "wait"}
           q == Len(c_queue)
<1>0. /\ c_pc \in [Users -> P] /\ "check" \in P
      /\ c_queue \in Seq(Values) /\ c_produced \in Seq(Values) /\ c_consumed \in Seq(Values)
      /\ q \in Nat /\ Capacity \in Nat /\ Capacity > 0
      /\ Covered(c_pc, Consumers, q) /\ Covered(c_pc, Producers, Capacity - q)
      /\ IsFiniteSet(Producers) /\ IsFiniteSet(Consumers)
      /\ Producers \subseteq Users /\ Consumers \subseteq Users
  BY LenProperties DEF CircularInv, CircularTypeOK, CircularQueueAssumption, UsersCovered, Users
<1>s. Producers \cap Consumers = {} /\ Users = Producers \cup Consumers
  BY DEF CircularQueueAssumption, Users
<1>1. ASSUME NEW c \in Users, CircularCall(c) \/ CircularSpurious(c) PROVE CircularInv'
  <2>1. /\ c_pc' = [c_pc EXCEPT ![c] = "check"]
        /\ UNCHANGED <<c_queue, c_produced, c_consumed>>
    BY <1>1 DEF CircularCall, CircularSpurious
  <2>2. /\ c_pc' \in [Users -> P] /\ c_pc'[c] = "check"
        /\ Moved(c_pc, c_pc', c, Producers) /\ Moved(c_pc, c_pc', c, Consumers)
        /\ \A d \in Users : c_pc'[d] = "wait" => c_pc[d] = "wait"
    BY <1>0, <2>1 DEF Moved
  <2>3. Covered(c_pc', Consumers, q) /\ Covered(c_pc', Producers, Capacity - q)
    BY <1>0, <2>2, CoveredMove
  <2>4. UNCHANGED <<c_queue, c_produced, c_consumed>>
    BY <2>1
  <2> QED
    BY <1>0, <2>2, <2>3, <2>4 DEF CircularInv, CircularTypeOK, UsersCovered, CircularFifo
<1>2. ASSUME NEW c \in Users, CircularWait(c) PROVE CircularInv'
  <2>1. /\ c_pc' = [c_pc EXCEPT ![c] = "wait"]
        /\ IF c \in Producers THEN Bounded /\ q >= Capacity ELSE c_queue = <<>>
        /\ UNCHANGED <<c_queue, c_produced, c_consumed>>
    BY <1>2 DEF CircularWait, Full
  <2>2. /\ c_pc' \in [Users -> P]
        /\ Moved(c_pc, c_pc', c, Producers) /\ Moved(c_pc, c_pc', c, Consumers)
        /\ \A d \in Users : d # c => c_pc'[d] = c_pc[d]
    BY <1>0, <2>1 DEF Moved
  <2>3. c \in Producers => Capacity - q <= 0
    BY <1>0, <2>1
  <2>4. c \notin Producers => q <= 0
    BY <2>1, EmptySeq
  <2>5. Covered(c_pc', Consumers, q) /\ Covered(c_pc', Producers, Capacity - q)
    <3>1. c \in Consumers \/ c \in Producers
      BY <1>s
    <3>2. c \in Consumers => c \notin Producers
      BY <1>s
    <3>3. Capacity - q \in Int
      BY <1>0
    <3> QED BY <1>0, <2>2, <2>3, <2>4, <3>1, <3>2, <3>3, CoveredMove
  <2>6. ~Bounded => \A p \in Producers : c_pc'[p] # "wait"
    BY <1>0, <2>1, <2>2 DEF CircularInv
  <2>7. UNCHANGED <<c_queue, c_produced, c_consumed>>
    BY <2>1
  <2> QED
    BY <2>2, <2>5, <2>6, <2>7 DEF CircularInv, CircularTypeOK, UsersCovered, CircularFifo
<1>3. ASSUME NEW c \in Producers, Enqueue(c) PROVE CircularInv'
  <2> DEFINE p == [c_pc EXCEPT ![c] = "idle"]
  <2>1. PICK v \in Values : c_queue' = Append(c_queue, v) /\ c_produced' = Append(c_produced, v)
    BY <1>3 DEF Enqueue
  <2>2. /\ c_queue' \in Seq(Values) /\ c_produced' \in Seq(Values)
        /\ Len(c_queue') = q + 1 /\ c_consumed' = c_consumed
    BY <1>0, <1>3, <2>1, AppendProperties DEF Enqueue
  <2>3. CircularFifo'
    BY <1>0, <2>1, <2>2, FifoPut DEF CircularInv, CircularFifo
  <2>4. /\ p \in [Users -> P] /\ p[c] = "idle" /\ c \notin Consumers
        /\ Moved(c_pc, p, c, Producers) /\ Moved(c_pc, p, c, Consumers)
        /\ \A d \in Users : p[d] = "wait" => c_pc[d] = "wait"
    BY <1>0, <1>s DEF Moved
  <2>5. c_pc' \in NotifyOne(p, Consumers) /\ (Bounded => q + 1 <= Capacity)
    BY <1>0, <1>3 DEF Enqueue, NotifyNotEmpty, Full
  <2> HIDE DEF p
  <2>6. Covered(p, Consumers, q) /\ Covered(p, Producers, Capacity - (q + 1))
    BY <1>0, <2>4, CoveredMove
  <2>7. Notified(p, c_pc', Consumers, Users, P)
    BY <1>0, <2>4, <2>5, NotifyOneWakes
  <2>8. Covered(c_pc', Consumers, q + 1)
    BY <1>0, <2>6, <2>7, CoveredNotify
  <2>9. \A d \in Producers : c_pc'[d] = p[d]
    BY <1>s, <2>7 DEF Notified
  <2>10. Covered(c_pc', Producers, Capacity - (q + 1))
    BY <2>6, <2>9, CoveredOther
  <2>11. /\ c_pc' \in [Users -> P]
         /\ ~Bounded => \A d \in Producers : c_pc'[d] # "wait"
    BY <1>0, <2>4, <2>7, <2>9 DEF Notified, CircularInv
  <2> QED
    BY <2>2, <2>3, <2>5, <2>8, <2>10, <2>11 DEF CircularInv, CircularTypeOK, UsersCovered
<1>4. ASSUME TakeFront
      PROVE  /\ c_queue' \in Seq(Values) /\ c_consumed' \in Seq(Values)
             /\ Len(c_queue') = q - 1 /\ q > 0 /\ c_produced' = c_produced /\ CircularFifo'
  <2>1. /\ Head(c_queue) \in Values /\ c_queue' \in Seq(Values) /\ Len(c_queue') = q - 1
        /\ q > 0
    BY <1>0, <1>4, HeadTailProperties, EmptySeq DEF TakeFront
  <2>2. c_consumed' \in Seq(Values)
    BY <1>0, <1>4, <2>1, AppendProperties DEF TakeFront
  <2>3. CircularFifo'
    BY <1>0, <1>4, FifoTake DEF TakeFront, CircularInv, CircularFifo
  <2> QED BY <1>4, <2>1, <2>2, <2>3 DEF TakeFront
<1>5. ASSUME NEW c \in Consumers, Dequeue(c) PROVE CircularInv'
  <2> DEFINE p == [c_pc EXCEPT ![c] = "idle"]
  <2>1. TakeFront /\ c_pc' \in NotifyNotFull(p)
    BY <1>5 DEF Dequeue
  <2>2. /\ c_queue' \in Seq(Values) /\ c_consumed' \in Seq(Values) /\ c_produced' \in Seq(Values)
        /\ Len(c_queue') = q - 1 /\ q > 0 /\ CircularFifo'
        /\ (Bounded => Len(c_queue') <= Capacity)
    BY <1>0, <1>4, <2>1 DEF CircularInv, CircularTypeOK
  <2>4. /\ p \in [Users -> P] /\ p[c] = "idle" /\ c \notin Producers
        /\ Moved(c_pc, p, c, Producers) /\ Moved(c_pc, p, c, Consumers)
        /\ \A d \in Users : p[d] = "wait" => c_pc[d] = "wait"
    BY <1>0, <1>s DEF Moved
  <2> HIDE DEF p
  <2>5. Covered(p, Consumers, q - 1) /\ Covered(p, Producers, Capacity - q)
    BY <1>0, <2>4, CoveredMove
  <2>6. CASE Bounded
    <3>1. Notified(p, c_pc', Producers, Users, P)
      BY <1>0, <2>1, <2>4, <2>6, NotifyOneWakes DEF NotifyNotFull
    <3>2. Covered(c_pc', Producers, Capacity - (q - 1))
      BY <1>0, <2>5, <3>1, CoveredNotify
    <3>3. \A d \in Consumers : c_pc'[d] = p[d]
      BY <1>s, <3>1 DEF Notified
    <3>4. Covered(c_pc', Consumers, q - 1)
      BY <2>5, <3>3, CoveredOther
    <3>5. c_pc' \in [Users -> P]
      BY <3>1 DEF Notified
    <3> QED
      BY <2>2, <2>6, <3>2, <3>4, <3>5 DEF CircularInv, CircularTypeOK, UsersCovered
  <2>7. CASE ~Bounded
    <3>1. c_pc' = p
      BY <2>1, <2>7 DEF NotifyNotFull
    <3>2. \A d \in Producers : c_pc'[d] # "wait"
      BY <1>0, <2>4, <2>7, <3>1 DEF CircularInv
    <3>3. Covered(c_pc', Producers, Capacity - (q - 1))
      BY <3>2 DEF Covered, Sleeping
    <3> QED
      BY <2>2, <2>4, <2>5, <2>7, <3>1, <3>2, <3>3 DEF CircularInv, CircularTypeOK, UsersCovered
  <2> QED BY <2>6, <2>7
<1>6. ASSUME NEW c \in Consumers, TryConsume(c) PROVE CircularInv'
  <2>1. TakeFront /\ c_pc' = c_pc /\ ~Bounded
    BY <1>6 DEF TryConsume
  <2>2. \A d \in Producers : c_pc'[d] # "wait"
    BY <2>1 DEF CircularInv
  <2>3. Covered(c_pc', Producers, Capacity - (q - 1))
    BY <2>2 DEF Covered, Sleeping
  <2>4. Covered(c_pc', Consumers, q - 1)
    <3>1. IsFiniteSet(Awake(c_pc, Consumers))
      BY <1>0, FS_Subset DEF Awake
    <3>2. Cardinality(Awake(c_pc, Consumers)) \in Nat
      BY <3>1, FS_CardinalityType
    <3> QED BY <1>0, <2>1, <3>2 DEF Covered
  <2> QED
    BY <1>0, <1>4, <2>1, <2>2, <2>3, <2>4 DEF CircularInv, CircularTypeOK, UsersCovered
<1> QED BY <1>1, <1>2, <1>3, <1>5, <1>6 DEF CircularNext, CircularRunning

\* One notification per operation leaves no producer asleep beside a place and
\* no consumer beside an element, bounded or not, and the queue is a FIFO that
\* never holds more than its capacity.
THEOREM CircularQueueSafe ==
  ASSUME CircularQueueAssumption
  PROVE  CircularSpec => [](UsersCovered /\ CircularFifo /\ CircularTypeOK)
<1>1. CircularInit => CircularInv
  <2> SUFFICES ASSUME CircularInit PROVE CircularInv
    OBVIOUS
  <2>1. /\ c_queue \in Seq(Values) /\ c_produced \in Seq(Values) /\ c_consumed \in Seq(Values)
        /\ Len(c_queue) = 0
    BY EmptySeq DEF CircularInit
  <2>2. CircularFifo
    BY FifoEmpty DEF CircularInit, CircularFifo
  <2>3. /\ c_pc \in [Users -> {"idle", "check", "wait"}]
        /\ Sleeping(c_pc, Consumers) = {} /\ Sleeping(c_pc, Producers) = {}
        /\ \A p \in Producers : c_pc[p] # "wait"
    BY DEF CircularInit, Users, Sleeping
  <2> QED
    BY <2>1, <2>2, <2>3
    DEF CircularInv, CircularTypeOK, UsersCovered, Covered, CircularQueueAssumption
<1>2. CircularInv /\ [CircularNext]_circularVars => CircularInv'
  <2>1. ASSUME CircularInv, UNCHANGED circularVars PROVE CircularInv'
    BY <2>1 DEF CircularInv, CircularTypeOK, UsersCovered, CircularFifo, circularVars
  <2> QED BY <2>1, CircularKeeps
<1>3. CircularInv => UsersCovered /\ CircularFifo /\ CircularTypeOK
  BY DEF CircularInv
<1> QED BY <1>1, <1>2, <1>3, PTL DEF CircularSpec

-----------------------------------------------------------------------------
(* ConcurrentBlockingQueue.                                                *)

ConcurrentSpec == ConcurrentInit /\ [][ConcurrentNext]_concurrentVars

PopStates == {"wait", "check"}
ConcurrentTypeOK ==
  /\ k_queue \in Seq(Values) /\ exit_now \in BOOLEAN /\ nwait \in Nat
  /\ k_pc \in [Clients -> {"idle", "check", "wait", "notify", "kill"}]

\* NwaitExact and PoppersCovered, with the numbers of clients as those of the
\* lemmas above.
ConcurrentInv ==
  /\ ConcurrentTypeOK
  /\ nwait = Cardinality(In(k_pc, Clients, PopStates))
  /\ IF exit_now THEN Sleeping(k_pc, Clients) # {} => \E c \in Clients : k_pc[c] = "kill"
     ELSE Covered(k_pc, Clients, Len(k_queue) - Cardinality(In(k_pc, Clients, {"notify"})))

\* ConcurrentDelivers, with the ranks of the queued values between lo and hi.
RankInv ==
  /\ ConcurrentDelivers
  /\ k_log \in [lo : Int, hi : Int, rank : [Values -> Int], inOrder : BOOLEAN]
  /\ Between(Len(k_queue), Ranks, k_log.lo, k_log.hi) /\ k_log.lo < k_log.hi

LEMMA RankPush ==
  ASSUME k_queue \in Seq(Values), RankInv, NEW v \in Values, v \notin pushed, NEW front \in BOOLEAN,
         k_queue' = IF front THEN <<v>> \o k_queue ELSE Append(k_queue, v),
         pushed' = pushed \cup {v}, k_popped' = k_popped, k_log' = Ranked(v, front)
  PROVE  RankInv'
<1> DEFINE n == Len(k_queue)
           r == k_log.rank
           x == IF front THEN k_log.lo ELSE k_log.hi
<1>0. n \in Nat /\ \A i \in 1 .. n : k_queue[i] \in Values
  BY LenProperties, ElementOfSeq
<1>1. /\ k_log \in [lo : Int, hi : Int, rank : [Values -> Int], inOrder : BOOLEAN]
      /\ k_log.inOrder /\ k_log.lo < k_log.hi
      /\ Ascending(n, Ranks) /\ Between(n, Ranks, k_log.lo, k_log.hi)
      /\ Elements(k_queue) \cap k_popped = {} /\ Elements(k_queue) \cup k_popped = pushed
  BY DEF RankInv, ConcurrentDelivers
<1>2. \A i \in 1 .. n : k_queue[i] # v
  BY <1>1 DEF Elements
<1>3. k_log' = [lo |-> IF front THEN k_log.lo - 1 ELSE k_log.lo,
                hi |-> IF front THEN k_log.hi ELSE k_log.hi + 1,
                rank |-> [r EXCEPT ![v] = x], inOrder |-> k_log.inOrder]
  BY <1>1 DEF Ranked
<1>4. /\ k_log' \in [lo : Int, hi : Int, rank : [Values -> Int], inOrder : BOOLEAN]
      /\ k_log'.inOrder /\ k_log'.lo < k_log'.hi
      /\ k_log'.lo = (IF front THEN k_log.lo - 1 ELSE k_log.lo)
      /\ k_log'.hi = (IF front THEN k_log.hi ELSE k_log.hi + 1)
      /\ k_log'.rank[v] = x /\ \A u \in Values : u # v => k_log'.rank[u] = r[u]
  BY <1>1, <1>3
<1>5. Len(k_queue') = n + 1 /\ Elements(k_queue') = {v} \cup Elements(k_queue)
  <2>1. CASE front
    BY <2>1, Prepended
  <2>2. CASE ~front
    BY <2>2, Appended
  <2> QED BY <2>1, <2>2
<1>6. /\ \A i \in 1 .. n : Ranks[i] = r[k_queue[i]]
      /\ \A i \in 1 .. n + 1 : Ranks'[i] = k_log'.rank[k_queue'[i]]
  BY <1>5 DEF Ranks
<1>7. Ascending(n + 1, Ranks') /\ Between(n + 1, Ranks', k_log'.lo, k_log'.hi)
  <2>1. CASE front
    <3>1. /\ k_queue'[1] = v
          /\ \A i \in 1 .. n + 1 : i # 1 => i - 1 \in 1 .. n /\ k_queue'[i] = k_queue[i - 1]
      BY <2>1, Prepended
    <3> HIDE DEF n, r
    <3>2. Ranks'[1] = k_log.lo
      <4>1. 1 \in 1 .. n + 1
        BY <1>0
      <4>2. k_log'.rank[v] = k_log.lo
        BY <1>4, <2>1
      <4>3. Ranks'[1] = k_log'.rank[k_queue'[1]] /\ k_queue'[1] = v
        BY <1>6, <3>1, <4>1
      <4> QED BY <4>2, <4>3, Zenon
    <3>3. ASSUME NEW i \in 1 .. n + 1, i # 1 PROVE Ranks'[i] = Ranks[i - 1]
      <4>1. i - 1 \in 1 .. n /\ k_queue'[i] = k_queue[i - 1]
        BY <3>1, <3>3
      <4> DEFINE u == k_queue[i - 1]
      <4>2. u \in Values /\ u # v /\ k_queue'[i] = u /\ Ranks[i - 1] = r[u]
        BY <1>0, <1>2, <1>6, <4>1
      <4> HIDE DEF u
      <4> QED BY <1>4, <1>6, <4>2
    <3>4. k_log.lo \in Int /\ k_log.hi \in Int
      BY <1>1
    <3>5. Ascending(n + 1, Ranks') /\ Between(n + 1, Ranks', k_log.lo - 1, k_log.hi)
      BY <1>0, <1>1, <3>2, <3>3, <3>4, AscendFront
    <3> QED BY <1>4, <2>1, <3>5
  <2>2. CASE ~front
    <3>1. k_queue'[n + 1] = v /\ \A i \in 1 .. n : k_queue'[i] = k_queue[i]
      BY <2>2, Appended
    <3> HIDE DEF n, r
    <3>2. Ranks'[n + 1] = k_log.hi
      <4>1. n + 1 \in 1 .. n + 1
        BY <1>0
      <4>2. k_log'.rank[v] = k_log.hi
        BY <1>4, <2>2
      <4>3. Ranks'[n + 1] = k_log'.rank[k_queue'[n + 1]] /\ k_queue'[n + 1] = v
        BY <1>6, <3>1, <4>1
      <4> QED BY <4>2, <4>3, Zenon
    <3>3. ASSUME NEW i \in 1 .. n PROVE Ranks'[i] = Ranks[i]
      <4>1. i \in 1 .. n + 1
        BY <1>0
      <4> DEFINE u == k_queue[i]
      <4>2. u \in Values /\ u # v /\ k_queue'[i] = u /\ Ranks[i] = r[u]
        BY <1>0, <1>2, <1>6, <3>1
      <4> HIDE DEF u
      <4> QED BY <1>4, <1>6, <4>1, <4>2
    <3>4. k_log.lo \in Int /\ k_log.hi \in Int
      BY <1>1
    <3>5. Ascending(n + 1, Ranks') /\ Between(n + 1, Ranks', k_log.lo, k_log.hi + 1)
      BY <1>0, <1>1, <3>2, <3>3, <3>4, AscendBack
    <3> QED BY <1>4, <2>2, <3>5
  <2> QED BY <2>1, <2>2
<1> HIDE DEF n, r, x
<1> QED BY <1>1, <1>4, <1>5, <1>7 DEF RankInv, ConcurrentDelivers

\* A history whose numbers are integers is one.
LEMMA RankedLog ==
  ASSUME NEW S, NEW f \in [S -> Int], NEW v \in S, NEW a \in Int, NEW b \in Int, NEW l,
         l = [lo |-> a, hi |-> b, rank |-> [f EXCEPT ![v] = 0], inOrder |-> TRUE]
  PROVE  /\ l \in [lo : Int, hi : Int, rank : [S -> Int], inOrder : BOOLEAN]
         /\ l.inOrder /\ l.lo = a /\ l.hi = b
<1>1. [f EXCEPT ![v] = 0] \in [S -> Int]
  OBVIOUS
<1> QED BY <1>1

LEMMA RankPop ==
  ASSUME ConcurrentQueueAssumption, k_queue \in Seq(Values), k_queue # <<>>, RankInv, NEW k \in Takeable,
         k_queue' = SubSeq(k_queue, 1, k - 1) \o SubSeq(k_queue, k + 1, Len(k_queue)),
         k_popped' = k_popped \cup {k_queue[k]}, pushed' = pushed,
         k_log' = [k_log EXCEPT !.rank[k_queue[k]] = 0, !.inOrder = @ /\ IsFirst(k_queue[k])]
  PROVE  RankInv'
<1> DEFINE n == Len(k_queue)
           r == k_log.rank
           v == k_queue[k]
           at == [i \in 1 .. n - 1 |-> At(k, i)]
<1>0. n \in Nat /\ n > 0 /\ \A i \in 1 .. n : k_queue[i] \in Values
  BY LenProperties, ElementOfSeq, EmptySeq
<1>1. /\ k_log \in [lo : Int, hi : Int, rank : [Values -> Int], inOrder : BOOLEAN]
      /\ k_log.inOrder /\ k_log.lo < k_log.hi
      /\ Ascending(n, Ranks) /\ Between(n, Ranks, k_log.lo, k_log.hi)
      /\ Elements(k_queue) \cap k_popped = {} /\ Elements(k_queue) \cup k_popped = pushed
  BY DEF RankInv, ConcurrentDelivers
<1>6. \A i \in 1 .. n : Ranks[i] = r[k_queue[i]] /\ Ranks[i] \in Int
  BY <1>1 DEF Ranks, Between
<1>2. k \in 1 .. n
  <2>d. DOMAIN k_queue = 1 .. n
    BY LenProperties
  <2> QED BY <1>0, <2>d DEF Takeable, Best
<1>8. \A i \in 1 .. n : i # k => k_queue[i] # v
  <2> SUFFICES ASSUME NEW i \in 1 .. n, i # k, k_queue[i] = v PROVE FALSE
    OBVIOUS
  <2>1. Ranks[i] = Ranks[k]
    BY <1>2, <1>6
  <2>2. i < k \/ k < i
    BY <1>0, <1>2
  <2> HIDE DEF n, v, r
  <2> QED BY <1>1, <1>2, <1>6, <2>1, <2>2 DEF Ascending
<1>3. IsFirst(v)
  <2>d. DOMAIN k_queue = 1 .. n
    BY LenProperties
  <2>1. CASE Type = "kFIFO"
    <3>1. k = 1
      BY <2>1 DEF Takeable
    <3>2. ASSUME NEW i \in 1 .. n PROVE r[k_queue[1]] <= r[k_queue[i]]
      <4>1. 1 \in 1 .. n /\ (i = 1 \/ 1 < i)
        BY <1>0
      <4>2. Ranks[1] <= Ranks[i]
        <5>1. Ranks[1] \in Int /\ Ranks[i] \in Int
          BY <1>6, <4>1
        <5>2. i # 1 => Ranks[1] < Ranks[i]
          BY <1>1, <4>1 DEF Ascending
        <5> QED BY <5>1, <5>2
      <4> QED BY <1>6, <4>1, <4>2
    <3> QED BY <2>1, <3>1, <3>2 DEF IsFirst
  <2>2. CASE Type # "kFIFO"
    BY <2>d, <2>2 DEF Takeable, Best, IsFirst
  <2> QED BY <2>1, <2>2
<1>4. /\ Len(k_queue') = n - 1
      /\ \A i \in 1 .. n - 1 : k_queue'[i] = k_queue[At(k, i)] /\ At(k, i) \in 1 .. n \ {k}
      /\ \A i, j \in 1 .. n - 1 : i < j => At(k, i) < At(k, j)
      /\ \A j \in 1 .. n \ {k} : \E i \in 1 .. n - 1 : At(k, i) = j
  <2>1. /\ k \in 1 .. Len(k_queue) /\ k_queue \in Seq(Values)
        /\ k_queue' = Cut(k_queue, k)
    BY <1>2 DEF Cut
  <2>2. Len(Cut(k_queue, k)) = n - 1
    BY <2>1, Removed
  <2>3. \A i \in 1 .. n - 1 : Cut(k_queue, k)[i] = k_queue[At(k, i)] /\ At(k, i) \in 1 .. n \ {k}
    BY <2>1, Removed
  <2>4. \A i, j \in 1 .. n - 1 : i < j => At(k, i) < At(k, j)
    BY <2>1, Removed
  <2>5. \A j \in 1 .. n \ {k} : \E i \in 1 .. n - 1 : At(k, i) = j
    BY <2>1, Removed
  <2> QED BY <2>1, <2>2, <2>3, <2>4, <2>5
<1>5. \A i \in 1 .. n - 1 : at[i] = At(k, i)
  OBVIOUS
<1>7. k_log' = [lo |-> k_log.lo, hi |-> k_log.hi, rank |-> [r EXCEPT ![v] = 0], inOrder |-> TRUE]
  BY <1>1, <1>3
<1>9. Elements(k_queue) = {v} \cup Elements(k_queue') /\ v \notin Elements(k_queue')
  <2>1. \A i \in 1 .. n : k_queue[i] \in {v} \cup Elements(k_queue')
    BY <1>4 DEF Elements
  <2>2. \A i \in 1 .. n - 1 : k_queue'[i] \in Elements(k_queue) /\ k_queue'[i] # v
    BY <1>4, <1>8 DEF Elements
  <2>3. v \in Elements(k_queue)
    BY <1>2 DEF Elements
  <2>4. /\ \A u \in Elements(k_queue) : u \in {v} \cup Elements(k_queue')
        /\ \A u \in Elements(k_queue') : u \in Elements(k_queue) /\ u # v
    <3> HIDE DEF n, v
    <3>1. Len(k_queue') = n - 1
      BY <1>4
    <3> QED BY <2>1, <2>2, <3>1 DEF Elements, n
  <2> HIDE DEF v
  <2> QED BY <2>3, <2>4
<1>10. ASSUME NEW i \in 1 .. n - 1 PROVE at[i] \in 1 .. n /\ Ranks'[i] = Ranks[at[i]]
  <2>2. Ranks'[i] = k_log'.rank[k_queue'[i]]
    BY <1>4 DEF Ranks
  <2>3. k_queue'[i] \in Values /\ k_queue'[i] # v
    BY <1>0, <1>4, <1>8
  <2>4. k_log'.rank = [r EXCEPT ![v] = 0]
    BY <1>7
  <2>5. r \in [Values -> Int]
    BY <1>1
  <2>1. Ranks'[i] = r[k_queue'[i]]
    <3> HIDE DEF v, r
    <3> QED BY <2>2, <2>3, <2>4, <2>5
  <2> HIDE DEF r
  <2> QED BY <1>4, <1>5, <1>6, <2>1
<1>11. \A i, j \in 1 .. n - 1 : i < j => at[i] < at[j]
  BY <1>4, <1>5
<1>12. Ascending(n - 1, Ranks') /\ Between(n - 1, Ranks', k_log.lo, k_log.hi)
  <2>1. n - 1 \in Nat /\ k_log.lo \in Int /\ k_log.hi \in Int
    BY <1>0, <1>1
  <2> HIDE DEF at, n
  <2> QED BY <1>0, <1>1, <1>10, <1>11, <2>1, AscendPart
<1>13. /\ k_log' \in [lo : Int, hi : Int, rank : [Values -> Int], inOrder : BOOLEAN]
       /\ k_log'.inOrder /\ k_log'.lo = k_log.lo /\ k_log'.hi = k_log.hi
  <2>1. r \in [Values -> Int] /\ k_log.lo \in Int /\ k_log.hi \in Int
    BY <1>1
  <2>2. v \in Values
    BY <1>0, <1>2
  <2> DEFINE a == k_log.lo
             b == k_log.hi
             l == k_log'
  <2>3. l = [lo |-> a, hi |-> b, rank |-> [r EXCEPT ![v] = 0], inOrder |-> TRUE]
    BY <1>7
  <2> HIDE DEF r, v, a, b, l
  <2>4. r \in [Values -> Int] /\ a \in Int /\ b \in Int
    BY <2>1 DEF a, b
  <2>5. /\ l \in [lo : Int, hi : Int, rank : [Values -> Int], inOrder : BOOLEAN]
        /\ l.inOrder /\ l.lo = a /\ l.hi = b
    BY <2>2, <2>3, <2>4, RankedLog
  <2> QED BY <2>5 DEF a, b, l
<1> HIDE DEF v, r, n, at
<1>n. Len(k_queue') = n - 1 /\ k_popped' = k_popped \cup {v} /\ pushed' = pushed
  BY <1>4 DEF v
<1>d. /\ Elements(k_queue') \cap k_popped' = {} /\ Elements(k_queue') \cup k_popped' = pushed'
  <2>1. Elements(k_queue) \cap k_popped = {} /\ Elements(k_queue) \cup k_popped = pushed
    BY <1>1
  <2> QED BY <1>9, <1>n, <2>1
<1>o. k_log'.lo < k_log'.hi
  BY <1>1, <1>13
<1> QED BY <1>12, <1>13, <1>n, <1>d, <1>o DEF RankInv, ConcurrentDelivers

LEMMA RankKeeps ==
  ASSUME ConcurrentQueueAssumption, ConcurrentInv, RankInv, ConcurrentNext
  PROVE  RankInv'
<1>0. k_queue \in Seq(Values) /\ exit_now \in BOOLEAN
  BY DEF ConcurrentInv, ConcurrentTypeOK
<1>1. ASSUME NEW c \in Clients, NEW v \in Values, PushBack(c, v) \/ PushFront(c, v) PROVE RankInv'
  <2>1. PICK front \in BOOLEAN : Push(c, v, front)
    BY <1>1 DEF PushBack, PushFront
  <2>2. /\ v \notin pushed /\ k_queue' = (IF front THEN <<v>> \o k_queue ELSE Append(k_queue, v))
        /\ pushed' = pushed \cup {v} /\ k_popped' = k_popped /\ k_log' = Ranked(v, front)
    BY <2>1 DEF Push
  <2> QED BY <1>0, <2>2, RankPush
<1>2. ASSUME NEW c \in Clients, PopTrue(c) PROVE RankInv'
  <2>1. k_queue # <<>> /\ pushed' = pushed
    BY <1>0, <1>2 DEF PopTrue, Return, Available, GivesUp
  <2>2. PICK k \in Takeable :
          /\ k_queue' = SubSeq(k_queue, 1, k - 1) \o SubSeq(k_queue, k + 1, Len(k_queue))
          /\ k_popped' = k_popped \cup {k_queue[k]}
          /\ k_log' = [k_log EXCEPT !.rank[k_queue[k]] = 0, !.inOrder = @ /\ IsFirst(k_queue[k])]
    BY <1>2 DEF PopTrue
  <2> QED BY <1>0, <2>1, <2>2, RankPop
<1>3. ASSUME UNCHANGED <<k_queue, pushed, k_popped, k_log>> PROVE RankInv'
  BY <1>3 DEF RankInv, ConcurrentDelivers, Elements, Ranks, Ascending, Between
<1> QED BY <1>1, <1>2, <1>3
        DEF ConcurrentNext, Notify, PopWait, PopFalse, SignalForKill, KillNotified, PopSpurious

LEMMA ConcurrentKeeps ==
  ASSUME ConcurrentQueueAssumption, ConcurrentInv, ConcurrentNext
  PROVE  ConcurrentInv'
<1> DEFINE P == {"idle", "check", "wait", "notify", "kill"}
           q == Len(k_queue)
           n == Cardinality(In(k_pc, Clients, {"notify"}))
           w == Cardinality(In(k_pc, Clients, PopStates))
<1>0. /\ k_pc \in [Clients -> P] /\ "check" \in P /\ IsFiniteSet(Clients)
      /\ k_queue \in Seq(Values) /\ q \in Nat /\ nwait = w /\ exit_now \in BOOLEAN
  BY LenProperties DEF ConcurrentInv, ConcurrentTypeOK, ConcurrentQueueAssumption
<1>n. n \in Nat /\ w \in Nat
  <2>1. IsFiniteSet(In(k_pc, Clients, {"notify"})) /\ IsFiniteSet(In(k_pc, Clients, PopStates))
    BY <1>0, FS_Subset DEF In
  <2> QED BY <2>1, FS_CardinalityType
<1>c. ~exit_now => Covered(k_pc, Clients, q - n)
  BY DEF ConcurrentInv
<1>k. exit_now => (Sleeping(k_pc, Clients) # {} => \E c \in Clients : k_pc[c] = "kill")
  BY DEF ConcurrentInv
<1>z. nwait = 0 => Sleeping(k_pc, Clients) = {}
  <2>1. ASSUME nwait = 0 PROVE In(k_pc, Clients, PopStates) = {}
    <3>1. IsFiniteSet(In(k_pc, Clients, PopStates))
      BY <1>0, FS_Subset DEF In
    <3> QED BY <1>0, <2>1, <3>1, FS_EmptySet
  <2> QED BY <2>1 DEF In, Sleeping, PopStates
<1>1. ASSUME NEW c \in Clients, NEW v \in Values, PushBack(c, v) \/ PushFront(c, v)
      PROVE  ConcurrentInv'
  <2>1. /\ k_queue' \in Seq(Values) /\ Len(k_queue') = q + 1
        /\ UNCHANGED <<exit_now, nwait>>
    <3>0. UNCHANGED <<exit_now, nwait>> /\ (k_queue' = Append(k_queue, v) \/ k_queue' = <<v>> \o k_queue)
      BY <1>1 DEF PushBack, PushFront, Push
    <3>1. CASE k_queue' = Append(k_queue, v)
      BY <1>0, <3>0, <3>1, AppendProperties
    <3>2. CASE k_queue' = <<v>> \o k_queue
      <4>1. <<v>> \in Seq(Values) /\ Len(<<v>>) = 1
        OBVIOUS
      <4>2. k_queue' \in Seq(Values) /\ Len(k_queue') = Len(<<v>>) + q
        BY <1>0, <3>2, <4>1, ConcatProperties
      <4> QED BY <1>0, <3>0, <4>1, <4>2
    <3> QED BY <3>0, <3>1, <3>2
  <2>2. k_pc[c] = "idle" /\ k_pc' = [k_pc EXCEPT ![c] = IF nwait # 0 THEN "notify" ELSE "idle"]
    BY <1>1 DEF PushBack, PushFront, Push, Notifies
  <2>3. CASE nwait # 0
    <3>1. /\ k_pc' \in [Clients -> P] /\ k_pc'[c] = "notify" /\ Moved(k_pc, k_pc', c, Clients)
          /\ \A d \in Clients : k_pc[d] = "kill" => k_pc'[d] = "kill"
      BY <1>0, <2>2, <2>3 DEF Moved
    <3>2. /\ CountMoved(k_pc, k_pc', c, Clients, {"notify"})
          /\ CountMoved(k_pc, k_pc', c, Clients, PopStates)
          /\ MovedOne(k_pc, k_pc', c, Clients)
      BY <1>0, <3>1, CountAfter, AwakeAfter
    <3>3. /\ Cardinality(In(k_pc', Clients, {"notify"})) = n + 1
          /\ Cardinality(In(k_pc', Clients, PopStates)) = w
          /\ Sleeping(k_pc', Clients) \subseteq Sleeping(k_pc, Clients)
      BY <2>2, <3>1, <3>2 DEF CountMoved, MovedOne, PopStates
    <3>i. k_pc[c] = "idle"
      BY <2>2
    <3>4. ~exit_now => Covered(k_pc', Clients, (q + 1) - (n + 1))
      BY <1>0, <1>n, <1>c, <3>i, <3>1, CoveredMove
    <3> QED BY <1>0, <1>k, <2>1, <3>1, <3>3, <3>4 DEF ConcurrentInv, ConcurrentTypeOK
  <2>4. CASE nwait = 0
    <3>1. k_pc' = k_pc
      BY <1>0, <2>2, <2>4
    <3>2. Covered(k_pc', Clients, Len(k_queue') - Cardinality(In(k_pc', Clients, {"notify"})))
      BY <1>z, <2>4, <3>1 DEF Covered
    <3> QED BY <1>0, <1>k, <2>1, <3>1, <3>2 DEF ConcurrentInv, ConcurrentTypeOK
  <2> QED BY <2>3, <2>4
<1>2. ASSUME NEW c \in Clients, Notify(c) PROVE ConcurrentInv'
  <2> DEFINE p == [k_pc EXCEPT ![c] = "idle"]
  <2>1. /\ k_pc[c] = "notify" /\ k_pc' \in NotifyOne(p, Clients)
        /\ UNCHANGED <<k_queue, exit_now, nwait>>
    BY <1>2 DEF Notify
  <2>2. /\ p \in [Clients -> P] /\ p[c] = "idle" /\ Moved(k_pc, p, c, Clients)
        /\ \A d \in Clients : k_pc[d] = "kill" => p[d] = "kill"
    BY <1>0, <2>1 DEF Moved
  <2> HIDE DEF p
  <2>3. /\ CountMoved(k_pc, p, c, Clients, {"notify"})
        /\ CountMoved(k_pc, p, c, Clients, PopStates)
        /\ MovedOne(k_pc, p, c, Clients)
    BY <1>0, <2>2, CountAfter, AwakeAfter
  <2>4. /\ Cardinality(In(p, Clients, {"notify"})) = n - 1
        /\ Cardinality(In(p, Clients, PopStates)) = w
        /\ Sleeping(p, Clients) \subseteq Sleeping(k_pc, Clients)
    BY <2>1, <2>2, <2>3 DEF CountMoved, MovedOne, PopStates
  <2>5. Notified(p, k_pc', Clients, Clients, P)
    BY <1>0, <2>1, <2>2, NotifyOneWakes
  <2>6. /\ k_pc' \in [Clients -> P] /\ Sleeping(k_pc', Clients) \subseteq Sleeping(p, Clients)
        /\ \A d \in Clients : k_pc'[d] = p[d] \/ (p[d] = "wait" /\ k_pc'[d] = "check")
    BY <2>5 DEF Notified
  <2>7. /\ In(k_pc', Clients, {"notify"}) = In(p, Clients, {"notify"})
        /\ In(k_pc', Clients, PopStates) = In(p, Clients, PopStates)
    BY <2>6 DEF In, PopStates
  <2>8. ~exit_now => Covered(p, Clients, q - n)
    BY <1>0, <1>n, <1>c, <2>1, <2>2, CoveredMove
  <2>9. ~exit_now => Covered(k_pc', Clients, q - (n - 1))
    BY <1>0, <1>n, <2>5, <2>8, CoveredNotify
  <2>10. exit_now => (Sleeping(k_pc', Clients) # {} => \E d \in Clients : k_pc'[d] = "kill")
    BY <1>k, <2>2, <2>4, <2>6
  <2> QED BY <1>0, <2>1, <2>4, <2>6, <2>7, <2>9, <2>10 DEF ConcurrentInv, ConcurrentTypeOK
<1>3. ASSUME NEW c \in Clients, PopWait(c) PROVE ConcurrentInv'
  <2>1. /\ k_pc[c] \in {"idle", "check"} /\ k_queue = <<>> /\ exit_now = FALSE
        /\ UNCHANGED <<k_queue, exit_now>>
    BY <1>0, <1>3 DEF PopWait, Available
  <2>2. k_pc' \in [Clients -> P] /\ k_pc'[c] = "wait" /\ Moved(k_pc, k_pc', c, Clients)
    BY <1>0, <1>3 DEF PopWait, Moved
  <2>3. /\ CountMoved(k_pc, k_pc', c, Clients, PopStates)
        /\ CountMoved(k_pc, k_pc', c, Clients, {"notify"})
    BY <1>0, <2>2, CountAfter
  <2>4. nwait' = Cardinality(In(k_pc', Clients, PopStates)) /\ nwait' \in Nat
    <3>1. CASE k_pc[c] = "idle"
      <4>1. nwait' = nwait + 1
        BY <1>3, <3>1 DEF PopWait
      <4> QED BY <1>0, <1>n, <2>2, <2>3, <3>1, <4>1 DEF CountMoved, PopStates
    <3>2. CASE k_pc[c] = "check"
      <4>1. nwait' = nwait
        BY <1>3, <3>2 DEF PopWait
      <4> QED BY <1>0, <1>n, <2>2, <2>3, <3>2, <4>1 DEF CountMoved, PopStates
    <3> QED BY <2>1, <3>1, <3>2
  <2>5. /\ Cardinality(In(k_pc', Clients, {"notify"})) \in Nat
        /\ Len(k_queue') = 0
    BY <2>1, <2>3, EmptySeq DEF CountMoved
  <2>6. Covered(k_pc', Clients, 0 - Cardinality(In(k_pc', Clients, {"notify"})))
    BY <1>0, <1>n, <1>c, <2>1, <2>2, <2>5, CoveredMove
  <2> QED BY <1>0, <2>1, <2>2, <2>4, <2>5, <2>6 DEF ConcurrentInv, ConcurrentTypeOK
<1>4. ASSUME NEW c \in Clients, Return(c)
      PROVE  /\ k_pc' \in [Clients -> P] /\ k_pc'[c] = "idle" /\ Moved(k_pc, k_pc', c, Clients)
             /\ nwait' = Cardinality(In(k_pc', Clients, PopStates)) /\ nwait' \in Nat
             /\ Cardinality(In(k_pc', Clients, {"notify"})) = n
             /\ Sleeping(k_pc', Clients) \subseteq Sleeping(k_pc, Clients)
             /\ \A d \in Clients : k_pc[d] = "kill" => k_pc'[d] = "kill"
  <2>1. /\ k_pc[c] \in {"idle", "check"}
        /\ k_pc' \in [Clients -> P] /\ k_pc'[c] = "idle" /\ Moved(k_pc, k_pc', c, Clients)
        /\ \A d \in Clients : k_pc[d] = "kill" => k_pc'[d] = "kill"
    BY <1>0, <1>4 DEF Return, Moved
  <2>2. /\ CountMoved(k_pc, k_pc', c, Clients, PopStates)
        /\ CountMoved(k_pc, k_pc', c, Clients, {"notify"})
        /\ MovedOne(k_pc, k_pc', c, Clients)
    BY <1>0, <2>1, CountAfter, AwakeAfter
  <2>3. nwait' = Cardinality(In(k_pc', Clients, PopStates)) /\ nwait' \in Nat
    <3>1. CASE k_pc[c] = "idle"
      <4>1. nwait' = nwait
        BY <1>4, <3>1 DEF Return
      <4> QED BY <1>0, <1>n, <2>1, <2>2, <3>1, <4>1 DEF CountMoved, PopStates
    <3>2. CASE k_pc[c] = "check"
      <4>1. nwait' = nwait - 1
        BY <1>4, <3>2 DEF Return
      <4> QED BY <1>0, <1>n, <2>1, <2>2, <3>2, <4>1 DEF CountMoved, PopStates
    <3> QED BY <2>1, <3>1, <3>2
  <2>4. /\ Cardinality(In(k_pc', Clients, {"notify"})) = n
        /\ Sleeping(k_pc', Clients) \subseteq Sleeping(k_pc, Clients)
    BY <2>1, <2>2 DEF CountMoved, MovedOne
  <2> QED BY <2>1, <2>3, <2>4
<1>5. ASSUME NEW c \in Clients, PopTrue(c) PROVE ConcurrentInv'
  <2>1. /\ k_queue # <<>> /\ exit_now = FALSE /\ UNCHANGED exit_now
    BY <1>0, <1>5 DEF PopTrue, Return, Available, GivesUp
  <2>2. PICK k \in Takeable :
          k_queue' = SubSeq(k_queue, 1, k - 1) \o SubSeq(k_queue, k + 1, q)
    BY <1>5 DEF PopTrue
  <2>3. k \in 1 .. q
    <3>1. q > 0 /\ DOMAIN k_queue = 1 .. q
      BY <1>0, <2>1, EmptySeq, LenProperties
    <3>2. k = 1 \/ k \in DOMAIN k_queue
      BY <2>2 DEF Takeable, Best
    <3> QED BY <1>0, <3>1, <3>2
  <2>4. /\ SubSeq(k_queue, 1, k - 1) \in Seq(Values) /\ Len(SubSeq(k_queue, 1, k - 1)) = k - 1
    <3>1. \A i \in 1 .. k - 1 : k_queue[i] \in Values
      BY <1>0, <2>3, ElementOfSeq
    <3>2. k - 1 \in Int /\ 1 \in Int /\ k \in Int
      BY <2>3
    <3> QED BY <1>0, <2>3, <3>1, <3>2, SubSeqProperties
  <2>5. /\ SubSeq(k_queue, k + 1, q) \in Seq(Values) /\ Len(SubSeq(k_queue, k + 1, q)) = q - k
    <3>1. \A i \in k + 1 .. q : k_queue[i] \in Values
      BY <1>0, <2>3, ElementOfSeq
    <3>2. k + 1 \in Int /\ k \in Int
      BY <2>3
    <3> QED BY <1>0, <2>3, <3>1, <3>2, SubSeqProperties
  <2>6. k_queue' \in Seq(Values) /\ Len(k_queue') = q - 1
    <3>1. k_queue' \in Seq(Values) /\ Len(k_queue') = (k - 1) + (q - k)
      BY <2>2, <2>4, <2>5, ConcatProperties
    <3> QED BY <1>0, <2>3, <3>1
  <2>7. Return(c)
    BY <1>5 DEF PopTrue
  <2>8. Covered(k_pc', Clients, (q - 1) - n)
    BY <1>0, <1>n, <1>c, <1>4, <2>1, <2>7, CoveredMove
  <2> QED BY <1>0, <1>4, <2>1, <2>6, <2>7, <2>8 DEF ConcurrentInv, ConcurrentTypeOK
<1>6. ASSUME NEW c \in Clients, PopFalse(c) PROVE ConcurrentInv'
  <2>1. Return(c) /\ exit_now /\ UNCHANGED <<k_queue, exit_now>>
    BY <1>6 DEF PopFalse, GivesUp
  <2>2. Sleeping(k_pc', Clients) # {} => \E d \in Clients : k_pc'[d] = "kill"
    BY <1>4, <1>k, <2>1
  <2> QED BY <1>0, <1>4, <2>1, <2>2 DEF ConcurrentInv, ConcurrentTypeOK
<1>7. ASSUME NEW c \in Clients, SignalForKill(c) PROVE ConcurrentInv'
  <2>1. k_pc[c] = "idle" /\ exit_now' = TRUE /\ UNCHANGED <<k_queue, nwait>>
    BY <1>7 DEF SignalForKill
  <2>2. k_pc' \in [Clients -> P] /\ k_pc'[c] = "kill" /\ Moved(k_pc, k_pc', c, Clients)
    BY <1>0, <1>7 DEF SignalForKill, Moved
  <2>3. CountMoved(k_pc, k_pc', c, Clients, PopStates)
    BY <1>0, <2>2, CountAfter
  <2>4. Cardinality(In(k_pc', Clients, PopStates)) = w
    BY <2>1, <2>2, <2>3 DEF CountMoved, PopStates
  <2> QED BY <1>0, <1>n, <2>1, <2>2, <2>4 DEF ConcurrentInv, ConcurrentTypeOK
<1>8. ASSUME NEW c \in Clients, KillNotified(c) PROVE ConcurrentInv'
  <2>1. /\ k_pc' \in [Clients -> P]
        /\ \A d \in Clients : k_pc'[d] # "wait"
        /\ \A d \in Clients : k_pc'[d] \in PopStates <=> k_pc[d] \in PopStates
    BY <1>0, <1>8 DEF KillNotified, NotifyAll, PopStates
  <2>2. In(k_pc', Clients, PopStates) = In(k_pc, Clients, PopStates)
    BY <2>1 DEF In
  <2>3. Sleeping(k_pc', Clients) = {}
    BY <2>1 DEF Sleeping
  <2>4. Covered(k_pc', Clients, Len(k_queue') - Cardinality(In(k_pc', Clients, {"notify"})))
    BY <2>3 DEF Covered
  <2>5. UNCHANGED <<k_queue, exit_now, nwait>>
    BY <1>8 DEF KillNotified
  <2> QED BY <1>0, <1>n, <2>1, <2>2, <2>3, <2>4, <2>5 DEF ConcurrentInv, ConcurrentTypeOK
<1>9. ASSUME NEW c \in Clients, PopSpurious(c) PROVE ConcurrentInv'
  <2>1. k_pc[c] = "wait" /\ UNCHANGED <<k_queue, exit_now, nwait>>
    BY <1>9 DEF PopSpurious
  <2>2. /\ k_pc' \in [Clients -> P] /\ k_pc'[c] = "check" /\ Moved(k_pc, k_pc', c, Clients)
        /\ \A d \in Clients : k_pc[d] = "kill" => k_pc'[d] = "kill"
    BY <1>0, <1>9 DEF PopSpurious, Moved
  <2>3. /\ CountMoved(k_pc, k_pc', c, Clients, PopStates)
        /\ CountMoved(k_pc, k_pc', c, Clients, {"notify"})
        /\ MovedOne(k_pc, k_pc', c, Clients)
    BY <1>0, <2>2, CountAfter, AwakeAfter
  <2>4. /\ Cardinality(In(k_pc', Clients, PopStates)) = w
        /\ Cardinality(In(k_pc', Clients, {"notify"})) = n
        /\ Sleeping(k_pc', Clients) \subseteq Sleeping(k_pc, Clients)
    BY <2>1, <2>2, <2>3 DEF CountMoved, MovedOne, PopStates
  <2>5. ~exit_now => Covered(k_pc', Clients, q - n)
    BY <1>0, <1>n, <1>c, <2>2, CoveredMove
  <2> QED BY <1>0, <1>n, <1>k, <2>1, <2>2, <2>4, <2>5 DEF ConcurrentInv, ConcurrentTypeOK
<1> QED BY <1>1, <1>2, <1>3, <1>5, <1>6, <1>7, <1>8, <1>9 DEF ConcurrentNext

\* nwait_consumer_ is exact whenever Push reads it, and a notification decided
\* from it and sent after the unlock leaves no consumer asleep beside an element;
\* what was pushed is popped once and in the order that Type asks for.
THEOREM ConcurrentQueueSafe ==
  ASSUME ConcurrentQueueAssumption
  PROVE  ConcurrentSpec => [](PoppersCovered /\ NwaitExact /\ ConcurrentDelivers)
<1>r. ConcurrentInit => RankInv
  <2> SUFFICES ASSUME ConcurrentInit PROVE RankInv
    OBVIOUS
  <2>1. /\ k_queue = <<>> /\ k_popped = {} /\ pushed = {}
        /\ k_log = [lo |-> 0, hi |-> 1, rank |-> [v \in Values |-> 0], inOrder |-> TRUE]
    BY DEF ConcurrentInit, NoRanks
  <2>2. Elements(k_queue) = {} /\ Len(k_queue) = 0
    BY <2>1 DEF Elements
  <2> QED BY <2>1, <2>2 DEF RankInv, ConcurrentDelivers, Ranks, Ascending, Between
<1>1. ConcurrentInit => ConcurrentInv
  <2> SUFFICES ASSUME ConcurrentInit PROVE ConcurrentInv
    OBVIOUS
  <2>1. /\ k_queue \in Seq(Values) /\ k_pc \in [Clients -> {"idle", "check", "wait", "notify", "kill"}]
        /\ nwait = 0 /\ exit_now = FALSE
    BY EmptySeq DEF ConcurrentInit
  <2>2. Sleeping(k_pc, Clients) = {} /\ In(k_pc, Clients, PopStates) = {}
    BY DEF ConcurrentInit, Sleeping, In, PopStates
  <2>3. Cardinality(In(k_pc, Clients, PopStates)) = 0
    BY <2>2, FS_EmptySet
  <2> QED BY <2>1, <2>2, <2>3 DEF ConcurrentInv, ConcurrentTypeOK, Covered
<1>2. ConcurrentInv /\ RankInv /\ [ConcurrentNext]_concurrentVars => (ConcurrentInv /\ RankInv)'
  <2>1. ASSUME ConcurrentInv, UNCHANGED concurrentVars PROVE ConcurrentInv'
    BY <2>1 DEF ConcurrentInv, ConcurrentTypeOK, concurrentVars
  <2>2. ASSUME RankInv, UNCHANGED concurrentVars PROVE RankInv'
    BY <2>2 DEF RankInv, ConcurrentDelivers, Elements, Ranks, Ascending, Between, concurrentVars
  <2> QED BY <2>1, <2>2, ConcurrentKeeps, RankKeeps
<1>4. RankInv => ConcurrentDelivers
  BY DEF RankInv
<1>3. ASSUME ConcurrentInv PROVE PoppersCovered /\ NwaitExact
  <2>1. /\ In(k_pc, Clients, PopStates) = InPop /\ In(k_pc, Clients, {"notify"}) = Notifying
    BY DEF In, PopStates, InPop, Notifying
  <2>2. IsFiniteSet(Awake(k_pc, Clients)) /\ IsFiniteSet(Notifying)
    BY FS_Subset DEF Awake, Notifying, ConcurrentQueueAssumption
  <2>3. Cardinality(Awake(k_pc, Clients)) \in Nat /\ Cardinality(Notifying) \in Nat
    BY <2>2, FS_CardinalityType
  <2>4. Len(k_queue) \in Nat
    BY <1>3, LenProperties DEF ConcurrentInv, ConcurrentTypeOK
  <2> QED
    BY <1>3, <2>1, <2>3, <2>4 DEF ConcurrentInv, ConcurrentTypeOK, PoppersCovered, NwaitExact, Covered
<1> QED BY <1>r, <1>1, <1>2, <1>3, <1>4, PTL DEF ConcurrentSpec

\* A queue that was told to exit hands out nothing any more.
THEOREM KilledQueueSilent == ConcurrentSpec => KilledPopsNothing
<1>1. [ConcurrentNext]_concurrentVars =>
        [exit_now => k_popped' = k_popped]_concurrentVars
  BY DEF ConcurrentNext, concurrentVars, PushBack, PushFront, Push, Notify, PopWait, PopTrue, PopFalse,
         GivesUp, SignalForKill, KillNotified, PopSpurious
<1> QED BY <1>1, PTL DEF ConcurrentSpec, KilledPopsNothing


-----------------------------------------------------------------------------
(* BlockingQueue.                                                          *)

\* What a client means to the others: asleep on one of the two
\* condition variables (wpush, wpop), awake and on its way to test the queue
\* (tpush, tpop), about to signal (spush, spop), about to broadcast (sall).
RoleNames == {"out", "wpush", "wpop", "tpush", "tpop", "spush", "spop", "sall"}
RoleOf(s, o) ==
  IF s = "idle" THEN "out"
  ELSE IF s \in {"wait", "twait"} THEN IF o.dir = "push" THEN "wpush" ELSE "wpop"
  ELSE IF s = "signal"
       THEN IF o.dir = "push" THEN "spush"
            ELSE IF o.end = "all" /\ o.mode # "timed" THEN "sall" ELSE "spop"
  ELSE IF o.dir = "push" THEN "tpush" ELSE "tpop"
Roles == [c \in Clients |-> RoleOf(q_pc[c], op[c])]

Count(r, x) == Cardinality(In(r, Clients, {x}))

\* Both covers, with the signals on their way counted in.
QueueCover(r, q) ==
  /\ Count(r, "wpop") # 0 => q <= Count(r, "tpop") + Count(r, "spush")
  /\ Count(r, "wpush") # 0 =>
       Count(r, "sall") # 0 \/ Max - q <= Count(r, "tpush") + Count(r, "spop")

Counted(r) == \A x \in RoleNames : Count(r, x) \in Nat
\* One client goes from role a to role b.
Shift(r, s, a, b) ==
  /\ Counted(r) /\ Counted(s)
  /\ Count(s, a) = Count(r, a) - 1 /\ Count(s, b) = Count(r, b) + 1
  /\ \A x \in RoleNames \ {a, b} : Count(s, x) = Count(r, x)

LEMMA RoleShifts ==
  ASSUME IsFiniteSet(Clients), NEW r \in [Clients -> RoleNames], NEW s \in [Clients -> RoleNames],
         NEW c \in Clients, Moved(r, s, c, Clients), NEW a, NEW b, a # b, r[c] = a, s[c] = b
  PROVE  Shift(r, s, a, b)
<1>1. \A x : CountMoved(r, s, c, Clients, {x})
  BY CountAfter
<1>2. Counted(r) /\ Counted(s)
  BY <1>1 DEF Counted, Count, CountMoved
<1>3. Count(s, a) = Count(r, a) - 1 /\ Count(s, b) = Count(r, b) + 1
  BY <1>1 DEF Count, CountMoved
<1>4. ASSUME NEW x \in RoleNames \ {a, b} PROVE Count(s, x) = Count(r, x)
  BY <1>1, <1>4 DEF Count, CountMoved
<1> QED BY <1>2, <1>3, <1>4 DEF Shift

LEMMA RolesCounted ==
  ASSUME IsFiniteSet(Clients), NEW r PROVE Counted(r)
<1>1. \A x : IsFiniteSet(In(r, Clients, {x}))
  BY FS_Subset DEF In
<1> QED BY <1>1, FS_CardinalityType DEF Counted, Count

\* A broadcast leaves no producer asleep and changes nothing for consumers.
Woke(r, s) ==
  /\ Counted(s) /\ Count(s, "wpush") = 0
  /\ \A x \in RoleNames \ {"wpush", "tpush"} : Count(s, x) = Count(r, x)

LEMMA RolesWoken ==
  ASSUME IsFiniteSet(Clients), NEW r, NEW s,
         \A d \in Clients : s[d] = IF r[d] = "wpush" THEN "tpush" ELSE r[d]
  PROVE  Woke(r, s)
<1>1. In(s, Clients, {"wpush"}) = {}
  BY DEF In
<1>2. Count(s, "wpush") = 0
  BY <1>1, FS_EmptySet DEF Count
<1>3. ASSUME NEW x \in RoleNames \ {"wpush", "tpush"} PROVE Count(s, x) = Count(r, x)
  <2>1. In(s, Clients, {x}) = In(r, Clients, {x})
    BY <1>3 DEF In
  <2> QED BY <2>1 DEF Count
<1> QED BY <1>2, <1>3, RolesCounted DEF Woke

\* One client at a time: a waiter that wakes, a caller that arrives, one that
\* waits or gives up because the queue is empty or full, and one that works.
LEMMA CoverShifts ==
  ASSUME NEW r, NEW s, NEW a, NEW b, Shift(r, s, a, b), Max \in Nat,
         NEW q \in Nat, NEW n \in Nat, QueueCover(r, q),
         \/ a \in {"wpop", "out"} /\ b = "tpop" /\ n = q
         \/ a \in {"wpush", "out"} /\ b = "tpush" /\ n = q
         \/ a = "tpop" /\ b \in {"wpop", "out"} /\ q = 0 /\ n = 0
         \/ a = "tpush" /\ b \in {"wpush", "out"} /\ q >= Max /\ n = q
         \/ a = "tpush" /\ b = "spush" /\ n = q + 1
         \/ a = "tpop" /\ b = "spop" /\ n = q - 1
         \/ a = "tpop" /\ b = "sall" /\ n = 0
  PROVE  QueueCover(s, n)
<1>1. /\ a \in RoleNames /\ b \in RoleNames
      /\ "wpop" \in RoleNames /\ "wpush" \in RoleNames /\ "tpop" \in RoleNames
      /\ "tpush" \in RoleNames /\ "spop" \in RoleNames /\ "spush" \in RoleNames
      /\ "sall" \in RoleNames /\ "out" \in RoleNames
  BY DEF RoleNames
<1>2. /\ \A x \in RoleNames : Count(r, x) \in Nat /\ Count(s, x) \in Nat
      /\ Count(s, a) = Count(r, a) - 1 /\ Count(s, b) = Count(r, b) + 1
      /\ \A x \in RoleNames : x # a /\ x # b => Count(s, x) = Count(r, x)
  BY DEF Shift, Counted
<1>3. Count(s, "wpop") # 0 => n <= Count(s, "tpop") + Count(s, "spush")
  BY <1>1, <1>2 DEF QueueCover
<1>4. Count(s, "wpush") # 0 =>
       Count(s, "sall") # 0 \/ Max - n <= Count(s, "tpush") + Count(s, "spop")
  BY <1>1, <1>2 DEF QueueCover
<1> QED BY <1>3, <1>4 DEF QueueCover

\* A client returns after its signal, which woke one client of the other side
\* or found none asleep.
LEMMA CoverSignalled ==
  ASSUME NEW r, NEW m, NEW s, Max \in Nat, NEW q \in Nat, QueueCover(r, q),
         NEW a, NEW b, NEW w, <<a, w, b>> \in {<<"spush", "wpop", "tpop">>, <<"spop", "wpush", "tpush">>},
         Shift(r, m, a, "out"), (s = m /\ Count(m, w) = 0) \/ Shift(m, s, w, b)
  PROVE  QueueCover(s, q)
<1>1. /\ a \in RoleNames /\ b \in RoleNames /\ w \in RoleNames
      /\ "wpop" \in RoleNames /\ "wpush" \in RoleNames /\ "tpop" \in RoleNames
      /\ "tpush" \in RoleNames /\ "spop" \in RoleNames /\ "spush" \in RoleNames
      /\ "sall" \in RoleNames /\ "out" \in RoleNames
      /\ (a = "spush" /\ w = "wpop" /\ b = "tpop") \/ (a = "spop" /\ w = "wpush" /\ b = "tpush")
  BY DEF RoleNames
<1>2. /\ \A x \in RoleNames : Count(r, x) \in Nat /\ Count(m, x) \in Nat
      /\ Count(m, a) = Count(r, a) - 1
      /\ \A x \in RoleNames : x # a /\ x # "out" => Count(m, x) = Count(r, x)
  BY DEF Shift, Counted
<1>3. CASE s = m /\ Count(m, w) = 0
  BY <1>1, <1>2, <1>3 DEF QueueCover
<1>4. CASE Shift(m, s, w, b)
  <2>1. /\ \A x \in RoleNames : Count(s, x) \in Nat
        /\ Count(s, w) = Count(m, w) - 1 /\ Count(s, b) = Count(m, b) + 1
        /\ \A x \in RoleNames : x # w /\ x # b => Count(s, x) = Count(m, x)
    BY <1>4 DEF Shift, Counted
  <2> QED BY <1>1, <1>2, <2>1 DEF QueueCover
<1> QED BY <1>3, <1>4

\* A broadcast, by Clear, by TimedPopAll before it goes on to signal, or by the
\* other forms of PopAll as they return.
LEMMA CoverWoken ==
  ASSUME NEW r, NEW m, NEW s, Max \in Nat, NEW q \in Nat, NEW n \in Nat, QueueCover(r, q),
         Woke(r, m), Counted(r),
         \/ s = m /\ n = 0
         \/ Shift(m, s, "tpop", "spop") /\ n = 0
         \/ Shift(m, s, "sall", "out") /\ n = q
  PROVE  QueueCover(s, n)
<1>1. /\ "wpop" \in RoleNames /\ "wpush" \in RoleNames /\ "tpop" \in RoleNames
      /\ "tpush" \in RoleNames /\ "spop" \in RoleNames /\ "spush" \in RoleNames
      /\ "sall" \in RoleNames /\ "out" \in RoleNames
  BY DEF RoleNames
<1>2. /\ \A x \in RoleNames : Count(r, x) \in Nat /\ Count(m, x) \in Nat
      /\ Count(m, "wpush") = 0
      /\ \A x \in RoleNames : x # "wpush" /\ x # "tpush" => Count(m, x) = Count(r, x)
  BY DEF Woke, Counted
<1>3. CASE s = m /\ n = 0
  BY <1>1, <1>2, <1>3 DEF QueueCover
<1>4. CASE Shift(m, s, "tpop", "spop") /\ n = 0
  BY <1>1, <1>2, <1>4 DEF QueueCover, Shift, Counted
<1>5. CASE Shift(m, s, "sall", "out") /\ n = q
  BY <1>1, <1>2, <1>5 DEF QueueCover, Shift, Counted
<1> QED BY <1>3, <1>4, <1>5


BlockingSpec == BlockingInit /\ [][BlockingNext]_blockingVars

\* What one client's state says about its operation.
ClientOK(s, o) ==
  /\ s = "idle" => o = NoOp
  /\ s # "idle" => o \in AllOps
  /\ s = "wait" => o.mode = "wait"
  /\ s \in {"twait", "final"} => o.mode = "timed"

BlockingInv ==
  /\ BlockingTypeOK /\ BlockingNeverFails
  /\ \A c \in Clients : ClientOK(q_pc[c], op[c])
  /\ QueueCover(Roles, Len(queue))

LogInv ==
  /\ log \in [lo : Int, hi : Int, left : SUBSET Int, inOrder : BOOLEAN]
  /\ log.lo < log.hi /\ Between(Len(queue), queue, log.lo, log.hi) /\ BlockingDelivers

LEMMA OpsShape ==
  \A o \in AllOps :
    /\ o.dir \in {"push", "pop"} /\ o.mode \in Modes /\ o.end \in {"front", "back", "all"}
    /\ o.dir = "push" => o.end # "all"
  BY DEF AllOps, Modes

LEMMA RolesType ==
  /\ Roles \in [Clients -> RoleNames]
  /\ \A c \in Clients : Roles[c] = RoleOf(q_pc[c], op[c])
<1>1. \A c \in Clients : RoleOf(q_pc[c], op[c]) \in RoleNames
  BY DEF RoleOf, RoleNames
<1> QED BY <1>1 DEF Roles

\* What the queue holds after an operation that was not blocked.
LEMMA AfterOp ==
  ASSUME BlockingQueueAssumption, queue \in Seq(Int), Len(queue) <= Max,
         NEW o \in AllOps, NEW v \in Int, ~Blocked(o)
  PROVE  /\ After(o, v) \in Seq(Int) /\ Len(After(o, v)) <= Max
         /\ o.dir = "push" => Len(After(o, v)) = Len(queue) + 1
         /\ o.dir = "pop" /\ o.end # "all" => Len(After(o, v)) = Len(queue) - 1
         /\ o.dir = "pop" /\ o.end = "all" => Len(After(o, v)) = 0
<1>0. Len(queue) \in Nat /\ Max \in Nat
  BY LenProperties DEF BlockingQueueAssumption
<1>1. CASE o.dir = "push" /\ o.end = "front"
  <2>1. <<v>> \in Seq(Int) /\ Len(<<v>>) = 1
    BY <1>1
  <2>2. After(o, v) = <<v>> \o queue
    BY <1>1 DEF After
  <2>3. After(o, v) \in Seq(Int) /\ Len(After(o, v)) = Len(queue) + 1
    BY <1>0, <2>1, <2>2, ConcatProperties
  <2> QED BY <1>0, <1>1, <2>3 DEF Blocked, UnlockedIsFull
<1>2. CASE o.dir = "push" /\ o.end # "front"
  <2>2. After(o, v) = Append(queue, v)
    BY <1>2 DEF After
  <2>3. After(o, v) \in Seq(Int) /\ Len(After(o, v)) = Len(queue) + 1
    BY <1>0, <1>2, <2>2, AppendProperties
  <2> QED BY <1>0, <1>2, <2>3 DEF Blocked, UnlockedIsFull
<1>3. CASE o.dir = "pop"
  <2>1. queue # <<>> /\ Len(queue) > 0
    BY <1>0, <1>3, EmptySeq DEF Blocked
  <2>2. CASE o.end = "front"
    <3>1. After(o, v) = Tail(queue)
      BY <1>3, <2>2 DEF After
    <3>2. After(o, v) \in Seq(Int) /\ Len(After(o, v)) = Len(queue) - 1
      BY <2>1, <3>1, HeadTailProperties
    <3> QED BY <1>0, <1>3, <2>2, <3>2
  <2>3. CASE o.end = "back"
    <3> DEFINE n == Len(queue) - 1
    <3>n. n \in Nat /\ \A i \in 1 .. n : queue[i] \in Int
      BY <1>0, <2>1, ElementOfSeq
    <3>s. /\ SubSeq(queue, 1, n) \in Seq(Int)
          /\ Len(SubSeq(queue, 1, n)) = IF 1 <= n THEN n - 1 + 1 ELSE 0
      BY <3>n, SubSeqProperties
    <3>1. After(o, v) = SubSeq(queue, 1, n)
      BY <1>3, <2>3 DEF After
    <3>e. n = Len(queue) - 1
      OBVIOUS
    <3> HIDE DEF n
    <3>l. (IF 1 <= n THEN n - 1 + 1 ELSE 0) = n
      BY <3>n
    <3>2. After(o, v) \in Seq(Int) /\ Len(After(o, v)) = Len(queue) - 1
      BY <3>s, <3>1, <3>e, <3>l, Zenon
    <3> QED BY <1>0, <1>3, <2>3, <3>2
  <2>4. CASE o.end = "all"
    BY <1>0, <1>3, <2>4, EmptySeq DEF After
  <2> QED BY <2>2, <2>3, <2>4, OpsShape
<1> QED BY <1>1, <1>2, <1>3, OpsShape

\* One client changes its state and its operation, the others keep theirs.
Changed(c, s, o) ==
  /\ q_pc'[c] = s /\ op'[c] = o
  /\ \A d \in Clients : d # c => q_pc'[d] = q_pc[d] /\ op'[d] = op[d]

LEMMA ChangedRoles ==
  ASSUME NEW c \in Clients, NEW s, NEW o, Changed(c, s, o)
  PROVE  Moved(Roles, Roles', c, Clients) /\ Roles'[c] = RoleOf(s, o)
<1>1. \A d \in Clients : Roles'[d] = RoleOf(q_pc'[d], op'[d])
  BY DEF Roles
<1>2. \A d \in Clients : d # c => Roles'[d] = RoleOf(q_pc[d], op[d])
  BY <1>1 DEF Changed
<1>3. \A d \in Clients : Roles[d] = RoleOf(q_pc[d], op[d])
  BY DEF Roles
<1>4. Roles'[c] = RoleOf(s, o)
  BY <1>1 DEF Changed
<1> QED BY <1>2, <1>3, <1>4 DEF Moved

LEMMA ChangedKeeps ==
  ASSUME BlockingQueueAssumption, BlockingInv,
         NEW c \in Clients, NEW s, NEW o, Changed(c, s, o), ClientOK(s, o),
         NEW a, NEW b, a # b, RoleOf(q_pc[c], op[c]) = a, RoleOf(s, o) = b
  PROVE  /\ \A d \in Clients : ClientOK(q_pc'[d], op'[d])
         /\ Shift(Roles, Roles', a, b)
<1>1. \A d \in Clients : ClientOK(q_pc'[d], op'[d])
  BY DEF Changed, BlockingInv
<1>2. Moved(Roles, Roles', c, Clients) /\ Roles'[c] = b /\ Roles[c] = a
  BY ChangedRoles, RolesType
<1>3. Roles \in [Clients -> RoleNames] /\ Roles' \in [Clients -> RoleNames]
  <2>1. \A d \in Clients : RoleOf(q_pc'[d], op'[d]) \in RoleNames
    BY DEF RoleOf, RoleNames
  <2> QED BY <2>1, RolesType DEF Roles
<1>4. IsFiniteSet(Clients)
  BY DEF BlockingQueueAssumption
<1> QED BY <1>1, <1>2, <1>3, <1>4, RoleShifts


\* A waiter that was woken is on its way to test the queue.
LEMMA WokenOK ==
  ASSUME NEW s \in {"wait", "twait"}, NEW o
  PROVE  /\ Woken(s) \in {"check", "final"}
         /\ ClientOK(s, o) => ClientOK(Woken(s), o)
         /\ RoleOf(s, o) = IF o.dir = "push" THEN "wpush" ELSE "wpop"
         /\ RoleOf(Woken(s), o) = IF o.dir = "push" THEN "tpush" ELSE "tpop"
<1>1. Woken(s) \in {"check", "final"} /\ (Woken(s) = "final" => s = "twait")
  BY DEF Woken
<1>2. ClientOK(s, o) => ClientOK(Woken(s), o)
  BY <1>1 DEF ClientOK
<1> QED BY <1>1, <1>2 DEF RoleOf

LEMMA BroadcastRoles ==
  ASSUME NEW p, NEW d \in Clients
  PROVE  LET r == RoleOf(p[d], op[d]) s == RoleOf(Broadcast(p, "push")[d], op[d])
         IN  /\ s = IF r = "wpush" THEN "tpush" ELSE r
             /\ ClientOK(p[d], op[d]) => ClientOK(Broadcast(p, "push")[d], op[d])
             /\ Broadcast(p, "push")[d] \in {p[d], "check", "final"}
             /\ p[d] \in {"check", "final"} => Broadcast(p, "push")[d] = p[d]
<1>1. CASE d \in Waiting(p, "push")
  <2>1. p[d] \in {"wait", "twait"} /\ op[d].dir = "push" /\ Broadcast(p, "push")[d] = Woken(p[d])
    BY <1>1 DEF Waiting, Broadcast
  <2>2. /\ Woken(p[d]) \in {"check", "final"}
        /\ ClientOK(p[d], op[d]) => ClientOK(Woken(p[d]), op[d])
        /\ RoleOf(p[d], op[d]) = "wpush" /\ RoleOf(Woken(p[d]), op[d]) = "tpush"
    BY <2>1, WokenOK
  <2> QED BY <2>1, <2>2
<1>2. CASE d \notin Waiting(p, "push")
  <2>1. Broadcast(p, "push")[d] = p[d]
    BY <1>2 DEF Broadcast
  <2>2. RoleOf(p[d], op[d]) # "wpush"
    BY <1>2 DEF RoleOf, Waiting
  <2> QED BY <2>1, <2>2
<1> QED BY <1>1, <1>2


LEMMA BlockingKeeps ==
  ASSUME BlockingQueueAssumption, BlockingInv, LogInv, BlockingNext
  PROVE  BlockingInv'
<1> DEFINE P == {"idle", "check", "wait", "twait", "final", "signal"}
<1>0. /\ queue \in Seq(Int) /\ Len(queue) \in Nat /\ Len(queue) <= Max
      /\ q_pc \in [Clients -> P] /\ op \in [Clients -> AllOps \cup {NoOp}]
      /\ Max \in Nat /\ Max # 0 /\ IsFiniteSet(Clients) /\ Ops \subseteq AllOps
      /\ "wait" \notin failed
  BY LenProperties DEF BlockingInv, BlockingTypeOK, BlockingNeverFails, BlockingQueueAssumption
<1>c. QueueCover(Roles, Len(queue)) /\ \A c \in Clients : ClientOK(q_pc[c], op[c])
  BY DEF BlockingInv
<1>1. ASSUME NEW c \in Clients, NEW o \in Ops, Call(c, o) PROVE BlockingInv'
  <2>2. /\ q_pc[c] = "idle" /\ q_pc' = [q_pc EXCEPT ![c] = "check"] /\ op' = [op EXCEPT ![c] = o]
        /\ o \in AllOps /\ queue' = queue /\ failed' = failed
    BY <1>0, <1>1 DEF Call
  <2>3. BlockingTypeOK' /\ BlockingNeverFails'
    BY <1>0, <2>2 DEF BlockingTypeOK, BlockingNeverFails
  <2>4. Changed(c, "check", o)
    BY <1>0, <2>2 DEF Changed
  <2>5. ClientOK("check", o)
    BY <2>2 DEF ClientOK
  <2> DEFINE b == IF o.dir = "push" THEN "tpush" ELSE "tpop"
  <2>6. RoleOf(q_pc[c], op[c]) = "out" /\ RoleOf("check", o) = b /\ b # "out"
    BY <2>2 DEF RoleOf
  <2>7. /\ \A d \in Clients : ClientOK(q_pc'[d], op'[d])
        /\ Shift(Roles, Roles', "out", b)
    BY <2>4, <2>5, <2>6, ChangedKeeps
  <2>8. b \in {"tpush", "tpop"}
    OBVIOUS
  <2> HIDE DEF b
  <2>9. QueueCover(Roles', Len(queue))
    BY <1>0, <1>c, <2>7, <2>8, CoverShifts
  <2>u. Len(queue') = Len(queue)
    BY <2>2
  <2> QED BY <2>3, <2>7, <2>9, <2>u DEF BlockingInv
<1>2. ASSUME NEW c \in Clients, Block(c) PROVE BlockingInv'
  <2> DEFINE s == IF op[c].mode = "wait" THEN "wait" ELSE "twait"
             w == IF op[c].dir = "push" THEN "wpush" ELSE "wpop"
             t == IF op[c].dir = "push" THEN "tpush" ELSE "tpop"
  <2>1. /\ q_pc[c] = "check" /\ Blocked(op[c]) /\ op[c].mode # "try"
        /\ q_pc' = [q_pc EXCEPT ![c] = s]
        /\ queue' = queue /\ op' = op /\ failed' = failed
    BY <1>2 DEF Block
  <2>2. op[c] \in AllOps
    BY <1>c, <2>1 DEF ClientOK
  <2>m. op[c].mode \in Modes /\ op[c].dir \in {"push", "pop"}
    BY <2>2, OpsShape
  <2>3. BlockingTypeOK' /\ BlockingNeverFails'
    BY <1>0, <2>1 DEF BlockingTypeOK, BlockingNeverFails
  <2>4. Changed(c, s, op[c])
    BY <1>0, <2>1 DEF Changed
  <2>5. ClientOK(s, op[c])
    BY <1>c, <2>1, <2>2, <2>m DEF ClientOK, Modes
  <2>6. RoleOf(q_pc[c], op[c]) = t /\ RoleOf(s, op[c]) = w /\ t # w
    BY <2>1 DEF RoleOf
  <2>7. /\ \A d \in Clients : ClientOK(q_pc'[d], op'[d])
        /\ Shift(Roles, Roles', t, w)
    BY <2>4, <2>5, <2>6, ChangedKeeps
  <2>8. \/ t = "tpop" /\ w = "wpop" /\ Len(queue) = 0
        \/ t = "tpush" /\ w = "wpush" /\ Len(queue) >= Max
    BY <1>0, <2>1, <2>m, EmptySeq DEF Blocked, UnlockedIsFull
  <2> HIDE DEF t, w, s
  <2>9. QueueCover(Roles', Len(queue))
    BY <1>0, <1>c, <2>7, <2>8, CoverShifts
  <2>u. Len(queue') = Len(queue)
    BY <2>1
  <2> QED BY <2>3, <2>7, <2>9, <2>u DEF BlockingInv
<1>3. ASSUME NEW c \in Clients, GiveUp(c) PROVE BlockingInv'
  <2> DEFINE t == IF op[c].dir = "push" THEN "tpush" ELSE "tpop"
  <2>1. /\ Blocked(op[c])
        /\ q_pc[c] = "final" \/ (q_pc[c] = "check" /\ op[c].mode = "try")
        /\ q_pc' = [q_pc EXCEPT ![c] = "idle"] /\ op' = [op EXCEPT ![c] = NoOp]
        /\ queue' = queue
        /\ failed' = failed \cup {op[c].mode}
    BY <1>3 DEF GiveUp
  <2>b. Blocked(op[c])
    BY <1>3 DEF GiveUp
  <2>2. op[c] \in AllOps /\ op[c].mode # "wait"
    BY <1>c, <2>1 DEF ClientOK
  <2>m. op[c].mode \in Modes /\ op[c].dir \in {"push", "pop"}
    BY <2>2, OpsShape
  <2>3. BlockingTypeOK' /\ BlockingNeverFails'
    BY <1>0, <2>1, <2>2 DEF BlockingTypeOK, BlockingNeverFails
  <2>4. Changed(c, "idle", NoOp)
    BY <1>0, <2>1 DEF Changed
  <2>5. ClientOK("idle", NoOp)
    BY DEF ClientOK, NoOp
  <2>6. RoleOf(q_pc[c], op[c]) = t /\ RoleOf("idle", NoOp) = "out" /\ t # "out"
    BY <2>1 DEF RoleOf
  <2>7. /\ \A d \in Clients : ClientOK(q_pc'[d], op'[d])
        /\ Shift(Roles, Roles', t, "out")
    BY <2>4, <2>5, <2>6, ChangedKeeps
  <2>8. \/ t = "tpop" /\ Len(queue) = 0
        \/ t = "tpush" /\ Len(queue) >= Max
    BY <1>0, <2>b, <2>m, EmptySeq DEF Blocked, UnlockedIsFull
  <2> HIDE DEF t
  <2>9. QueueCover(Roles', Len(queue))
    BY <1>0, <1>c, <2>7, <2>8, CoverShifts
  <2>u. Len(queue') = Len(queue)
    BY <2>1
  <2> QED BY <2>3, <2>7, <2>9, <2>u DEF BlockingInv
<1>4. ASSUME NEW c \in Clients, Timeout(c) \/ SpuriousWakeup(c) PROVE BlockingInv'
  <2> DEFINE w == IF op[c].dir = "push" THEN "wpush" ELSE "wpop"
             t == IF op[c].dir = "push" THEN "tpush" ELSE "tpop"
             s == Woken(q_pc[c])
  <2>1. /\ q_pc[c] \in {"wait", "twait"} /\ q_pc' = [q_pc EXCEPT ![c] = s]
        /\ queue' = queue /\ op' = op /\ failed' = failed
    BY <1>0, <1>4 DEF Timeout, SpuriousWakeup
  <2>2. s \in {"check", "final"} /\ (s = "final" => q_pc[c] = "twait")
    BY <2>1 DEF Woken
  <2>3. BlockingTypeOK' /\ BlockingNeverFails'
    BY <1>0, <2>1, <2>2 DEF BlockingTypeOK, BlockingNeverFails
  <2>4. Changed(c, s, op[c])
    BY <1>0, <2>1 DEF Changed
  <2>k. ClientOK(q_pc[c], op[c])
    BY <1>c
  <2>5. ClientOK(s, op[c])
    BY <2>k, <2>1, <2>2 DEF ClientOK
  <2>6. RoleOf(q_pc[c], op[c]) = w /\ RoleOf(s, op[c]) = t /\ t # w
    BY <2>1, <2>2 DEF RoleOf
  <2>7. /\ \A d \in Clients : ClientOK(q_pc'[d], op'[d])
        /\ Shift(Roles, Roles', w, t)
    BY <2>4, <2>5, <2>6, ChangedKeeps
  <2>8. (w = "wpop" /\ t = "tpop") \/ (w = "wpush" /\ t = "tpush")
    OBVIOUS
  <2> HIDE DEF t, w, s
  <2>9. QueueCover(Roles', Len(queue))
    BY <1>0, <1>c, <2>7, <2>8, CoverShifts
  <2>u. Len(queue') = Len(queue)
    BY <2>1
  <2> QED BY <2>3, <2>7, <2>9, <2>u DEF BlockingInv
<1>5. ASSUME NEW c \in Clients, Perform(c) PROVE BlockingInv'
  <2> DEFINE o == op[c]
             t == IF o.dir = "push" THEN "tpush" ELSE "tpop"
             b == RoleOf("signal", o)
  <2>1. /\ q_pc[c] \in {"check", "final"} /\ ~Blocked(o) /\ queue' = After(o, Label(o))
        /\ q_pc' = [EarlyBroadcast(q_pc, o) EXCEPT ![c] = "signal"]
        /\ op' = op /\ failed' = failed
    BY <1>5 DEF Perform
  <2>2. o \in AllOps
    BY <1>c, <2>1 DEF ClientOK
  <2>m. /\ o.mode \in Modes /\ o.dir \in {"push", "pop"} /\ o.end \in {"front", "back", "all"}
        /\ (o.dir = "push" => o.end # "all")
    BY <2>2, OpsShape
  <2>3. /\ queue' \in Seq(Int) /\ Len(queue') <= Max
        /\ o.dir = "push" => Len(queue') = Len(queue) + 1
        /\ o.dir = "pop" /\ o.end # "all" => Len(queue') = Len(queue) - 1
        /\ o.dir = "pop" /\ o.end = "all" => Len(queue') = 0
    <3>1. Label(o) \in Int
      BY DEF Label, LogInv
    <3> HIDE DEF o
    <3> QED BY <1>0, <2>1, <2>2, <3>1, AfterOp
  <2>n. Len(queue') \in Nat
    BY <2>3, LenProperties
  <2>4. RoleOf(q_pc[c], o) = t /\ t # b
        /\ ClientOK("signal", o) /\ "signal" \in P
    BY <2>1, <2>2 DEF RoleOf, ClientOK
  <2>5. op' \in [Clients -> AllOps \cup {NoOp}]
        /\ BlockingNeverFails'
    BY <1>0, <2>1 DEF BlockingNeverFails
  <2>6. CASE ~(o.dir = "pop" /\ o.end = "all" /\ o.mode = "timed")
    <3>1. q_pc' = [q_pc EXCEPT ![c] = "signal"]
      BY <2>1, <2>6 DEF EarlyBroadcast
    <3>2. BlockingTypeOK' /\ Changed(c, "signal", o)
      BY <1>0, <2>1, <2>3, <2>5, <3>1 DEF BlockingTypeOK, Changed
    <3>3. \/ t = "tpush" /\ b = "spush" /\ Len(queue') = Len(queue) + 1
          \/ t = "tpop" /\ b = "spop" /\ Len(queue') = Len(queue) - 1
          \/ t = "tpop" /\ b = "sall" /\ Len(queue') = 0
      BY <2>3, <2>6, <2>m DEF RoleOf
    <3> HIDE DEF b, t, o
    <3>r. RoleOf("signal", o) = b
      BY DEF b
    <3>o. RoleOf(q_pc[c], op[c]) = t
      BY <2>4 DEF o
    <3>4. /\ \A d \in Clients : ClientOK(q_pc'[d], op'[d])
          /\ Shift(Roles, Roles', t, b)
      BY <2>4, <3>2, <3>r, <3>o, ChangedKeeps
    <3>5. QueueCover(Roles', Len(queue'))
      BY <1>0, <1>c, <2>n, <3>3, <3>4, CoverShifts
    <3> QED BY <2>5, <3>2, <3>4, <3>5 DEF BlockingInv
  <2>7. CASE o.dir = "pop" /\ o.end = "all" /\ o.mode = "timed"
    <3> DEFINE B == Broadcast(q_pc, "push")
               m == [d \in Clients |-> RoleOf(B[d], op[d])]
    <3>1. q_pc' = [B EXCEPT ![c] = "signal"]
      BY <2>1, <2>7 DEF EarlyBroadcast
    <3>2. \A d \in Clients :
            /\ m[d] = IF Roles[d] = "wpush" THEN "tpush" ELSE Roles[d]
            /\ ClientOK(B[d], op[d])
            /\ B[d] \in {q_pc[d], "check", "final"}
            /\ (q_pc[d] \in {"check", "final"} => B[d] = q_pc[d])
      <4> TAKE d \in Clients
      <4>1. /\ RoleOf(B[d], op[d]) = IF RoleOf(q_pc[d], op[d]) = "wpush" THEN "tpush" ELSE RoleOf(q_pc[d], op[d])
            /\ ClientOK(q_pc[d], op[d]) => ClientOK(B[d], op[d])
            /\ B[d] \in {q_pc[d], "check", "final"}
            /\ q_pc[d] \in {"check", "final"} => B[d] = q_pc[d]
        BY BroadcastRoles
      <4>2. m[d] = RoleOf(B[d], op[d]) /\ Roles[d] = RoleOf(q_pc[d], op[d])
        BY RolesType
      <4> QED BY <1>c, <4>1, <4>2
    <3>3. B \in [Clients -> P]
      <4>1. B = [d \in Clients |-> B[d]] /\ \A d \in Clients : B[d] \in P
        BY <1>0, <3>2 DEF Broadcast
      <4> QED BY <4>1
    <3>m. m \in [Clients -> RoleNames]
      BY DEF RoleOf, RoleNames
    <3>w. B[c] = q_pc[c]
      BY <2>1, <3>2
    <3>a. m[c] = "tpop"
      BY <2>1, <2>7, <3>w DEF RoleOf
    <3> HIDE DEF B
    <3>4. /\ q_pc' \in [Clients -> P] /\ q_pc'[c] = "signal"
          /\ \A d \in Clients : d # c => q_pc'[d] = B[d] /\ op'[d] = op[d]
          /\ op'[c] = op[c]
      BY <1>0, <2>1, <3>1, <3>3
    <3>5. BlockingTypeOK'
      BY <2>3, <2>5, <3>4 DEF BlockingTypeOK
    <3>6. \A d \in Clients : ClientOK(q_pc'[d], op'[d])
      BY <2>4, <3>2, <3>4
    <3>7. \A d \in Clients : Roles'[d] = RoleOf(q_pc'[d], op'[d])
      BY DEF Roles
    <3>8. Roles' \in [Clients -> RoleNames]
      <4>1. \A d \in Clients : RoleOf(q_pc'[d], op'[d]) \in RoleNames
        BY DEF RoleOf, RoleNames
      <4> QED BY <4>1 DEF Roles
    <3>9. Roles'[c] = "spop"
      BY <2>7, <3>4, <3>7 DEF RoleOf
    <3>10. Moved(m, Roles', c, Clients)
      BY <3>4, <3>7 DEF Moved
    <3>11. Woke(Roles, m) /\ Counted(Roles)
      <4> HIDE DEF m
      <4>1. \A d \in Clients : m[d] = IF Roles[d] = "wpush" THEN "tpush" ELSE Roles[d]
        BY <3>2
      <4> QED BY <1>0, <4>1, RolesWoken, RolesCounted
    <3> HIDE DEF m
    <3>12. Shift(m, Roles', "tpop", "spop")
      BY <1>0, <3>m, <3>a, <3>8, <3>9, <3>10, RoleShifts
    <3>13. QueueCover(Roles', Len(queue'))
      BY <1>0, <1>c, <2>3, <2>7, <2>n, <3>11, <3>12, CoverWoken
    <3> QED BY <2>5, <3>5, <3>6, <3>13 DEF BlockingInv
  <2> QED BY <2>6, <2>7
<1>6. ASSUME Clear PROVE BlockingInv'
  <2> DEFINE B == Broadcast(q_pc, "push")
  <2>1. /\ queue' = <<>> /\ op' = op /\ failed' = failed /\ q_pc' = B
    BY <1>6 DEF Clear
  <2>2. \A d \in Clients :
          /\ RoleOf(B[d], op[d]) = IF RoleOf(q_pc[d], op[d]) = "wpush" THEN "tpush" ELSE RoleOf(q_pc[d], op[d])
          /\ ClientOK(q_pc[d], op[d]) => ClientOK(B[d], op[d])
          /\ B[d] \in {q_pc[d], "check", "final"}
    BY BroadcastRoles
  <2>3. q_pc' \in [Clients -> P]
    <3>1. B = [d \in Clients |-> B[d]] /\ \A d \in Clients : B[d] \in P
      BY <1>0, <2>2 DEF Broadcast
    <3> QED BY <2>1, <3>1
  <2>4. BlockingTypeOK' /\ BlockingNeverFails' /\ Len(queue') = 0
    BY <1>0, <2>1, <2>3, EmptySeq DEF BlockingTypeOK, BlockingNeverFails
  <2> HIDE DEF B
  <2>5. \A d \in Clients : Roles'[d] = RoleOf(B[d], op[d]) /\ Roles[d] = RoleOf(q_pc[d], op[d])
    BY <2>1 DEF Roles
  <2>6. \A d \in Clients : Roles'[d] = IF Roles[d] = "wpush" THEN "tpush" ELSE Roles[d]
    BY <2>2, <2>5
  <2>7. Woke(Roles, Roles') /\ Counted(Roles)
    BY <1>0, <2>6, RolesWoken, RolesCounted
  <2>8. QueueCover(Roles', 0)
    BY <1>0, <1>c, <2>7, CoverWoken
  <2>9. \A d \in Clients : ClientOK(q_pc'[d], op'[d])
    BY <1>c, <2>1, <2>2
  <2> QED BY <2>4, <2>8, <2>9 DEF BlockingInv
<1>7. ASSUME NEW c \in Clients, Signal(c) PROVE BlockingInv'
  <2> DEFINE o == op[c]
             p == [q_pc EXCEPT ![c] = "idle"]
             m == [Roles EXCEPT ![c] = "out"]
  <2>1. /\ q_pc[c] = "signal" /\ op' = [op EXCEPT ![c] = NoOp]
        /\ q_pc' \in IF o.dir = "push" THEN PushSignal(p) ELSE PopSignal(p, o)
        /\ queue' = queue /\ failed' = failed
    BY <1>7 DEF Signal
  <2>2. o \in AllOps
    BY <1>c, <2>1 DEF ClientOK
  <2>m. o.dir \in {"push", "pop"}
    BY <2>2, OpsShape
  <2>3. /\ op' \in [Clients -> AllOps \cup {NoOp}] /\ op'[c] = NoOp
        /\ \A d \in Clients : d # c => op'[d] = op[d]
        /\ p \in [Clients -> P] /\ p[c] = "idle" /\ \A d \in Clients : d # c => p[d] = q_pc[d]
    BY <1>0, <2>1
  <2>4. /\ m \in [Clients -> RoleNames] /\ Roles \in [Clients -> RoleNames]
        /\ Moved(Roles, m, c, Clients) /\ m[c] = "out" /\ Roles[c] = RoleOf("signal", o)
        /\ \A d \in Clients : d # c => m[d] = RoleOf(q_pc[d], op[d])
    <3>1. /\ Roles \in [Clients -> RoleNames] /\ "out" \in RoleNames
          /\ \A d \in Clients : Roles[d] = RoleOf(q_pc[d], op[d])
      BY RolesType DEF RoleNames
    <3> QED BY <2>1, <3>1 DEF Moved
  <2>5. ClientOK("idle", NoOp) /\ RoleOf("idle", NoOp) = "out"
    BY DEF ClientOK, NoOp, RoleOf
  <2>6. \A d \in Clients : Roles'[d] = RoleOf(q_pc'[d], op'[d])
    BY DEF Roles
  <2>7. Roles' \in [Clients -> RoleNames]
    <3>1. \A d \in Clients : RoleOf(q_pc'[d], op'[d]) \in RoleNames
      BY DEF RoleOf, RoleNames
    <3> QED BY <3>1 DEF Roles
  <2>8. ASSUME q_pc' \in [Clients -> P] PROVE BlockingTypeOK' /\ BlockingNeverFails'
    BY <1>0, <2>1, <2>3, <2>8 DEF BlockingTypeOK, BlockingNeverFails
  <2>s. RoleOf("signal", o) # "out"
    BY DEF RoleOf
  <2>9. CASE o.dir = "pop" /\ o.end = "all" /\ o.mode # "timed"
    <3> DEFINE B == Broadcast(p, "push")
               k == [d \in Clients |-> IF Roles[d] = "wpush" THEN "tpush" ELSE Roles[d]]
    <3>1. q_pc' = B
      BY <2>1, <2>9 DEF PopSignal
    <3>2. \A d \in Clients :
            /\ RoleOf(B[d], op[d]) = IF RoleOf(p[d], op[d]) = "wpush" THEN "tpush" ELSE RoleOf(p[d], op[d])
            /\ ClientOK(p[d], op[d]) => ClientOK(B[d], op[d])
            /\ B[d] \in {p[d], "check", "final"}
      <4> HIDE DEF p
      <4> QED BY BroadcastRoles
    <3>3. B[c] = "idle" /\ B \in [Clients -> P]
      <4>1. /\ B = [d \in Clients |-> B[d]] /\ \A d \in Clients : B[d] \in P
        BY <2>3, <3>2 DEF Broadcast
      <4>2. c \notin Waiting(p, "push")
        BY <2>3 DEF Waiting
      <4> QED BY <2>3, <4>1, <4>2 DEF Broadcast
    <3> HIDE DEF B, p
    <3>4. \A d \in Clients : ClientOK(q_pc'[d], op'[d])
      BY <1>c, <2>1, <2>3, <2>5, <3>1, <3>2, <3>3
    <3>k. k \in [Clients -> RoleNames]
      BY <2>4 DEF RoleNames
    <3>5. k[c] = "sall" /\ Roles'[c] = "out"
      BY <2>3, <2>4, <2>5, <2>6, <2>9, <3>1, <3>3 DEF RoleOf
    <3>6. Moved(k, Roles', c, Clients)
      <4>1. ASSUME NEW d \in Clients, d # c PROVE Roles'[d] = k[d]
        <5>1. Roles'[d] = RoleOf(B[d], op[d]) /\ p[d] = q_pc[d] /\ Roles[d] = RoleOf(q_pc[d], op[d])
          BY <2>3, <2>6, <3>1, <4>1, RolesType
        <5> QED BY <3>2, <5>1
      <4> QED BY <4>1 DEF Moved
    <3>7. Woke(Roles, k) /\ Counted(Roles)
      <4>1. \A d \in Clients : k[d] = IF Roles[d] = "wpush" THEN "tpush" ELSE Roles[d]
        OBVIOUS
      <4> HIDE DEF k
      <4> QED BY <1>0, <4>1, RolesWoken, RolesCounted
    <3> HIDE DEF k
    <3>8. Shift(k, Roles', "sall", "out")
      BY <1>0, <2>7, <3>k, <3>5, <3>6, RoleShifts
    <3>9. QueueCover(Roles', Len(queue))
      BY <1>0, <1>c, <3>7, <3>8, CoverWoken
    <3>u. Len(queue') = Len(queue)
      BY <2>1
    <3> QED BY <2>8, <3>1, <3>3, <3>4, <3>9, <3>u DEF BlockingInv
  <2>10. CASE ~(o.dir = "pop" /\ o.end = "all" /\ o.mode # "timed")
    <3> DEFINE D == IF o.dir = "push" THEN "pop" ELSE "push"
               a == IF o.dir = "push" THEN "spush" ELSE "spop"
               w == IF o.dir = "push" THEN "wpop" ELSE "wpush"
               t == IF o.dir = "push" THEN "tpop" ELSE "tpush"
    <3>1. q_pc' \in SignalOne(p, D)
      BY <2>1, <2>m, <2>10 DEF PushSignal, PopSignal
    <3>2. <<a, w, t>> \in {<<"spush", "wpop", "tpop">>, <<"spop", "wpush", "tpush">>}
          /\ w # t /\ a # "out" /\ D \in {"push", "pop"}
          /\ w = (IF D = "push" THEN "wpush" ELSE "wpop") /\ t = (IF D = "push" THEN "tpush" ELSE "tpop")
      BY <2>m
    <3>3. RoleOf("signal", o) = a
      BY <2>m, <2>10 DEF RoleOf
    <3> HIDE DEF a, w, t, D, p, m, o
    <3>4. Shift(Roles, m, a, "out")
      BY <1>0, <2>4, <3>2, <3>3, RoleShifts
    <3>5. CASE Waiting(p, D) = {}
      <4>1. q_pc' = p
        BY <3>1, <3>5 DEF SignalOne
      <4>2. \A d \in Clients : ClientOK(q_pc'[d], op'[d])
        BY <1>c, <2>1, <2>3, <2>5, <4>1
      <4>3. \A d \in Clients : Roles'[d] = m[d]
        BY <2>3, <2>4, <2>5, <2>6, <4>1
      <4>4. Roles' = m
        BY <2>4, <2>7, <4>3
      <4>5. \A d \in Clients : m[d] # w
        <5> SUFFICES ASSUME NEW d \in Clients, m[d] = w PROVE FALSE
          OBVIOUS
        <5>1. d # c
          BY <2>4, <3>2
        <5>2. p[d] = q_pc[d] /\ RoleOf(q_pc[d], op[d]) = w
          BY <2>3, <2>4, <5>1
        <5>3. ClientOK(q_pc[d], op[d])
          BY <1>c
        <5>4. q_pc[d] \in {"wait", "twait"}
          BY <3>2, <5>2 DEF RoleOf
        <5>5. op[d].dir \in {"push", "pop"}
          BY <5>3, <5>4, OpsShape DEF ClientOK
        <5>6. op[d].dir = D
          BY <3>2, <5>2, <5>4, <5>5 DEF RoleOf
        <5> QED BY <3>5, <5>2, <5>4, <5>6 DEF Waiting
      <4>6. Count(m, w) = 0
        <5>1. In(m, Clients, {w}) = {}
          BY <4>5 DEF In
        <5> QED BY <5>1, FS_EmptySet DEF Count
      <4>7. QueueCover(Roles', Len(queue))
        <5>1. QueueCover(Roles, Len(queue)) /\ Len(queue) \in Nat /\ Len(queue) <= Max /\ Max \in Nat
          BY <1>0, <1>c
        <5>2. (m = m /\ Count(m, w) = 0) \/ Shift(m, m, w, t)
          BY <4>6
        <5>3. QueueCover(m, Len(queue))
          BY <3>2, <3>4, <5>1, <5>2, CoverSignalled
        <5> QED BY <4>4, <5>3
      <4>u. Len(queue') = Len(queue) /\ q_pc' \in [Clients -> P]
        BY <2>1, <2>3, <4>1
      <4> QED BY <2>8, <4>2, <4>7, <4>u DEF BlockingInv
    <3>6. CASE Waiting(p, D) # {}
      <4>1. PICK e \in Waiting(p, D) : q_pc' = [p EXCEPT ![e] = Woken(p[e])]
        BY <3>1, <3>6 DEF SignalOne
      <4>2. e \in Clients /\ op[e].dir = D /\ p[e] \in {"wait", "twait"} /\ e # c /\ p[e] = q_pc[e]
        BY <2>3, <4>1 DEF Waiting
      <4>3. /\ Woken(p[e]) \in {"check", "final"}
            /\ ClientOK(p[e], op[e]) => ClientOK(Woken(p[e]), op[e])
            /\ RoleOf(p[e], op[e]) = w /\ RoleOf(Woken(p[e]), op[e]) = t
        BY <3>2, <4>2, WokenOK
      <4>4. /\ q_pc' \in [Clients -> P] /\ q_pc'[e] = Woken(p[e]) /\ q_pc'[c] = "idle"
            /\ \A d \in Clients : d # c /\ d # e => q_pc'[d] = q_pc[d]
        BY <2>3, <4>1, <4>2, <4>3
      <4>5. \A d \in Clients : ClientOK(q_pc'[d], op'[d])
        BY <1>c, <2>1, <2>3, <2>5, <4>2, <4>3, <4>4
      <4>6. /\ Moved(m, Roles', e, Clients) /\ m[e] = w /\ Roles'[e] = t
        BY <2>3, <2>4, <2>5, <2>6, <4>2, <4>3, <4>4 DEF Moved
      <4>7. Shift(m, Roles', w, t)
        BY <1>0, <2>4, <2>7, <3>2, <4>2, <4>6, RoleShifts
      <4>8. QueueCover(Roles', Len(queue))
        BY <1>0, <1>c, <3>2, <3>4, <4>7, CoverSignalled
      <4>u. Len(queue') = Len(queue)
        BY <2>1
      <4> QED BY <2>8, <4>4, <4>5, <4>8, <4>u DEF BlockingInv
    <3> QED BY <3>5, <3>6
  <2> QED BY <2>9, <2>10
<1> QED BY <1>1, <1>2, <1>3, <1>4, <1>5, <1>6, <1>7 DEF BlockingNext, Running


\* The elements between lo and hi, each queued or gone, and what one operation
\* that was not blocked does to them.
LEMMA LogPush ==
  ASSUME queue \in Seq(Int), LogInv, NEW o \in AllOps, o.dir = "push",
         queue' = After(o, Label(o)), log' = Logged(o)
  PROVE  LogInv'
<1> DEFINE n == Len(queue)
<1>0. n \in Nat
  BY LenProperties
<1>1. /\ log \in [lo : Int, hi : Int, left : SUBSET Int, inOrder : BOOLEAN]
      /\ log.inOrder /\ log.lo < log.hi /\ Ascending(n, queue) /\ Between(n, queue, log.lo, log.hi)
      /\ Elements(queue) \cap log.left = {} /\ Elements(queue) \cup log.left = Pushed
  BY DEF LogInv, BlockingDelivers
<1>2. log.lo \notin log.left /\ log.hi \notin log.left
  BY <1>1 DEF Pushed
<1>3. CASE o.end = "front"
  <2>1. /\ queue' = <<log.lo>> \o queue
        /\ log' = [lo |-> log.lo - 1, hi |-> log.hi, left |-> log.left, inOrder |-> log.inOrder]
    BY <1>1, <1>3 DEF After, Label, Logged
  <2>2. /\ Len(queue') = n + 1 /\ queue'[1] = log.lo
        /\ \A i \in 1 .. n + 1 : i # 1 => i - 1 \in 1 .. n /\ queue'[i] = queue[i - 1]
        /\ Elements(queue') = {log.lo} \cup Elements(queue)
    <3> DEFINE v == log.lo
    <3>1. v \in Int /\ queue \in Seq(Int) /\ queue' = <<v>> \o queue
      BY <1>1, <2>1
    <3> HIDE DEF v
    <3>2. /\ Len(queue') = n + 1 /\ queue'[1] = v
          /\ \A i \in 1 .. n + 1 : i # 1 => i - 1 \in 1 .. n /\ queue'[i] = queue[i - 1]
          /\ Elements(queue') = {v} \cup Elements(queue)
      BY <3>1, Prepended, Zenon
    <3> QED BY <3>2 DEF v
  <2>3. Ascending(n + 1, queue') /\ Between(n + 1, queue', log.lo - 1, log.hi)
    <3>1. log.lo \in Int /\ log.hi \in Int
      BY <1>1
    <3> HIDE DEF n
    <3> QED BY <1>0, <1>1, <2>2, <3>1, AscendFront
  <2>4. Pushed' = {log.lo} \cup Pushed
    BY <1>1, <2>1 DEF Pushed
  <2>5. /\ log' \in [lo : Int, hi : Int, left : SUBSET Int, inOrder : BOOLEAN]
        /\ log'.lo = log.lo - 1 /\ log'.hi = log.hi
        /\ log'.lo < log'.hi /\ log'.inOrder /\ log'.left = log.left
    BY <1>1, <2>1
  <2> HIDE DEF n
  <2> QED BY <1>1, <1>2, <2>2, <2>3, <2>4, <2>5 DEF LogInv, BlockingDelivers
<1>4. CASE o.end # "front"
  <2>1. /\ queue' = Append(queue, log.hi)
        /\ log' = [lo |-> log.lo, hi |-> log.hi + 1, left |-> log.left, inOrder |-> log.inOrder]
    BY <1>1, <1>4 DEF After, Label, Logged
  <2>2. /\ Len(queue') = n + 1 /\ queue'[n + 1] = log.hi
        /\ \A i \in 1 .. n : queue'[i] = queue[i]
        /\ Elements(queue') = {log.hi} \cup Elements(queue)
    <3> DEFINE v == log.hi
    <3>1. v \in Int /\ queue \in Seq(Int) /\ queue' = Append(queue, v)
      BY <1>1, <2>1
    <3> HIDE DEF v
    <3>2. /\ Len(queue') = n + 1 /\ queue'[n + 1] = v
          /\ \A i \in 1 .. n : queue'[i] = queue[i]
          /\ Elements(queue') = {v} \cup Elements(queue)
      BY <3>1, Appended, Zenon
    <3> QED BY <3>2 DEF v
  <2>3. Ascending(n + 1, queue') /\ Between(n + 1, queue', log.lo, log.hi + 1)
    <3>1. log.lo \in Int /\ log.hi \in Int
      BY <1>1
    <3> HIDE DEF n
    <3> QED BY <1>0, <1>1, <2>2, <3>1, AscendBack
  <2>4. Pushed' = {log.hi} \cup Pushed
    BY <1>1, <2>1 DEF Pushed
  <2>5. /\ log' \in [lo : Int, hi : Int, left : SUBSET Int, inOrder : BOOLEAN]
        /\ log'.lo = log.lo /\ log'.hi = log.hi + 1
        /\ log'.lo < log'.hi /\ log'.inOrder /\ log'.left = log.left
    BY <1>1, <2>1
  <2> HIDE DEF n
  <2> QED BY <1>1, <1>2, <2>2, <2>3, <2>4, <2>5 DEF LogInv, BlockingDelivers
<1> QED BY <1>3, <1>4

\* A part S of the queued elements leaves, those nearest to the end of the
\* operation, and the others, which follow a from the front on, stay.
LEMMA LogPop ==
  ASSUME queue \in Seq(Int), LogInv, NEW S, NEW near \in BOOLEAN, near, NEW a \in Int, NEW m \in Nat,
         Len(queue') = m, \A i \in 1 .. m : i + a \in 1 .. Len(queue) /\ queue'[i] = queue[i + a],
         S = {queue[i] : i \in {j \in 1 .. Len(queue) : j - a \notin 1 .. m}},
         log' = [log EXCEPT !.left = @ \cup S, !.inOrder = @ /\ near]
  PROVE  LogInv'
<1> DEFINE n == Len(queue)
           at == [i \in 1 .. m |-> i + a]
<1>0. n \in Nat /\ \A i \in 1 .. n : queue[i] \in Int
  BY LenProperties, ElementOfSeq
<1>i. /\ log \in [lo : Int, hi : Int, left : SUBSET Int, inOrder : BOOLEAN]
      /\ log.inOrder /\ log.lo < log.hi /\ Ascending(n, queue) /\ Between(n, queue, log.lo, log.hi)
      /\ Elements(queue) \cap log.left = {} /\ Elements(queue) \cup log.left = Pushed
  BY DEF LogInv, BlockingDelivers
<1>1. S \subseteq Int /\ S \subseteq Elements(queue)
  BY <1>0 DEF Elements
<1>2. log' = [lo |-> log.lo, hi |-> log.hi, left |-> log.left \cup S, inOrder |-> TRUE]
  BY <1>i
<1>3. /\ log' \in [lo : Int, hi : Int, left : SUBSET Int, inOrder : BOOLEAN]
      /\ log'.lo < log'.hi /\ log'.inOrder /\ log'.left = log.left \cup S
      /\ log'.lo = log.lo /\ log'.hi = log.hi
  BY <1>i, <1>1, <1>2
<1>4. Pushed' = Pushed
  BY <1>2 DEF Pushed
<1>5. Ascending(m, queue') /\ Between(m, queue', log.lo, log.hi)
  <2>1. \A i \in 1 .. m : at[i] \in 1 .. n /\ queue'[i] = queue[at[i]]
    OBVIOUS
  <2>2. \A i, j \in 1 .. m : i < j => at[i] < at[j]
    OBVIOUS
  <2>3. log.lo \in Int /\ log.hi \in Int
    BY <1>i
  <2>4. n \in Nat /\ Ascending(n, queue) /\ Between(n, queue, log.lo, log.hi)
    BY <1>0, <1>i
  <2> HIDE DEF at, n
  <2> QED BY <2>1, <2>2, <2>3, <2>4, AscendPart, Zenon
<1>6. Elements(queue') \cup S = Elements(queue)
  <2>1. \A i \in 1 .. n : i - a \in 1 .. m => queue[i] = queue'[i - a]
    <3> TAKE i \in 1 .. n
    <3>1. i - a \in 1 .. m => (i - a) + a = i
      BY <1>0
    <3> QED BY <3>1
  <2>2. \A i \in 1 .. n : queue[i] \in Elements(queue') \cup S
    BY <2>1 DEF Elements
  <2>3. \A i \in 1 .. m : queue'[i] \in Elements(queue)
    BY DEF Elements
  <2> QED BY <1>1, <2>2, <2>3 DEF Elements
<1>7. Elements(queue') \cap S = {}
  <2> SUFFICES ASSUME NEW i \in 1 .. m, NEW j \in 1 .. n, j - a \notin 1 .. m, queue'[i] = queue[j]
               PROVE  FALSE
    BY DEF Elements
  <2>1. i + a \in 1 .. n /\ queue[i + a] = queue[j] /\ i + a # j
    BY <1>0
  <2>3. i + a < j \/ j < i + a
    BY <2>1
  <2>4. queue[i + a] \in Int /\ queue[j] \in Int
    BY <1>0, <2>1
  <2> HIDE DEF n
  <2>5. queue[i + a] < queue[j] \/ queue[j] < queue[i + a]
    BY <1>i, <2>1, <2>3 DEF Ascending
  <2> QED BY <2>1, <2>4, <2>5
<1> HIDE DEF n
<1> QED BY <1>i, <1>3, <1>4, <1>5, <1>6, <1>7 DEF LogInv, BlockingDelivers

LEMMA LogKeeps ==
  ASSUME BlockingQueueAssumption, BlockingInv, LogInv, BlockingNext
  PROVE  LogInv'
<1> DEFINE n == Len(queue)
<1>0. /\ queue \in Seq(Int) /\ n \in Nat /\ \A i \in 1 .. n : queue[i] \in Int
      /\ \A i, j \in 1 .. n : i < j => queue[i] < queue[j]
  BY LenProperties, ElementOfSeq DEF BlockingInv, BlockingTypeOK, LogInv, BlockingDelivers, Ascending
<1>1. ASSUME NEW c \in Clients, Perform(c) PROVE LogInv'
  <2> DEFINE o == op[c]
  <2>1. o \in AllOps /\ ~Blocked(o) /\ queue' = After(o, Label(o)) /\ log' = Logged(o)
    BY <1>1 DEF Perform, BlockingInv, ClientOK
  <2> HIDE DEF o
  <2>2. CASE o.dir = "push"
    BY <1>0, <2>1, <2>2, LogPush
  <2>3. CASE o.dir # "push"
    <3> DEFINE near == Nearest(o, Popped(o))
    <3>1. queue # <<>> /\ n > 0
      BY <1>0, <2>1, <2>3, EmptySeq DEF Blocked
    <3>2. log' = [log EXCEPT !.left = @ \cup Popped(o), !.inOrder = @ /\ near]
      BY <2>1, <2>3 DEF Logged
    <3>b. near \in BOOLEAN
      BY DEF Nearest
    <3>3. CASE o.end = "front"
      <4>1. queue' = Tail(queue) /\ Popped(o) = {queue[1]}
        BY <1>0, <2>1, <2>3, <3>1, <3>3, HeadTailProperties DEF After, Popped
      <4>2. Len(queue') = n - 1 /\ \A i \in 1 .. n - 1 : i + 1 \in 1 .. n /\ queue'[i] = queue[i + 1]
        BY <1>0, <3>1, <4>1, HeadTailProperties
      <4>3. near
        BY <1>0, <3>3, <4>1 DEF Nearest, Elements
      <4>4. \A j \in 1 .. n : j - 1 \notin 1 .. n - 1 <=> j = 1
        BY <1>0
      <4>5. Popped(o) = {queue[i] : i \in {j \in 1 .. n : j - 1 \notin 1 .. n - 1}}
        BY <1>0, <3>1, <4>1, <4>4
      <4>6. n - 1 \in Nat /\ 1 \in Int
        BY <1>0, <3>1
      <4> HIDE DEF near
      <4> QED BY <1>0, <3>2, <3>b, <4>2, <4>3, <4>5, <4>6, LogPop
    <3>4. CASE o.end = "back"
      <4>1. queue' = SubSeq(queue, 1, n - 1) /\ Popped(o) = {queue[n]}
        BY <2>1, <2>3, <3>4 DEF After, Popped
      <4>2. Len(queue') = n - 1 /\ \A i \in 1 .. n - 1 : i + 0 \in 1 .. n /\ queue'[i] = queue[i + 0]
        <5>1. n - 1 \in Nat /\ \A i \in 1 .. n - 1 : queue[i] \in Int
          BY <1>0, <3>1
        <5> DEFINE m == n - 1
        <5>2. /\ Len(SubSeq(queue, 1, m)) = IF 1 <= m THEN m - 1 + 1 ELSE 0
              /\ \A i \in 1 .. m - 1 + 1 : SubSeq(queue, 1, m)[i] = queue[1 + i - 1]
          <6>1. m \in Int /\ 1 \in Int /\ \A i \in 1 .. m : queue[i] \in Int
            BY <5>1
          <6> HIDE DEF m
          <6> QED BY <6>1, SubSeqProperties
        <5>3. m - 1 + 1 = m /\ (IF 1 <= m THEN m - 1 + 1 ELSE 0) = m /\ m \in Nat /\ n = m + 1
          <6>1. n \in Nat /\ m = n - 1 /\ m \in Nat
            BY <1>0, <5>1
          <6> HIDE DEF m, n
          <6> QED BY <6>1
        <5>4. queue' = SubSeq(queue, 1, m)
          BY <4>1
        <5> HIDE DEF m, n
        <5>5. Len(queue') = m /\ \A i \in 1 .. m : queue'[i] = queue[1 + i - 1]
          BY <5>2, <5>3, <5>4
        <5>6. \A i \in 1 .. m : 1 + i - 1 = i /\ i + 0 = i /\ i \in 1 .. n
          BY <5>3
        <5>7. Len(queue') = m /\ \A i \in 1 .. m : i + 0 \in 1 .. n /\ queue'[i] = queue[i + 0]
          BY <5>5, <5>6
        <5> QED BY <5>7 DEF m
      <4>3. near
        BY <1>0, <3>4, <4>1 DEF Nearest, Elements
      <4>4. \A j \in 1 .. n : j - 0 \notin 1 .. n - 1 <=> j = n
        BY <1>0
      <4>5. Popped(o) = {queue[i] : i \in {j \in 1 .. n : j - 0 \notin 1 .. n - 1}}
        BY <1>0, <3>1, <4>1, <4>4
      <4>6. n - 1 \in Nat /\ 0 \in Int
        BY <1>0, <3>1
      <4> HIDE DEF near
      <4> QED BY <1>0, <3>2, <3>b, <4>2, <4>3, <4>5, <4>6, LogPop
    <3>5. CASE o.end \notin {"front", "back"}
      <4>1. queue' = <<>> /\ Popped(o) = Elements(queue)
        BY <2>1, <2>3, <3>5 DEF After, Popped
      <4>2. Len(queue') = 0 /\ \A i \in 1 .. 0 : i + 0 \in 1 .. n /\ queue'[i] = queue[i + 0]
        BY <4>1, EmptySeq
      <4>3. near
        BY <4>1 DEF Nearest
      <4>5. Popped(o) = {queue[i] : i \in {j \in 1 .. n : j - 0 \notin 1 .. 0}}
        BY <1>0, <4>1 DEF Elements
      <4>6. 0 \in Nat /\ 0 \in Int
        OBVIOUS
      <4> DEFINE m == 0
      <4>7. Popped(o) = {queue[i] : i \in {j \in 1 .. n : j - 0 \notin 1 .. m}}
        BY <4>5
      <4>8. /\ Len(queue') = m /\ m \in Nat /\ 0 \in Int
            /\ \A i \in 1 .. m : i + 0 \in 1 .. n /\ queue'[i] = queue[i + 0]
        BY <4>2
      <4> HIDE DEF near, m
      <4> QED BY <1>0, <3>2, <3>b, <4>3, <4>7, <4>8, LogPop
    <3> QED BY <3>3, <3>4, <3>5
  <2> QED BY <2>2, <2>3
<1>2. ASSUME Clear PROVE LogInv'
  <2> DEFINE S == Elements(queue)
  <2>1. queue' = <<>> /\ log' = [log EXCEPT !.left = @ \cup S]
    BY <1>2 DEF Clear
  <2>2. Len(queue') = 0 /\ \A i \in 1 .. 0 : i + 0 \in 1 .. n /\ queue'[i] = queue[i + 0]
    BY <2>1, EmptySeq
  <2>3. S = {queue[i] : i \in {j \in 1 .. n : j - 0 \notin 1 .. 0}}
    BY <1>0 DEF Elements
  <2>4. 0 \in Nat /\ 0 \in Int /\ TRUE \in BOOLEAN
    OBVIOUS
  <2>5. log' = [log EXCEPT !.left = @ \cup S, !.inOrder = @ /\ TRUE]
    BY <2>1 DEF LogInv
  <2> HIDE DEF S
  <2> QED BY <1>0, <2>2, <2>3, <2>4, <2>5, LogPop
<1>3. ASSUME UNCHANGED <<queue, log>> PROVE LogInv'
  BY <1>3 DEF LogInv, BlockingDelivers, Elements, Pushed, Ascending, Between
<1> QED BY <1>1, <1>2, <1>3
        DEF BlockingNext, Running, Call, Block, GiveUp, Signal, Timeout, SpuriousWakeup

\* One signal per element and after the unlock loses no waiter of BlockingQueue:
\* while a consumer or a producer sleeps, every element or free place has a
\* client that will use it or a signal on its way, whatever times out, gives up
\* or clears the queue in between; no blocking operation returns false, and
\* every element leaves the queue once and in the order of a deque.
THEOREM BlockingQueueSafe ==
  ASSUME BlockingQueueAssumption
  PROVE  BlockingSpec =>
           [](/\ ConsumersCovered /\ ProducersCovered /\ BlockingDelivers
              /\ BlockingNeverFails /\ BlockingTypeOK)
<1>l. BlockingInit => LogInv
  <2> SUFFICES ASSUME BlockingInit PROVE LogInv
    OBVIOUS
  <2>1. queue = <<>> /\ log = [lo |-> 0, hi |-> 1, left |-> {}, inOrder |-> TRUE]
    BY DEF BlockingInit, EmptyLog
  <2>2. Elements(queue) = {} /\ Pushed = {} /\ Len(queue) = 0
    BY <2>1 DEF Elements, Pushed
  <2> QED BY <2>1, <2>2 DEF LogInv, BlockingDelivers, Ascending, Between
<1>1. BlockingInit => BlockingInv
  <2> SUFFICES ASSUME BlockingInit PROVE BlockingInv
    OBVIOUS
  <2>1. BlockingTypeOK /\ BlockingNeverFails
    BY EmptySeq DEF BlockingInit, BlockingTypeOK, BlockingNeverFails, BlockingQueueAssumption
  <2>2. \A c \in Clients : q_pc[c] = "idle" /\ op[c] = NoOp
    BY DEF BlockingInit
  <2>3. \A c \in Clients : ClientOK(q_pc[c], op[c])
    BY <2>2 DEF ClientOK, NoOp
  <2>4. \A c \in Clients : Roles[c] = "out"
    BY <2>2 DEF Roles, RoleOf
  <2>5. In(Roles, Clients, {"wpop"}) = {} /\ In(Roles, Clients, {"wpush"}) = {}
    BY <2>4 DEF In
  <2>6. Count(Roles, "wpop") = 0 /\ Count(Roles, "wpush") = 0
    BY <2>5, FS_EmptySet DEF Count
  <2>7. QueueCover(Roles, Len(queue))
    BY <2>6 DEF QueueCover
  <2> QED BY <2>1, <2>3, <2>7 DEF BlockingInv
<1>2. BlockingInv /\ LogInv /\ [BlockingNext]_blockingVars => (BlockingInv /\ LogInv)'
  <2>1. ASSUME BlockingInv, LogInv, UNCHANGED blockingVars PROVE (BlockingInv /\ LogInv)'
    <3>1. queue' = queue /\ q_pc' = q_pc /\ op' = op /\ failed' = failed /\ log' = log
      BY <2>1 DEF blockingVars
    <3>2. Roles' = Roles
      BY <3>1 DEF Roles
    <3>3. LogInv'
      BY <2>1, <3>1 DEF LogInv, BlockingDelivers, Elements, Pushed, Ascending, Between
    <3> QED BY <2>1, <3>1, <3>2, <3>3 DEF BlockingInv, BlockingTypeOK, BlockingNeverFails
  <2> QED BY <2>1, BlockingKeeps, LogKeeps
<1>4. LogInv => BlockingDelivers
  BY DEF LogInv
<1>3. ASSUME BlockingInv PROVE ConsumersCovered /\ ProducersCovered /\ BlockingNeverFails /\ BlockingTypeOK
  <2>0. /\ IsFiniteSet(Clients) /\ Max \in Nat
        /\ \A c \in Clients : ClientOK(q_pc[c], op[c])
        /\ QueueCover(Roles, Len(queue))
    BY <1>3 DEF BlockingInv, BlockingQueueAssumption
  <2>1. \A c \in Clients : q_pc[c] # "idle" => op[c].dir \in {"push", "pop"}
    BY <2>0, OpsShape DEF ClientOK
  <2>2. \A c \in Clients : Roles[c] = RoleOf(q_pc[c], op[c]) /\ q_pc[c] \in {"idle", "check", "wait", "twait", "final", "signal"}
    BY <1>3, RolesType DEF BlockingInv, BlockingTypeOK
  <2>3. /\ Waiting(q_pc, "pop") = In(Roles, Clients, {"wpop"})
        /\ Waiting(q_pc, "push") = In(Roles, Clients, {"wpush"})
    BY <2>1, <2>2 DEF Waiting, In, RoleOf
  <2>4. /\ Testing("pop") = In(Roles, Clients, {"tpop"})
        /\ Testing("push") = In(Roles, Clients, {"tpush"})
    BY <2>1, <2>2 DEF Testing, In, RoleOf
  <2>5. Signalling("push") = In(Roles, Clients, {"spush"})
    BY <2>1, <2>2 DEF Signalling, In, RoleOf
  <2>6. CASE \E c \in Clients : Roles[c] = "sall"
    <3>1. \E c \in Signalling("pop") : op[c].end = "all"
      BY <2>1, <2>2, <2>6 DEF RoleOf, Signalling
    <3>2. ConsumersCovered
      <4>1. Waiting(q_pc, "pop") # {} => Count(Roles, "wpop") # 0
        <5>1. IsFiniteSet(In(Roles, Clients, {"wpop"}))
          BY <2>0, FS_Subset DEF In
        <5> QED BY <2>3, <5>1, FS_EmptySet DEF Count
      <4> QED BY <2>0, <2>4, <2>5, <4>1 DEF QueueCover, ConsumersCovered, Count
    <3> QED BY <1>3, <3>1, <3>2 DEF ProducersCovered, BlockingInv
  <2>7. CASE \A c \in Clients : Roles[c] # "sall"
    <3>1. Signalling("pop") = In(Roles, Clients, {"spop"})
      BY <2>1, <2>2, <2>7 DEF Signalling, In, RoleOf
    <3>2. In(Roles, Clients, {"sall"}) = {}
      BY <2>7 DEF In
    <3>3. Count(Roles, "sall") = 0
      BY <3>2, FS_EmptySet DEF Count
    <3>4. IsFiniteSet(In(Roles, Clients, {"wpop"})) /\ IsFiniteSet(In(Roles, Clients, {"wpush"}))
      BY <2>0, FS_Subset DEF In
    <3>5. /\ Waiting(q_pc, "pop") # {} => Count(Roles, "wpop") # 0
          /\ Waiting(q_pc, "push") # {} => Count(Roles, "wpush") # 0
      BY <2>3, <3>4, FS_EmptySet DEF Count
    <3>6. ConsumersCovered
      BY <2>0, <2>4, <2>5, <3>5 DEF QueueCover, ConsumersCovered, Count
    <3>7. ProducersCovered
      BY <2>0, <2>4, <3>1, <3>3, <3>5 DEF QueueCover, ProducersCovered, Count
    <3> QED BY <1>3, <3>6, <3>7 DEF BlockingInv
  <2> QED BY <2>6, <2>7
<1> QED BY <1>l, <1>1, <1>2, <1>3, <1>4, PTL DEF BlockingSpec

=============================================================================
