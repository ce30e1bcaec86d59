# mycc: a verification project

`util/` of mycc is a library of C++11 building blocks: thread pools, blocking
and lock-free queues, locks, caches, memory pools, containers, files, logging.
There is no main program and there are no tests, so what the code must do is
read from the code itself, from the comments in its headers and from how its
parts use each other. This project models the library's concurrent core, its
caches, allocators and reference counts, and the containers, timers, files,
codings and buffers around them in TLA+, checks them with TLC on small
instances, and proves the invariants that matter most with TLAPS for all values
of the constants.

`PROJECT.json` is the machine-readable index: components, runs, properties with
the faults that break them, hazards, theorems, and the source lines behind every
definition.

Contents

1. The system
2. Modules and how they correspond to the code
3. What the runs check
4. Fairness
5. What is proved
6. Disagreements between code and comments
7. Modelling decisions
8. What is not modelled, and the plan

## 1. The system

Nearly every file of `util/` is a component of its own; the components meet
where one uses another's classes.

| Component | State it keeps | Operations | What makes it correct |
| --- | --- | --- | --- |
| `ThreadPoolImpl` (threadpool_util) | `queue_`, `queue_len_`, `bgthreads_`, the thread limit, two exit flags | SetBackgroundThreads, Submit, UnSchedule, JoinAllThreads, WaitForJobsAndJoinAllThreads, BGThread | no wakeup lost, threads leave in reverse order, every job has one fate, joins return |
| `PosixFixedThreadPool` | queue, thread list, `shut_down_`, `paused_` | Schedule, Pause, Resume, destructor, BGThread | no sleeper beside work, no thread outlives the pool |
| `BGThreadPool` | deque, heap of timers, `latest_`, `running_task_id_`, counters | Start, Stop, AddTask, AddPriorityTask, DelayTask, CancelTask, ProfilingLog, ThreadProc | timers watched, not early, cancelled once; Stop waits for what it promises |
| `TaskThreadPool`, `TaskAsyncThreadPool` | queue, number of idle threads, `running_`, `complete_` | Run, Wait, destructor, loop | Wait covers earlier tasks and returns |
| `SimpleThreadPool` | one event per thread | WaitForReady, SetReadyOnDestroy | ready means every thread is |
| Blocking queues (blocking_queue) | a deque, its bound, one or two condition variables | push, pop, try and timed forms, PopAll, SendEof, SignalForKill | nobody sleeps beside what it waits for, FIFO, ends respected |
| Rings (`QueueRing`, `BoundedQueue`, `TCLoopQueue`) | slots and positions | push and pop at either end | behave as bounded queues wherever they wrap |
| Lock-free queues (lock_free_util) | atomic positions, slots, sequence numbers, links, reference counts in nodes | push, pop, steal, produce, consume, add, try_get | nothing lost, doubled, reordered; slots exclusive |
| Reader protection (lock_free_util) | a sequence number, hazard pointers with lists of the retired, a phase counter per reader | load and store, haz_set_ptr, haz_defer_free, rcu_read_lock, synchronize_rcu | no torn value, nothing freed in use, a grace period covers every earlier reader |
| `DoublyBufferedData` | two instances, an index, one mutex per reading thread | Read, Modify, registration | no instance changes under a reader, both instances agree |
| Locks (locks_util) | `RWSpinLock`'s word, System V semaphores | lock, share, upgrade, downgrade | exclusion through every conversion |
| Semaphores, events, latches | a count or flag with a condition variable or a kernel semaphore | wait, timed wait, signal, reset | exact counts, nobody stranded |
| Threads (thread_util) | run and stop latches, `is_running_`, job queues, delayed jobs | start, cancel, join, detach, Schedule, DelaySchedule, stop, addJob | a thread runs once and is joined once, no job or caller is left asleep, destructors return |
| Timers (timer) | lists by interval, a heap of deadlines | Start, Stop, Update, add, cancel, cancelAll | every timer served once, whatever callbacks start and stop |
| Event loop (ae_util) | masks per descriptor, `maxfd`, a list of timers, epoll's set | aeCreate/DeleteFileEvent, aeCreate/DeleteTimeEvent, aeResizeSetSize, aeProcessEvents | epoll watches what is registered, a pass serves what is due |
| Coroutines and user threads (coroutine_util) | saved stacks, a table of coroutines, a run queue | new, resume, yield, ready, schedule, stop | a coroutine resumes with the stack it yielded with, a thread is queued exactly while it is ready |
| Caches (cache) | shards with a table, two lists, a usage and reference counts | Insert, Lookup, Release, Erase, Prune, destructor | an entry lives as long as the table or a handle refers to it, table, lists and usage agree, the oldest unused entry goes first |
| Block allocators and arenas (memory_pool, arena) | trees, bitmaps, chains of free blocks, blocks with an offset | alloc, free, append, rebuild, reset | blocks in use are disjoint, aligned and inside the region, free blocks are found again, shared memory survives a crash |
| Item and object pools (memory_pool, object_pool) | free lists, pages, cached pieces | New, Delete, Allocate, Free, Clear | no item handed out twice, none lost |
| Reference counts (refcount, smart_ptr, object_pool, memory_pool) | a count, autorelease pools, lists of the dying | Ref, Unref, assign, autorelease, clear, push, fire | destroyed with the last reference, once, and not before |
| Tables (map_util, cuckoo_map) | markers and counts, epochs and discard flags, buckets | insert, erase, find, resize, clear | a probe ends and finds what is there; moves lose and double nothing |
| Trees (skiplist, splay_tree, radix_tree) | links by level, rotated nodes, nodes by height | insert, remove, find, readers beside a writer | search order, levels nested, nothing lost while it grows and shrinks |
| Lists and small containers (list_util, small_container, cache.h) | links both ways, fixed and overflow parts, recency lists | add, delete, splice, push, pop, get, put | links agree with the order of the contents |
| Codings and digests (coding_util, base64, crc_util, sha_util, block, bitmap, bloom) | bytes written so far, restart points, words of bits | put, get, extend, add, seek, set, test | inverse pairs, pieces make the whole, damage is noticed, no bit lost |
| Files and logging (file_util, io_util, logging_util) | offsets, mappings, buffers, the current log file, the logger's queue | read, write, append, sync, close, seek, roll, log, flush | positions right after partial transfers, whole values after a crash, every message once |
| Buffers and strings (buffer, sds) | read and write positions, headers, lists of blocks | append, consume, expand, trim, split | what is read is what was written, within the memory there is |
| Process-wide state (exit_util, signal_util, registry_util, threadlocal_util, scoped_util) | stacks of callbacks, previous handlers, names, objects per thread | register, process, hook, unhook, get, set | once and in reverse order, put back, found under every name, deleted once |
| Child processes and sockets (process_util, socket_util) | pid, pipes and two mutexes; a socket with its timeouts; a pipe and a flag | Start, Wait, Kill, Communicate; Connect, SendRaw, RecvRaw; Break, Clear | only the child waited for is forgotten, whole messages, no stray close, a break is seen |
| Env, shared memory, time, formatting | little of their own | system calls, pure functions | not modelled (section 8) |

Interactions. The pools use `CMutex`/`CondVar` of locks_util and `std::thread`;
the queues use the same condition variables; `LRUCache` and its shards,
`Logger`, `TimerQueue` and `Env` use the mutex and the atomic operations. None of
the modelled components calls back into another modelled one while it holds its
lock, so each can be checked against arbitrary clients of its own; what composes
inside one class (pool threads with clients, timers with cancellation, a
destructor with running threads, an abstract queue with its ring) is composed in
the class's module.

Hard behaviour. Notifications that are sparing (one per task, only for the first
item of an empty queue, decided from a stale count) or late (after the unlock);
flags changed or tested without the mutex that guards the wait; threads that
leave in a prescribed order while others sleep; timed waits that race with
signals; positions that are claimed before a slot is written; counters that wrap
or go negative; a process that dies while it holds a semaphore; destructors that
race with the last user; callbacks that change the list the caller walks; values
moved while others are looked up; transfers cut short, and a crash between a
write and its flush. `PROJECT.json` lists these hazards at their lines with
the properties that would catch them going wrong.

## 2. Modules and how they correspond to the code

A class is a module. Its members are the variables, with the code's names where
TLA+ allows it and a comment otherwise; its methods are actions. A section that
runs under a mutex is one action, because no other thread can see the state in
between. Wherever the code unlocks, waits, or accesses an atomic without a lock,
the action ends and a program counter (`pc`) records where the thread is. A
thread blocked on a condition variable is in `"wait"`; a notification moves it
to the step that reacquires the mutex and goes on as the code does: through the
loop condition again, or, where the wait stands in an `if` or alone, straight ahead.
Any waiter may wake up spuriously. Clients call
any operation in any order, with inputs from small sets. Variables marked as
history (`accepted`, `started`, `released`, ...) record the past for the
properties and are read by no guard.

| Module | Models |
| --- | --- |
| `ThreadPoolImpl`, `MCThreadPoolImpl` | `ThreadPoolImpl::Impl` |
| `PosixFixedThreadPool`, `BGThreadPool`, `TaskThreadPool`, `TaskAsyncThreadPool`, `SimpleThreadPool` | the other pools of threadpool_util |
| `BlockingQueues` | `BlockingQueue` with blocking, trying and timed operations at both ends; `SimpleCircularQueue` and, unbounded, `MPMCBlockingQueue`; `SimpleBlockingQueue`; `BlockChannel`; `ConcurrentBlockingQueue`; and their theorems |
| `QueueRing` | `QueueRing`: buckets drawn with an atomic counter |
| `BoundedQueue`, `TCLoopQueue` | the two ring containers; both refine `BoundedDeque`, the abstract bounded double-ended queue |
| `DoublyBufferedData` | `DoublyBufferedData` and its per-thread wrappers |
| `WorkStealingQueue`, `MPMCBoundedQueue` | the classes of these names |
| `SPSCRing` | `ProducerConsumerFreeQueue` and `RingQueue` (indices that wrap at the size), `SPSCBoundedQueue` (masked counters) |
| `LockFree` | `LockFreeList`; `SPSCQueue` and `MPSCQueue`; `SeqLock` and `SeqFreeLock`; `HazardPtrEasy` with a client that follows its protocol; `urcu_easy`: a step is one access to shared memory |
| `RWSpinLock` | `RWSpinLock` |
| `SyncObjects` | `LightSemaphore`, which refines `CountingSemaphore`; `CondVarSem` with `CondVarSemGrant`; `TCSemMutex`; `AutoResetFreeEvent`; `AutoResetEvent` and `ManualResetEvent`; `CountDownLatch` and `BlockingCounter`; `Notification`; `FutureSem`; and their theorems |
| `LRUCache` | `LRUCache`, `HandleTable` and `ShardedLRUCache` of cache.cpp. A shard is a record of the table's chains, the lists `lru_` and `in_use_`, `usage_` and the entries; an entry has the address at which it was allocated, so a stale handle would be seen |
| `BlockAllocators` | `BuddyPool`; `PageMemPool`; `TCMemChunk`, `TCMemChunkAllocator` and `TCMemMultiChunkAllocator`. The last two live in shared memory: every write of alloc, free, allocate and deallocate is a step, and a crash may follow any of them |
| `Arenas` | `ArenaEasy`, `Arena`, `easy_pool`: addresses are a block and an offset, and the remainder of a block's own address is a choice of malloc |
| `ObjectPools` | `MemoryPoolEasy`, `SingleMemoryPool`, `MemoryPieceStore`, `SimpleObjectPool`, `ReusableObjectPool`; `TCKnvObjPool`, and `TCKnvObjPoolR` with every atomic access a step |
| `References` | `RefCountedBase` under `ScopedRefCountedPtr` (and `TBHandle`), `RefCounted`, `CCRef` with the autorelease pools and their manager, `Crematory` |
| `Tables` | `FlatRep` under `FlatMap` and `FlatSet`; `LimitedMap`; `CuckooCache`; `PresizedCuckooMap` |
| `Trees` | `SkipList` with one writer and readers that take a step at a time; `SplayTree`; the radix tree |
| `Containers` | `list_head`, `hlist`, `adlist`; `IndexedQueue`, `SmallQueue`, range lists, `autovector`, `SmallHashMap`, `BinaryHeap`, `TopN`; `LruMap`, `MRUCacheBase`, `LRUCacheEasy` |
| `Reactors` | the event loop of ae_util with its epoll back end; `SequenceTimer`, `TimerQueue`; `SimpleCoroutine` and the user threads of coroutine_util |
| `Runtime` | `PosixThread`, `BGThread`, `StdThreadWorker`; `ThreadLocal`, `ThreadLocalD`; `AtExitManager`; the signal handlers; the registry; the scoped pointers |
| `Codings` | fixed and variable length integers, prefixed and delimited strings; CRC; `BlockBuilder`, `Block` and its iterator; the buffering of the SHA digests; base64; `BitSet`, `Bitmap`, bit arrays, `StaticBitMap`, `DynamicBloom` |
| `Files` | the complete-transfer loops and `FileOperation`; `PosixMmapFile`; `PosixWritableFile`; `InputBuffer`; `safe_write_file`; `RollFile`; `BDAsyncLogger`; `SubProcess` with several threads and a child; `PinkCli` with its peer; `SocketBreaker` |
| `Buffers` | `FixedBuffer`, `DataBuffer`, `TCBuffer`, `TCBufferPool`; sds strings, sdssplitlen, sdssplitargs |
| `PoolSuite`, `QueueSuite`, `LockSuite`, `SyncSuite`, `StorageSuite`, `LockFreeSuite`, `StructureSuite` | no code: the instances that are model checked together. `SyncSuite` extends `LockSuite` with what runs on threads of its own, and `StructureSuite` extends `LockFreeSuite` with the structures nobody waits for: a step of the larger suite is a step of the smaller one or leaves its variables alone |
| `ThreadPoolImplProofs`, `BGThreadPoolProofs`, `PoolProofs`, `QueueProofs`, `SyncProofs`, `LockFreeProofs` | no code: theorems (`SyncObjects` and `BlockingQueues` hold their own) |

`LockFree` and `Tables` to `Buffers` hold several classes each, all on the same two variables:
`rep`, a record with the members of the object, and `model`, what its client
knows from the calls it made: the map, the sequence, the bytes appended, the
timers started. A class has an `XInit`, an `XNext` and an action per method;
methods of a sequential class are single steps, while callbacks, other threads,
crashes and failing system calls are steps of their own. The properties compare
`rep` with `model`. Bytes, keys and words are small: a byte has 3 bits, a
`uint32_t` two or three bytes, a page 2 bytes; what depends on a width is written
for that width, so carries, continuation bits and the last partial group occur.

A suite holds the instances of several components. They share no state, so
nothing is learnt from interleaving them: Init picks one instance (`focus`), only
that instance steps, and TLC explores the sum of the state spaces rather than
their product. The suite gathers the components' properties by the promise they
make (for example `SleepersCovered`: in six queues nobody sleeps beside what it
waits for); each conjunct is a definition with its own comment in the component's
module.

Helpers that a property depends on are operators of their own (what is notified,
which slot, which comparison). The operator before such a helper that is marked
`fault` is the same helper with a plausible mistake; with it in place TLC finds
the property violated, which shows that the property is about the code.

## 3. What the runs check

| Run | Instance | States | Shows |
| --- | --- | --- | --- |
| `pools` | ThreadPoolImpl: 3 threads, 2 jobs with different tags, one with an unschedule function, both joins; fixed pool: 2 threads, 3 items; BGThreadPool three times: 2 threads and 3 tasks, 1 thread with 2 delayed tasks and both forms of CancelTask, 2 threads with 2 timers of different delays; task pools: 2 threads, 2-3 tasks, 1-2 clients waiting; SimpleThreadPool: 3 threads | 508,302 | bgthreads_ has no hole; whoever is needed is awake, so that sparing and late signals leave no work to sleeping threads; every job and task has one fate; JoinAllThreads never throws; calls that wait cover the tasks they promise |
| `pools_live` | the same, of BGThreadPool one thread with a timer | 52,716 | excessive threads leave, JoinAllThreads, destructors, Stop, Wait and WaitForReady return, WaitForJobsAndJoinAllThreads returns or throws; accepted jobs and tasks run |
| `queues` | 2-5 clients, capacity 1-3, 2-3 values or pushes, rings of 2-3 slots; DoublyBufferedData: 2 readers, 2 modifiers, 3 changes | 83,031 | sleepers covered and released, each element once and in order, ends; the rings implement `BoundedDeque`, but for pop_bottom of an item that wrapped; readers undisturbed, instances agree, Modify returns |
| `sync` | RWSpinLock: 4 threads; the others: 3 threads or processes, up to 4 signals or calls; PosixThread with its owner; BGThread: 2 clients, 3 jobs, room for 1; 3 jobs of a worker; 3 operations on a TimerQueue; 3 user threads; 2 loggers with 3 messages and files of 1 | 84,359 | exclusion, exact counts, complete handovers, released waiters, and exactly which calls break them; LightSemaphore implements `CountingSemaphore`; jobs, timers, threads and messages are served once, and served at all |
| `storage` | LRUCache: 1 shard with 3 keys, charges 1-2, capacities 0 and 3, and 2 shards; buddy tree of 8 units; 5 pages, 2 of them for the bitmap; chunks of 2 and 3 bytes in a region of 15 bytes appended to 26; arenas of 3-4 blocks of 8-10 bytes with alignments 1-4; pools of 3 pages of 2 items; one user of a TCKnvObjPool; 3 smart pointers to 3 objects, 3 threads at a RefCounted and at a Crematory for 5 ticks, 2 autorelease pools | 775,343 | memory in use is disjoint, aligned and found again; each of up to 2 deaths in the middle of a call loses at most one page or block; counts are exact; the cache's parts agree and it evicts the oldest |
| `structures` | work stealing: owner and 2 thieves, 4 items through 2 slots; MPMC: 2 producers, 2 consumers, 2 nodes; rings of 3 and 4 slots with indices that wrap at 3, 4 and 8, 12 items; 3 threads at 2 nodes of a free list, at a linked queue of 3 items, at sequence locks, hazard pointers and RCU with nesting; tables of 4 slots with 4-5 keys; trees of 3-4 keys, radix indexes on both sides of every change of height; lists of 3 nodes; 2 descriptors, 3 timers, 2 coroutines; streams of 2 items, blocks of 3 entries, BitSets of 1 to 7 bits; files of 4-8 bytes with pages of 2; 2 threads sharing a SubProcess that is started twice; messages of 2 bytes; buffers of 5-14 bytes | 1,663,521 | lookups, orders, callbacks, codings, files and buffers are exact against what the client believes; a crash leaves a whole file; items are handed out once and refusals justified; readers without locks are protected |
| `waitforjobs`, `joinall_discard`, `bg_cancel`, `async_destroy`, `knv_shared`, `flat_clear` | 2-3 threads, 1-2 jobs; 2 threads, 2 objects; a table of 4 slots | | the six disagreements of section 6 |

Why the bounds are enough to be interesting. Two sleeping threads are needed for
a notification to pick the wrong one, three for it to pick between a right and a
wrong one while a third runs; two producers and two consumers are needed for one
to be overtaken; every ring is passed through at least once more than its size,
in both directions where it has two, and the masked counters wrap past their
limit. A timer instance has two deadlines in both orders with a task in between.
The cache is entered with more than it can hold, two keys share a chain until the
table grows, and an entry can be replaced, erased or evicted while a handle
refers to it; the buddy tree has three levels, so that a merge can go on upwards;
the sizes asked of an arena fit the current block, need a new one and need one of
their own; the appended region gives the multi chunk allocator a second chain.
The tables have more keys than a bucket has slots and keys with the same first
slot, so that probes run over erased entries and a path moves several keys; a
callback may start, stop or delete each of the other timers while they are served;
a mapped file has three mappings; a block has more entries than a restart interval;
strings and buffers grow past each header size and each block.
What happens with more threads is the subject of the theorems (section 5). Named bounds
(`MaxThreads`, `MaxDelayed`, `MaxTime`, `MaxItems`, `MaxSets`, `MaxCalls`,
`MaxSignals`, `MaxChanges`, `MaxPush`, `EveryPush`, `MaxHandles`, `MaxBlocks`, `MaxPages`, ...) only stop
clients from calling again, `MaxDeaths` stops processes from dying; they never cut a call short.

Where the code breaks a promise in one case, the model has the case and the property
names it as its exception, so that everything around the case is still checked:
a history variable (`misled`, `wiped`, `expired`, `asserted`, `freedMeta`, `Blind`,
`unsynced`, ...) is set when it happens. The cases are listed in section 6.

The promises about threads. `JobsAccounted` and `TasksAccounted`: a job is queued,
taken or unscheduled, and stays queued through JoinAllThreads. `JoinAllNeverThrows` is
about JoinAllThreads only. `DeliveredInOrder`: what comes out of a queue went in, once
and in the queue's order; elements of BlockingQueue are numbered, below the others when
pushed in front, so that a pop at either end is known to take the right one.
`HandoversSafe`: nobody is inside a destroyed Notification, a get of FutureSem has the
value, a writer of TCSemMutex is alone. `WorkDoneOnce`: jobs of a worker run in order and
wait() has them all behind it, a flush of the logger has its messages written.

The storage properties, by promise. `MemoryExclusive`: nothing is handed out
that someone has, it lies where it should, BuddyPool refuses only what no free run
of its size can hold, and Arena frees what it allocated.
`CrashSafe`: what the next process finds in shared memory still has disjoint free
and used blocks, and the pages or blocks that nobody has and nobody can get are at most
as many as the processes that died. `ReferencesExact`: each
count equals the references there are, nothing referred to is destroyed, and the
destructor of RefCounted finds a count other than zero only when the sole owner let go.
`CacheConsistent`: an entry is in the table or not, in one list or none, as its
count says, and usage_ is the sum of the charges. `RemovesOldestOnly` compares
what Insert evicts with a history of the order in which entries were given up, and
what Crematory destroys with what has waited its time.

The properties of `structures`, by promise. `LookupsExact`: what a lookup finds is
what was put in and not taken out. `OrderExact`: the links agree with the order of
the contents, for readers of the skip list also while it changes; a node of the
lock-free free list is in one place (`NodesOnce`) and the linked queues hold their
items in order (`LinkedInOrder`).
`CallbacksServed`: what is due is served although callbacks change the lists.
`BytesExact`: what comes out is what went in. Decoding inverts encoding, piece by
piece and under concurrent bits, damage is refused, and buffers give their bytes
back in order from within the memory; the searches and counts of bits are compared with
the set of bits that are on, for the ranges and sizes where the code has it right and
as exceptions where it has not. `ItemsHandedOutOnce`: what lock-free queues
hand out went in, goes out once and in order, and no slot is touched by two threads.
`RefusalsJustified`: a client of MPMCBoundedQueue is refused only by a ring that is
full or empty at its node, and pop of WorkStealingQueue hands out the youngest item. `ReadersProtected`: a sequence lock returns no
mixture and nothing older than the last complete store, nothing is freed under a
hazard pointer that was announced in time, and synchronize_rcu outlasts every read
section that was entered before. `FilesExact`: file, position and result agree after
transfers that were interrupted, cut short or failed; a late waiter of a SubProcess
does not forget its successor. `CrashAtomic`: whatever step
of safe_write_file is the last, the file found afterwards is whole, and is the value
last acknowledged or one of a call since, except after a success that was returned
early (section 6). `LookupsExact` compares LimitedMap with the N highest of the
elements it was given, but for a new one that is lowest.

Deadlock is not checked: pools, queues and locks that nobody calls any more are
at rest, and clients have no obligation to call. That a client inside a call is
not stuck is what the liveness properties say.

## 4. Fairness

Every fair specification obliges only those who are inside an operation: weak
fairness of each thread's next step inside a critical section or after a
notification, of tasks returning, of a started destructor or join, of timers
expiring and time passing. No client is obliged to call anything, except where
the property says "as long as consumers keep calling"; there, the consumers' calls
are fair and a comment in the module says so. Spurious wakeups
are never fair.

Strong fairness stands for a mutex that is granted eventually although others
keep taking it, and is used where the code relies on that: the threads and
waiting clients of `TaskAsyncThreadPool`, a waiter that reacquires the mutex of
`Notification`, BGThread and its callers at `mu_`, and the locking of a reader's mutex by `DoublyBufferedData::Modify`.

Nobody acts in a process that an assertion has ended: the obligations of QueueRing's
clients end with `asserted`, those of FutureSem's with `FutureAlive`. The client of a
StdThreadWorker is obliged to go on only once it has called wait or stop.

In `sync` the thread of a TimerQueue is fair too; its weak fairness is written with
the enabling condition spelled out (`TimerReady`), because the step itself is a
loop over the heap. User threads are cooperative: that each gives the processor
away some time is an assumption about their code and is stated as `GivesWay`.

## 5. What is proved

Every theorem is for every value of the constants of its module: any number of
threads, clients, jobs and values, any capacity. The proofs share one pattern. An
invariant that a run checks is seldom inductive, so a stronger one (`...Inv`) is
stated beside it, shown to hold initially and to be kept by each action (one
lemma per action or per group of actions that touch the same state, one step per
conjunct the action disturbs), and the run's invariant follows from it. A suite's
property is then the conjunction of its instances': a step of the suite is a step
of the one instance in focus and a stutter of the others, so the lemmas about the
instances (`Init` implies the invariant, a step keeps it) are all it takes.

Assumptions. The constants are as the modules assume (`...Assumption`; TLC
evaluates them in the runs): sets whose members are counted are finite, sentinel
values differ from real ones, at least one thread. Beyond these, some theorems
have a hypothesis about clients or sizes, taken from what the code requires:
`ResetContract` (a BlockingCounter is not reset to zero, which wakes nobody),
readers and modifiers of DoublyBufferedData being different threads, one thread in
`CancelCoversTask`, since with two the run `bg_cancel` refutes the promise, and
`NodeCount > 1` in `ItemsAreHandedOutOnce` and `RefusalsAreJustified`, since in a
ring of one node the number that says "filled" is the one that says "free"
(section 6).

Exceptions. Some theorems state a promise up to the one case in which the code breaks
it; the case is modelled and named in the statement. `JoinAllIsSafe` (`JoinAllJoinsAll`) is about
JoinAllThreads and says nothing of WaitForJobsAndJoinAllThreads, which can join a thread
object that is gone. `SemMutexSafe` (and `CountersExact`, `HandoversComplete`, which use
it) holds until the SETALL of a process that still sets up hits one that has the lock;
processes attach at any time. `FutureSafe`: the assertion of get fails only for a get
whose timed wait was over before the value came. `PoolsAccountForTasks`: WaitForReady
has seen every thread but those whose event it stopped waiting for in a spurious
wakeup. `ElementsAreDelivered`: dequeue of QueueRing with one producer and one
consumer fails its assertion after a spurious wakeup only. `RingsDoImplementQueues`: a
pop_bottom whose item has wrapped removes it and hands out something else.

### Thread pools

`ThreadPoolImplProofs`. A lost wakeup is prevented by the fact that live threads
are exactly the indices below `bgthreads_.size()`, which is kept because only the
last excessive thread leaves, which is awake because of the notifications at each
change of the limit and at each termination, and joins rely on the flags that
JoinThreads sets before it unlocks. `IInv` therefore joins `ThreadTypeOK`,
`JoinFlags`, `ThreadsContiguous`, `NoLostWakeup`, `TerminatorAwake` and
`JoinedThreadsAwake`. `JobInv` adds the order of the queue, that no
job is twice among those started and queued, that only accepted jobs are cancelled
and that `queue_len_` is exact. Theorems:
`ContiguousThreads`, `NeededThreadsAwake`, `PoolTypes`, `JobsHaveOneFate`,
`JoinAllIsSafe` (the range of threads that JoinAllThreads walks cannot change under it,
since a thread that finds `exit_all_threads_` and nothing to wait for exits before it looks
whether it is excessive, and so leaves the vector alone). A behaviour of `PoolSuite` is one of ThreadPoolImpl, so
that the suite's theorems, which are about the properties the runs check, follow:
`BgthreadsHasNoHole`, `NeededAreAwake`, `JobsKeepOneFate`, `JoinAllJoinsAll`, and, with
the types of the other pools, `PoolsKeepTypes`.

`BGThreadPoolProofs`. `BGInv` has four parts. `Watched` is the property itself:
with `TopIsLeast` (the top of the heap is a least deadline; by the
well-foundedness of the naturals) and `WaitsNotPast` (a timed wait never goes
past the deadline it was computed from, the rounding to milliseconds included) it
is inductive. `Books` says of the deque, the heap, `latest_` and the histories
that each task and each timer is in exactly one of the places it may be in, and
nothing is started twice. `Hands` says what the threads hold: the task in a
thread's hands was started and has not returned, tasks that Stop(true) found
pending are queued, in someone's hands or finished (`Covered`), with one thread
`running_task_id_` names the delayed task that runs (`OneRunner`). `CancelNames`
keeps the call of CancelTask in progress within its types. Theorems:
`QueueAndHeapWatched`, `TasksAccountedFor`, `StopCoversPending`,
`CancelCoversTask`.

`PoolProofs`. `FixedInv`: `num_pool_threads_` is the cardinality of `bgthreads_`,
which is the set of threads that have not left, and only a thread that has seen
`shutting_down_` leaves; hence the destructor's loop ends with nobody inside.
`TaskInv` and `AsyncInv`: `available_` is the number of threads less those that
run a task (counted with FiniteSetTheorems), `complete_` says that nothing is
queued and nothing runs, every task a client waits for was added, and what was
added is queued or taken; therefore a client that finds the pool complete leaves
after its tasks. That one notify_one per task is enough needs that no thread
leaves while the pool runs and, in TaskAsyncThreadPool where the notification
follows the unlock, that nothing is pushed while a thread holds the mutex on its
way to block (`AsyncHeld`). `SimpleSeen`: the events before the one waited for
were seen or are among those whose wait a spurious wakeup ended (`misled`), and whoever
notifies has signalled. Theorems of the suite:
`PoolsWatchTheirWork`, `PoolsAccountForTasks`, `PoolCallsCover`. PoolSuite's
constants give the sizes of the pools, so these hold for all of them; the four
instances of BGThreadPool have the sizes written in the suite, and its theorems
for all sizes are those of `BGThreadPoolProofs`.

### Queues

`BlockingQueues` holds its theorems beside the specifications. The hard part is
what the runs check as `...Covered`: a client that sleeps although what it waits
for is there must be covered by one that is awake, or by a signal on its way.
Counting is what makes this inductive. In `BlockingInv` every client has a role
(asleep in pop or in push, awake and about to test, about to signal one side or
everyone, or out of the queue), and whenever somebody sleeps, the elements (for
a popper) or the free places (for a pusher) are at most as many as the clients
awake for them and the signals on their way; each step changes both sides alike.
`CircularInv` is the same for two condition variables and a capacity that may be
absent, in which case no producer waits. `ConcurrentInv` follows `nwait_consumer_` of ConcurrentBlockingQueue through
the unlock after which Push decides from it. `SimpleInv` and `ChannelInv`
need little beyond what the run checks: the first class notifies everyone, and a
reader of BlockChannel that takes an element notifies the next one.
Order is counted too. `LogInv` numbers the elements of BlockingQueue, those pushed in
front downwards and the others upwards: the queue is ascending between `lo` and `hi`,
and what has left and what is queued are disjoint and together all that was pushed.
`RankInv` is the same for a ConcurrentBlockingQueue of type kFIFO; of a heap it says
that what is popped had the highest priority of those queued.
Theorems: `BlockingQueueSafe`, `CircularQueueSafe`, `SimpleQueueSafe`,
`ChannelSafe`, `ConcurrentQueueSafe`, `KilledQueueSilent`.

`QueueProofs` has the suite's theorem `SleepersAreCovered`, and the theorems about
DoublyBufferedData: `Places` says which step of Modify every thread may be in
given who holds the mutexes, `Mutexes` ties mutexes to program counters,
`OldReadersAwaited` is the heart: a reader that may still use the old instance is
either the one Modify waits for or still ahead in its scan; `Versions` relates the
two instances. Theorems: `ReadersAreUndisturbed`, `InstancesDoAgree`.

The rings are proved in `QueueProofs` too, each for any number of slots and any
set of values, and give the suite's other two theorems. `ElementsAreDelivered`
(what comes out of every queue of the suite) needs two invariants of QueueRing.
With any number of clients, `RingInv`: a value is in one place only (with the
producer that claimed its bucket, in one bucket, or among those dequeued), and
the values claimed are those in these places. Order is promised only to one
producer and one consumer, and there `OneInv` numbers the values: the k-th claim,
of either side, goes to bucket k modulo the size (`Home`), and a bucket holds, in
the order of their numbers, those of its values that were filled and not yet
consumed (`Chain`); hence the head of the consumer's bucket is the next value,
and the consumer, which sleeps only at an empty bucket, is woken to a value, so
that the assertion in dequeue holds unless the wakeup was spurious (`asserted`). `RingsDoImplementQueues` is the refinement
of `BoundedDeque` by BoundedQueue and TCLoopQueue. The mapping reads the slots in
use, from the start on, as a sequence; the invariants (`DequeInv`, `LoopInv`) say
that these slots hold elements. One lemma per operation then shows what a write or
a shift of the start does to the sequence, wherever the slots wrap (`PlaceFacts`,
`Spots`: the slots of a full ring differ, and moving the start moves every
element's number by one). The pop_bottom of an item that has wrapped is a step of
its own there: it maps to the abstract pop without the value handed out. push_back of TCLoopQueue reports an empty queue exactly
when its sequence was empty before.

### Locks, semaphores, events

`SyncProofs`. `bits_` of RWSpinLock says only how many readers there are and
whether there is a writer or an upgrader, so exclusion is inductive only with the
exact account of the word (`BitsExact`); cardinalities come from
FiniteSetTheorems, the decomposition of the word into a count and two flags from
a lemma on `% 4`. Theorems: `Exclusion`, `Account`, `ReadersOnlyLeave`, and for
`LockSuite` `CountersExact`, `HandoversComplete`, `LightIsASemaphore`.

`SyncObjects`, semaphores. `LightInv` accounts for the counter of LightSemaphore, which goes
negative: its value is the free units less the waiters that have given up
spinning, and each of these has a post of the kernel semaphore, made or on its
way, or nothing to take. From it follows the refinement, step by step: the
decrement that succeeds, or the post that is taken, is the step in which the
abstract semaphore gives a unit; everything else stutters (`Posts`, the posts on
their way, are units of the abstract semaphore). `GrantInv`: a grant of
CondVarSem that waits holds nothing, and one that is being moved stays where it is
until its destination has it, so that units are conserved and reach the sleepers.
`SemInv`: what the kernel would undo for a process of TCSemMutex is exactly what
that process did. It is kept as long as no holder was `wiped`, that is, until a SETALL
that comes late sets the semaphores under a process that has the lock. Theorems: `LightAccounted`, `LightRefinesSemaphore`,
`GrantsSafe`, `SemMutexSafe`.

`SyncObjects`, events. `FreeInv`: `m_status` of AutoResetFreeEvent, the waits that have
returned and the callers that sleep add up to the initial status and the calls of
signal that set it, so no wait returns for free. `EventInv`: nobody sleeps beside a signal,
and an event that resets itself releases no more waiters than it was set.
`LatchInv`: nobody sleeps at zero. `NoteInv`: Notify holds the mutex from before it
sets the flag until it has woken the sleepers. `FutureInv`: the order of the three
writes of set (value, flag, post), and who is past its wait without them has `expired`. Theorems: `FreeEventExact`, `EventsRelease`,
`LatchWakesAll`, `NotificationSafe`, `FutureSafe`.

### Readers without locks

`LockFreeProofs` has `ReadersProtectedHolds`, about the three ways in which
lock_free_util lets a reader go on beside a writer, for any number of threads.
`SeqInv`, sequence locks: the number is twice the stores that are done, and one
more while a store is between its two increments; the words are the old or the
new ones as the writer's place says; and a load that has seen number n has, as
long as the number is still n and even, copied the words of store n / 2. The last
check of load makes the condition true. `RcuInv`, urcu_easy: a counter is a phase
above a depth, each registered thread has a slot of its own, and a grace period
knows which of the sections that were open at its call can still be open
(`Waited`). In the first of its two waits every such section whose slot was
passed has the new phase; after the second flip these are the old ones, and each
slot that is passed has none of them left. A reader that read the global counter
before a flip and stores it after is why one wait is not enough: its section
counts as open only from the store, with the phase it read. `HazInv`,
HazardPtrEasy: each object that was retired is on one thread's list or freed, an
object in use is the one announced, and a collection that looks at this object
has not yet come to the slot of the thread that uses it; once retired, an object
cannot be announced and found current any more, so this is kept.

### Queues without locks

`LockFreeProofs` also has `ItemsAreHandedOutOnce` and `RefusalsAreJustified`, for any
number of clients, thieves, items and values, any capacity of WorkStealingQueue, any
MPMCBoundedQueue of at least two nodes, and any single-producer ring of at least two
slots whose indices wrap at any multiple of the size. All three structures number
their positions without end and find a slot by a remainder, so the arguments rest on
lemmas that say when two positions share a slot: positions less than a ring apart
do not, and the position a whole ring later does.

`SpscInv`, the rings for one producer and one consumer: the indices are the counts of
items sent and received, modulo the wrap (`SpscTypeOK`); whoever is past its check
still has room or an item, as the other side can only add to it (`SpscChecked`); item
k + 1 lies in the slot of position k until it is released (`SpscSlots`); and a
guessed size errs to the caller's safe side as it ages (`SpscGuesses`).

`MpInv`, MPMCBoundedQueue: positions fall into four regions. Below tail the number
of a node has passed the position (`MpPast`), unless a consumer still copies from
it (`MpReaders`); from tail to head a position is being written (`MpWriters`) or
filled (`MpFilled`); from there to a ring after tail it is free or still being
read in the round before (`MpFree`). A position has one producer and one consumer
(`MpAlone`), and a client about to claim saw its node ready, which nobody can change
while the counter stands still (`MpClaims`). The compare-and-swap succeeds only
then, which is why the counters may be read long before they are used. A producer
that is refused saw a number below its position, which `MpPast` and `MpFree` leave
only a full ring or a node that is just being copied out.

`WsInv`, WorkStealingQueue: the slots from _top to `Bot` hold exactly the items that
nobody has got, the older ones first (`WsItems`, `WsTaken`), where `Bot` is _bottom, or
the one above while a pop that has decremented it has not decided yet. `WsOwner` says
what the owner knows at each step; the difficult one is the pop of the last item,
which competes for _top with the thieves and leaves the queue empty whoever wins.
`WsThieves`: a thief whose _top is still right has an item to steal, and the one it
read. Atomics are sequentially consistent in these models (section 7).

### Only model-checked

* Liveness under fairness and everything about ENABLED, which the prover does not
  handle: `CallsReturn`, `TasksRun` and the other leads-to properties.
* Those parts of a component that fold over sequences or walk linked structures:
  `NodesOnce` and `LinkedInOrder` of LockFree, and most of `storage` and
  `structures` (`MemoryExclusive`, `CrashSafe`, `ReferencesExact`,
  `CacheConsistent`, `LookupsExact`, `OrderExact`, `CallbacksServed`, `BytesExact`,
  `FilesExact`). What a recursive definition computes for every input needs an
  induction over data, which is out of the prover's reach.
* `WorkDoneOnce` (threads, worker, timers, coroutines, logger) and `CrashAtomic`: within
  reach in part, and not attempted.
* The larger suites, `SyncSuite` and `StructureSuite`, as wholes: theorems are about
  `LockSuite` and `LockFreeSuite`, whose properties and steps they take over
  unchanged, because their other modules fold and recurse.

## 6. Disagreements between code and comments

Shown by a run:

* `waitforjobs`. env_util.h promises that WaitForJobsAndJoinAllThreads "ensures
  that everything that was thrown on the TP runs". The pool has one thread and one
  queued job. JoinThreads(true) sets the limit to zero, notifies and blocks in join; the
  thread sees the job, but is the last excessive thread: it detaches itself and leaves.
  The join returns and the job is still queued.
* `joinall_discard`. threadpool_util.h:35-38 says that JoinAllThreads "Discards all the
  jobs that did not start executing". JoinThreads(false) does not touch `queue_`: the
  threads exit, the call returns, and a job that nobody had started stays queued; a later
  SetBackgroundThreads runs it.
* `bg_cancel`. CancelTask: "if running, wait if non_block==false". All threads
  share one `running_task_id_`; with two threads the second delayed task
  overwrites it and the blocking call returns while its task runs. (With one
  thread the promise holds and is part of `CallsCoverEarlierTasks`.)
* `async_destroy`. ~TaskAsyncThreadPool: "notify all threads to stop running".
  `running_` is written and the notification sent without the mutex, so both may
  fall between a thread's test and its wait; the join then hangs.
* `knv_shared`. "A general-purpose object pool, muti-thread safe version." New of
  TCKnvObjPoolR reads the head of the free list and its next, then swaps the head.
  When another thread has taken both objects and given the first back in
  between, the swap succeeds and puts an object in use at the head, and the next
  New hands it out a second time.

* `flat_clear`. not_empty_ of FlatRep is the "Count of entries with marker !=
  kEmpty" (map_util.h:422), from which MaybeResize decides to grow. clear_no_resize
  empties only the slots of entries, leaves the markers of erased ones and sets the
  count to zero; a table so treated can fill up with markers that nobody counts,
  and a probe for a missing key then never ends. `structures` clears only tables
  without erased entries (`Tombstones = FALSE`), where everything holds.

Seen while modelling; the models do what the code does, or keep clear of it where
it is undefined:

* WaitForJobsAndJoinAllThreads walks `bgthreads_` while excessive threads detach
  themselves and leave it, so that it can join a thread object that is gone or not joinable
  and throw. The model ends such a call in "threw"; `PoolProgresses` counts it as an end of
  the call, and no property says that it does not happen.
* NewThreadPool creates a pool whose `env_` is null until SetHostEnv,
  which the models assume to have been called.
* ~PosixFixedThreadPool leaves queued work unrun.
* `task_count_` of BGThreadPool is incremented outside the lock and loses updates.
* TaskThreadPool wakes one client when it becomes idle; with two clients in
  WaitWorkComplete one stays blocked. The model has one.
* SimpleEvent::wait tests its flag once, in an `if` (threadpool_util.h:326): after a
  spurious wakeup WaitForReady goes on before the thread is ready.
* QueueRing::dequeue waits once, in an `if` (blocking_queue.h:591): after a spurious
  wakeup its assertion fails. Two producers' values may leave in another order than they
  were enqueued. BoundedQueue::pop_bottom does not wrap (blocking_queue.h:424, 437): it
  takes the right item off the queue, but when that item has wrapped it hands out what lies
  behind the last slot. elim_push of an empty-capacity
  queue does not return. TCLoopQueue of size 0 accepts and drops items;
  SPSCBoundedQueue of size 1 never holds one. MPMCBoundedQueue admits size 1 ("enforce
  power of 2", lock_free_util.h:666), where filled at position s and free for position
  s + 1 are the same number: a second producer overwrites the value nobody has read.
* DoublyBufferedData: Modify inside the thread's own Read blocks for ever.
* RWSpinLock: try_unlock_upgrade_and_lock can be starved by readers that back off.
* Semaphore::wait returns after EINTR as after a wait. ManualResetEvent's timed
  wait reports failure when it was woken by set and reset at once.
  CountDownLatch's timed wait goes on after its time, as CondVar::waitFor
  returns true always. BlockingCounter::reset(0) wakes nobody and a decrement at
  zero wraps.
* TCSemMutex: a process that attaches and locks while another is between semget and
  SETALL has its lock overwritten (locks_util.cpp:559-580). Exclusion and the counts are
  promised until then (`wiped`).
* FutureSem::set posts once, so of several getters that were early one returns.
  Its timed wait builds a wrong timespec (locks_util.h:1817-1823): the wait is over at
  once, and get fails its assertion at locks_util.h:1795, or the process is aborted for a
  timespec that is refused. FutureResult's is built the same way.
* RefCounted::Unref deletes at a count of one without a decrement, while
  ~RefCounted asserts a count of zero (refcount.h:94): the sole owner that lets go fails
  the assertion. `AtomicExact` says that this is the only way to fail it.
  ScopedRefCountedPtr and TBHandle drop the answer of RefCountedBase::Unref, so that
  deleting the object is left to its class, which is not in this repository.
* PageMemPool::free_page admits any index above 0 (memory_pool.cpp:565), also pages of
  the bitmap itself when there are several; these can then be handed out (`freedMeta`).
* Arena's assertion `remaining_ <= block_size_` fails when the block size is no
  multiple of the alignment asked for, as AllocNewBlock rounds up and
  OptimizeBlockSize is never called. The model's block sizes are multiples.
* Copy assignment of a thread-local shared pointer to itself frees the block and
  uses it on (memory_pool.h). Each process that attaches to a PageMemPool overwrites
  the pool's pointer in the shared memory.
* append, rebuild and create of TCMemMultiChunkAllocator are not safe against a
  crash in the middle; in the model they are single steps.
* LRUCacheEasy::Update and UpdateSilently pass `add_only = true` and so update nothing.
* An autorelease pool that is destroyed leaks what destructors add to it while it
  is cleared. MemoryPieceStore::Allocate(0) reads an uninitialised count; the model
  asks for no zero bytes.
* Tables. LimitedMap "only keeps the N elements with the highest value" (map_util.h:36),
  but a new element stays even when it is the lowest, and a higher one goes. CuckooCache::insert displaces from the second location first where
  its comment names the first. PresizedCuckooMap compares the key ~0 untransformed.
* Trees. SplayTree::remove leaves stale pointers in the node; radix_max overflows at
  the greatest height; trie_add reads past a prefix.
* Containers. LRUCacheEasy::operator[] leaves an unlinked node, and a capacity of 0
  acts as 1; autovector::resize shows old values; SmallHashMap::Insert
  takes a key twice; IndexedQueue::Find does not compile when instantiated.
* Event loop. Resizing inside a callback leaves the loop with a dangling entry; a
  read callback that installs AE_BARRIER is too late for this pass.
* Timers. A timer that a callback of SequenceTimer starts precedes the one being
  rescheduled. cancelAll of TimerQueue says it "maintains the heap integrity"
  (timer.h:249), but items without handler keep their time below others that lost
  theirs; the thread finds them all the same. An item without handler that is added
  during the shutdown survives to the assertion.
* Threads. PosixThread::start sets `is_running_` after pthread_create, so a function
  that ended at once counts as running; waitUntilStop before the thread reset its
  latch returns at once. BGThread::stop changes its flag without the mutex and
  wakes one caller; a path of ThreadMain ends with `mu_` locked; delayed jobs that
  keep coming hold up the others. wait() of StdThreadWorker, to "wait until all jobs was done" (thread_util.h:360), is
  let through early when a job is added between the worker's last look at its queue
  and its notification; the destructor, which is to "wait until all job finish"
  (thread_util.h:329), then calls stop() and drops what is queued (`misled`). ThreadLocalD
  never deletes the object of a thread that has ended when a new thread with the same id makes one,
  where threadlocal_util.h:131-132 has all objects deleted. SetThisThreadCpuAffinity tests its result the wrong way round.
* Signals. A previous handler SIG_IGN would be called; hooking up and taking back in
  two threads race.
* Codings. GetFixLength64PrefixedStringPiece ignores that GetFixed64 failed (`Blind`);
  bit_array_first1 with both ends inside one word may return a bit before `begin`, against
  bitmap.h:71-72. BitSet::reset counts (count + count - 1) / 8 bytes (bitmap.h:203-206,
  244): it leaves bits set in a BitSet of up to 4 bits and writes past the end of one of
  more than 12 (not run, as what it overwrites is not the BitSet's);
  BitSet::pick never returns the position of its cursor.
* Files. A read at the end of a file with a stale errno EINTR does not end
  (io_util.cpp:307); PositionedAppend counts wrong; a reopened PosixWritableFile
  or PosixMmapFile starts at 0; Msync advances before a sync that may fail.
  PosixWritableFile is opened without O_APPEND (env_util.cpp:734) and Truncate leaves the
  offset where it was (io_util.cpp:566), so that what is appended then lies elsewhere.
  InputBuffer returns OK at the end of a file with fewer bytes, where io_util.h:253
  says `OK iff "*bytes_read == bytes_to_read"`. safe_write_file returns early when
  the value is already there (file_util.cpp:262-264), though an earlier call that failed
  may have left its directory entry unflushed: that success does not survive a crash
  (`unsynced`). It reads 80 bytes of the old value, so that a longer file that
  begins with the value passes for it; the values of the model are shorter.
  RollFile overwrites the wrong file when two were written in the same second.
* Logging. BDAsyncLogger::flush waits without a condition (logging_util.cpp:294): after a
  spurious wakeup it returns before its messages are written. BDAsyncLogger counts the message that rotates twice; flush after the
  writer has ended hangs.
* Buffers. readInt8 and readInt16 of DataBuffer are unchecked; FixedBuffer never
  fills completely; TCBuffer::Swap leaves one member; TCBufferPool may pass its
  limit by one block; sdssplitlen returns no tokens, not NULL, for an empty string
  (sds.cpp:769).
* Child processes. A second Start overwrites the pipes of the first child, which stay
  open. Kill may signal a pid that another thread has just reaped. Start, SetProgram
  and SetChannelAction wait for `data_mu_` while they hold `proc_mu_`, so that beside
  Communicate they keep out Kill, though process_util.cpp:694 releases `proc_mu_` "in
  order for Kill() to be able to terminate the child". When another thread reaps the
  child and turns a closed channel into a pipe before Communicate gets `data_mu_`,
  Communicate polls a descriptor of -1 for ever.
* Sockets. A SocketBreaker that is closed and made anew stays `broken_` with an empty
  pipe: Break returns true and wakes nobody. Close leaves its descriptors for the
  destructor to close again. PinkCli::Connect leaves the socket open when it finds
  that it connected to itself; called while connected it gives up the old socket
  and, if it fails, Close closes a number that is no longer its own. Timeouts are
  those of the old socket after a new Connect; `sockfd` is uninitialised before the first.
* Shared memory (read, not modelled). get_share_memory creates without IPC_EXCL and
  clears the segment, so of two processes that open the bitmap together one may
  erase the bits of the other; setting a bit is a read and a write.
* MPSCQueue::available, BlockingQueue::PushFront, MPMCBoundedQueue::sp_produce and
  FutureResult::get(r) do not compile when they are instantiated and are not modelled.

## 7. Modelling decisions

* Every wait on a condition variable may end without a notification, also where the
  code does not test its condition again.
* Debug build: assertions are active and are modelled as states that must not be
  reached.
* Atomics and unlocked shared variables are sequentially consistent; the memory
  orders of lock_free_util are not weakened in the models.
* What the code leaves to its clients is part of the model of the client: one writer
  of a SeqFreeLock, one producer and one consumer where the name says so, a node
  added to a LockFreeList by its owner, a hazard pointer that is announced and then
  compared with the shared pointer again, no synchronize_rcu inside a read section,
  one Communicate at a time. Sequence numbers and pids do not wrap or recur.
* Jobs, tasks and values are model values; a job returns, at any time after it
  was started. Allocation and thread creation succeed.
* Thread names, priorities as numbers, log lines and statistics are left out;
  that a thread lowers its own priority once is kept.
* Time is a counter of ticks with a fixed number of ticks in a millisecond, so
  that the rounding of the code's milliseconds is visible.

## 8. What is not modelled, and the plan

Every part of `util/` is listed with its status and reason in `PROJECT.json`. Left
out for good: wrappers of a single system call (Env's factory, server sockets, shared
memory, daemons, directory walks), inline assembly and compiler intrinsics (the
models use the atomic operations they provide), the mixing functions of hashes and
digests, calendar arithmetic, formatting, parsing and printing, the test harness,
and cJSON, which is third-party code. These make up most of the lines no model
stands for: string_util, file attributes, logging macros, time_util, net_util.

Left out, but within reach:

1. locks_util: FutureResult, LockedCondition, CondLock, CSemaphore.
2. Storage: NewId and TotalCharge, the thread-local shared pointers,
   DeleteObjectPool, destructors that autorelease, the object factory.
3. MultiProc, TCShm's bitmap, the cleaning of paths in env_util, the trie, the histogram, InlineSkipList.

Theorems worth proving next: for storage, that the pages in use of PageMemPool are those its
bitmap says whatever step a process dies in, and that RefCounted is destroyed once;
`CrashAtomic` of safe_write_file, `SharedBitsKept` of the concurrent filters and
`CallbacksLifo` of AtExitManager. The modules of the latter fold over sequences in
most operations, and a theorem about one of their classes needs it in a module
without such folds first.
