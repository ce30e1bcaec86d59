---------------------------- MODULE BGThreadPool ----------------------------
(***************************************************************************)
(* BGThreadPool of util/threadpool_util.cpp: ordinary and priority tasks   *)
(* in a deque, delayed tasks in a heap ordered by their time, tasks that   *)
(* can be cancelled by id, Start and Stop.                                 *)
(*                                                                         *)
(* Every section under mutex_ is one action; what ThreadProc does between  *)
(* unlock() and lock() around a task is split at its accesses to the       *)
(* unprotected task_count_.  Time is NowMonotonicMicros in ticks; TickMs   *)
(* ticks are the millisecond that DelayTask and the timed wait work in.    *)
(***************************************************************************)
EXTENDS Integers, Sequences, FiniteSets

CONSTANTS
  N,          \* threads_num_
  Normal,     \* tasks clients pass to AddTask, each at most once
  Urgent,     \* tasks clients pass to AddPriorityTask, each at most once
  MaxDelayed, \* bound on the number of delayed tasks
  Delays,     \* delays in milliseconds clients pass to DelayTask
  TickMs,     \* ticks per millisecond (1000 in the code)
  MaxTime,    \* bound on the clock
  MaxCount,   \* bound: task_count_ is not followed beyond this value
  Cancels,    \* values of CancelTask's non_block the clients use
  NoTask

BGPoolAssumption ==
  /\ N \in Nat \ {0} /\ MaxDelayed \in Nat /\ TickMs \in Nat \ {0}
  /\ MaxTime \in Nat /\ MaxCount \in Nat /\ Delays \subseteq Nat /\ Cancels \subseteq BOOLEAN
  /\ Normal \cap Urgent = {} /\ IsFiniteSet(Normal \cup Urgent)
  /\ (Normal \cup Urgent) \cap (1 .. MaxDelayed) = {}
  /\ NoTask \notin (Normal \cup Urgent) \cup (1 .. MaxDelayed)

Threads == 1 .. N
Ids == 1 .. MaxDelayed
Tasks == Normal \cup Urgent

VARIABLES
  pc,        \* what each thread does ("none": not created)
  job,       \* the task a thread has taken
  deadline,  \* when the timed wait of a thread in "timed" ends
  queue,     \* queue_
  pending,   \* pending_num_
  heap,      \* time_queue_, as a set of [id, exe]
  latest,    \* the keys of latest_
  lastId,    \* last_task_id_
  running,   \* running_task_id_
  stop,      \* stop_
  count,     \* task_count_
  reg,       \* the value of task_count_ a thread is about to increment
  now,       \* the monotonic clock
  spc,       \* what the thread in Stop does
  cancel,    \* the CancelTask call in progress, id 0 when there is none
  accepted,  \* history: tasks queued by AddTask, in order
  started,   \* history: tasks and delayed ids taken by threads, in order
  firedAt,   \* history: when each delayed task was started
  exeOf,     \* history: exe_time of each delayed task
  cancelled, \* history: ids for which CancelTask returned true
  finished,  \* history: the tasks that have returned
  awaited    \* history: ordinary tasks pending when Stop(true) was called

thrVars == <<pc, job, deadline>>
queueVars == <<queue, pending, accepted>>
timerVars == <<heap, latest, lastId, exeOf>>
profVars == <<count, reg>>
stopVars == <<spc, awaited>>
vars == <<thrVars, queueVars, timerVars, running, stop, profVars, now, stopVars,
          cancel, started, firedAt, cancelled, finished>>

NoCancel == [id |-> 0, nb |-> FALSE]
Elements(s) == {s[k] : k \in 1 .. Len(s)}

-----------------------------------------------------------------------------

\* The top of the min-heap: BGItem's operator< orders by time, then by id.
Before(a, b) == a.exe < b.exe \/ (a.exe = b.exe /\ a.id < b.id)
Top(hp) == CHOOSE a \in hp : \A b \in hp \ {a} : Before(a, b)

\* wait_time in whole milliseconds, and the test wait_time <= 0.
WaitTime(exe, t) == IF exe > t THEN (exe - t) \div TickMs ELSE 0
Due(exe, t) == WaitTime(exe, t) <= 0

\* work_cv_.signal() and work_cv_.broadcast() on the threads' states.
Asleep(p) == {w \in Threads : p[w] \in {"wait", "timed"}}
Signal(p) ==
  IF Asleep(p) = {} THEN {p} ELSE {[p EXCEPT ![w] = "check"] : w \in Asleep(p)}
Broadcast(p) == [w \in Threads |-> IF w \in Asleep(p) THEN "check" ELSE p[w]]

SignalIfFirstTimer(p, hp) == IF hp = {} THEN Signal(p) ELSE {p}       \* fault
DelaySignal(p, hp) == Signal(p)
AddSignal(p, q) == Signal(p)
StopBroadcast(p) == Broadcast(p)

PushBack(q, t) == Append(q, t)
PushFront(q, t) == <<t>> \o q
Counted(n) == n + 1

Init ==
  /\ pc = [w \in Threads |-> "none"] /\ job = [w \in Threads |-> NoTask]
  /\ deadline = [w \in Threads |-> 0]
  /\ queue = <<>> /\ pending = 0
  /\ heap = {} /\ latest = {} /\ lastId = 0 /\ exeOf = [i \in Ids |-> 0]
  /\ running = 0 /\ stop = FALSE
  /\ count = 0 /\ reg = [w \in Threads |-> 0]
  /\ now = 0
  /\ spc = "idle" /\ awaited = {}
  /\ cancel = NoCancel
  /\ accepted = <<>> /\ started = <<>> /\ firedAt = [i \in Ids |-> 0]
  /\ cancelled = {} /\ finished = {}

Tick ==
  /\ now < MaxTime
  /\ now' = now + 1
  /\ UNCHANGED <<thrVars, queueVars, timerVars, running, stop, profVars,
                 stopVars, cancel, started, firedAt, cancelled, finished>>

-----------------------------------------------------------------------------
(* Client operations.  One client at a time starts and stops the pool, one *)
(* at a time is inside CancelTask, any number add tasks.                   *)

\* Start returns false and does nothing while tids_ is not empty.
Start ==
  /\ spc = "idle" /\ pc[1] = "none"
  /\ stop' = FALSE
  /\ pc' = [w \in Threads |-> "check"]
  /\ UNCHANGED <<job, deadline, queueVars, timerVars, running, profVars, now,
                 stopVars, cancel, started, firedAt, cancelled, finished>>

StopCall(wait) ==
  /\ spc = "idle"
  /\ spc' = IF wait THEN "poll" ELSE "stop"
  /\ awaited' = IF wait
                THEN {t \in Tasks : t \in Elements(queue) \cup {job[w] : w \in Threads}}
                ELSE {}
  /\ UNCHANGED <<thrVars, queueVars, timerVars, running, stop, profVars, now,
                 cancel, started, firedAt, cancelled, finished>>

\* The unlocked poll of pending_num_ ends.
PollSeesOne(n) == n <= 1                                              \* fault
PollEnds(n) == n <= 0
StopPoll ==
  /\ spc = "poll" /\ PollEnds(pending)
  /\ spc' = "stop"
  /\ UNCHANGED <<thrVars, queueVars, timerVars, running, stop, profVars, now,
                 awaited, cancel, started, firedAt, cancelled, finished>>

StopSet ==
  /\ spc = "stop"
  /\ stop' = TRUE
  /\ pc' = StopBroadcast(pc)
  /\ spc' = "join"
  /\ UNCHANGED <<job, deadline, queueVars, timerVars, running, profVars, now,
                 awaited, cancel, started, firedAt, cancelled, finished>>

StopJoined ==
  /\ spc = "join" /\ \A w \in Threads : pc[w] \in {"none", "exited"}
  /\ pc' = [w \in Threads |-> "none"]
  /\ spc' = "idle"
  /\ awaited' = {}
  /\ UNCHANGED <<job, deadline, queueVars, timerVars, running, stop, profVars,
                 now, cancel, started, firedAt, cancelled, finished>>

AddTask(t) ==
  /\ ~stop /\ t \notin Elements(accepted)
  /\ queue' = PushBack(queue, t)
  /\ pending' = pending + 1
  /\ pc' \in AddSignal(pc, queue)
  /\ accepted' = Append(accepted, t)
  /\ UNCHANGED <<job, deadline, timerVars, running, stop, profVars, now,
                 stopVars, cancel, started, firedAt, cancelled, finished>>

AddPriorityTask(t) ==
  /\ ~stop /\ t \notin Elements(accepted)
  /\ queue' = PushFront(queue, t)
  /\ pending' = Counted(pending)
  /\ pc' \in AddSignal(pc, queue)
  /\ accepted' = Append(accepted, t)
  /\ UNCHANGED <<job, deadline, timerVars, running, stop, profVars, now,
                 stopVars, cancel, started, firedAt, cancelled, finished>>

DelayTask(delay) ==
  LET id  == lastId + 1
      exe == now + delay * TickMs
  IN  /\ ~stop /\ lastId < MaxDelayed /\ exe <= MaxTime
      /\ lastId' = id
      /\ heap' = heap \cup {[id |-> id, exe |-> exe]}
      /\ latest' = latest \cup {id}
      /\ exeOf' = [exeOf EXCEPT ![id] = exe]
      /\ pc' \in DelaySignal(pc, heap)
      /\ UNCHANGED <<job, deadline, queueVars, running, stop, profVars, now,
                     stopVars, cancel, started, firedAt, cancelled, finished>>

CancelTask(id, nb) ==
  /\ cancel = NoCancel /\ id <= lastId
  /\ cancel' = [id |-> id, nb |-> nb]
  /\ UNCHANGED <<thrVars, queueVars, timerVars, running, stop, profVars, now,
                 stopVars, started, firedAt, cancelled, finished>>

\* One pass of CancelTask's loop.  A blocking call that finds the task running
\* sleeps and tries again: it has no enabled step until running changes.
CancelStep ==
  /\ cancel # NoCancel
  /\ running # cancel.id \/ cancel.nb
  /\ cancel' = NoCancel
  /\ IF running # cancel.id /\ cancel.id \in latest
       THEN /\ latest' = latest \ {cancel.id}
            /\ cancelled' = cancelled \cup {cancel.id}
       ELSE UNCHANGED <<latest, cancelled>>
  /\ UNCHANGED <<thrVars, queueVars, heap, lastId, exeOf, running, stop,
                 profVars, now, stopVars, started, firedAt, finished>>

\* ProfilingLog reads and clears the counters under the mutex.
ProfilingLog ==
  /\ count > 0
  /\ count' = 0
  /\ UNCHANGED <<thrVars, queueVars, timerVars, running, stop, reg, now,
                 stopVars, cancel, started, firedAt, cancelled, finished>>

-----------------------------------------------------------------------------
(* ThreadProc.                                                             *)

Idle == heap = {} /\ queue = <<>> /\ ~stop

ThreadWait(w) ==
  /\ pc[w] = "check" /\ Idle
  /\ pc' = [pc EXCEPT ![w] = "wait"]
  /\ UNCHANGED <<job, deadline, queueVars, timerVars, running, stop, profVars,
                 now, stopVars, cancel, started, firedAt, cancelled, finished>>

ThreadExit(w) ==
  /\ pc[w] = "check" /\ stop
  /\ pc' = [pc EXCEPT ![w] = "exited"]
  /\ UNCHANGED <<job, deadline, queueVars, timerVars, running, stop, profVars,
                 now, stopVars, cancel, started, firedAt, cancelled, finished>>

TimerDue == heap # {} /\ Due(Top(heap).exe, now)

\* Pop a due timer and run it unless it was cancelled.
NotCancelled(id) == id \in latest
MarkRunning(id) == id

ThreadTimer(w) ==
  /\ pc[w] = "check" /\ ~stop /\ TimerDue
  /\ LET top == Top(heap)
     IN  /\ heap' = heap \ {top}
         /\ latest' = latest \ {top.id}
         /\ IF NotCancelled(top.id)
              THEN /\ running' = MarkRunning(top.id)
                   /\ job' = [job EXCEPT ![w] = top.id]
                   /\ started' = Append(started, top.id)
                   /\ firedAt' = [firedAt EXCEPT ![top.id] = now]
                   /\ pc' = [pc EXCEPT ![w] = "run"]
              ELSE UNCHANGED <<running, job, started, firedAt, pc>>
  /\ deadline' = [deadline EXCEPT ![w] = 0]
  /\ UNCHANGED <<queueVars, lastId, exeOf, stop, profVars, now,
                 stopVars, cancel, cancelled, finished>>

\* Nothing is due and the deque is empty: waitFor(wait_time).
ThreadTimedWait(w) ==
  /\ pc[w] = "check" /\ ~stop /\ heap # {} /\ ~TimerDue /\ queue = <<>>
  /\ pc' = [pc EXCEPT ![w] = "timed"]
  /\ deadline' = [deadline EXCEPT ![w] =
                    now + WaitTime(Top(heap).exe, now) * TickMs]
  /\ UNCHANGED <<job, queueVars, timerVars, running, stop, profVars,
                 now, stopVars, cancel, started, firedAt, cancelled, finished>>

ThreadTask(w) ==
  /\ pc[w] = "check" /\ ~stop /\ ~TimerDue /\ queue # <<>>
  /\ job' = [job EXCEPT ![w] = Head(queue)]
  /\ started' = Append(started, Head(queue))
  /\ queue' = Tail(queue)
  /\ pending' = pending - 1
  /\ pc' = [pc EXCEPT ![w] = "run"]
  /\ deadline' = [deadline EXCEPT ![w] = 0]
  /\ UNCHANGED <<accepted, timerVars, running, stop, profVars, now,
                 stopVars, cancel, firedAt, cancelled, finished>>

\* The task returns and task_count_++ reads its operand, without the mutex.
TaskReturns(w) ==
  /\ pc[w] = "run"
  /\ finished' = finished \cup {job[w]}
  /\ reg' = [reg EXCEPT ![w] = count]
  /\ pc' = [pc EXCEPT ![w] = "count"]
  /\ UNCHANGED <<job, deadline, queueVars, timerVars, running, stop, count, now,
                 stopVars, cancel, started, firedAt, cancelled>>

TaskCounted(w) ==
  /\ pc[w] = "count"
  /\ count' = IF reg[w] < MaxCount THEN reg[w] + 1 ELSE MaxCount
  /\ pc' = [pc EXCEPT ![w] = "relock"]
  /\ UNCHANGED <<job, deadline, queueVars, timerVars, running, stop, reg, now,
                 stopVars, cancel, started, firedAt, cancelled, finished>>

\* mutex_.lock() after the task; a delayed task clears running_task_id_.
ClearRunning(w) == IF job[w] \in Ids THEN 0 ELSE running
Relock(w) ==
  /\ pc[w] = "relock"
  /\ running' = ClearRunning(w)
  /\ job' = [job EXCEPT ![w] = NoTask]
  /\ pc' = [pc EXCEPT ![w] = "check"]
  /\ UNCHANGED <<deadline, queueVars, timerVars, stop, profVars, now, stopVars,
                 cancel, started, firedAt, cancelled, finished>>

\* A timed wait ends at its deadline; either wait may end spuriously.
WaitTimeout(w) ==
  /\ pc[w] = "timed" /\ now >= deadline[w]
  /\ pc' = [pc EXCEPT ![w] = "check"]
  /\ UNCHANGED <<job, deadline, queueVars, timerVars, running, stop, profVars,
                 now, stopVars, cancel, started, firedAt, cancelled, finished>>

SpuriousWakeup(w) ==
  /\ pc[w] \in {"wait", "timed"}
  /\ pc' = [pc EXCEPT ![w] = "check"]
  /\ UNCHANGED <<job, deadline, queueVars, timerVars, running, stop, profVars,
                 now, stopVars, cancel, started, firedAt, cancelled, finished>>

ThreadProc(w) ==
  \/ ThreadWait(w) \/ ThreadExit(w) \/ ThreadTimer(w) \/ ThreadTimedWait(w)
  \/ ThreadTask(w) \/ TaskReturns(w) \/ TaskCounted(w) \/ Relock(w)
  \/ WaitTimeout(w)

Stopper == StopPoll \/ StopSet \/ StopJoined

Next ==
  \/ Tick \/ Start \/ Stopper \/ CancelStep \/ ProfilingLog
  \/ \E wait \in BOOLEAN : StopCall(wait)
  \/ \E t \in Normal : AddTask(t)
  \/ \E t \in Urgent : AddPriorityTask(t)
  \/ \E delay \in Delays : DelayTask(delay)
  \/ \E id \in Ids, nb \in Cancels : CancelTask(id, nb)
  \/ \E w \in Threads : ThreadProc(w) \/ SpuriousWakeup(w)

Spec == Init /\ [][Next]_vars

\* Time passes, threads that can run are run and tasks return; a client that
\* has entered Stop or CancelTask goes on.
FairSpec ==
  /\ Spec
  /\ WF_vars(Tick)
  /\ \A w \in Threads : WF_vars(ThreadProc(w))
  /\ WF_vars(Stopper) /\ WF_vars(CancelStep)

-----------------------------------------------------------------------------
(* Properties.                                                             *)

TypeOK ==
  /\ pc \in [Threads -> {"none", "check", "wait", "timed", "run", "count",
                         "relock", "exited"}]
  /\ job \in [Threads -> Tasks \cup Ids \cup {NoTask}]
  /\ queue \in Seq(Tasks) /\ pending \in 0 .. Cardinality(Tasks)
  /\ \A a \in heap : a.id \in Ids /\ a.exe \in Nat
  /\ latest \subseteq Ids /\ lastId \in 0 .. MaxDelayed
  /\ running \in 0 .. MaxDelayed
  /\ stop \in BOOLEAN /\ now \in 0 .. MaxTime
  /\ spc \in {"idle", "poll", "stop", "join"}
  /\ cancelled \subseteq Ids /\ finished \subseteq Tasks \cup Ids

\* The three structures agree: pending_num_, which Stop polls without the
\* lock, counts the deque, and every task in latest_ is still in the heap.
Bookkeeping ==
  /\ pending = Len(queue)
  /\ \A id \in latest : \E a \in heap : a.id = id

\* Every delayed task has exactly one fate: it waits, it was started (once),
\* or CancelTask took it; one for which CancelTask returned true never runs.
DelayedOnce ==
  \A id \in 1 .. lastId :
    LET runs == Cardinality({k \in 1 .. Len(started) : started[k] = id})
    IN  runs + (IF id \in latest THEN 1 ELSE 0)
             + (IF id \in cancelled THEN 1 ELSE 0) = 1

\* Tasks of AddTask start once and in the order they were added, whatever
\* priority and delayed tasks overtake them.
NormalInOrder ==
  /\ \A k \in DOMAIN started :
       started[k] \in Normal => /\ started[k] \in Elements(accepted)
                               /\ \A l \in DOMAIN started : started[k] = started[l] => k = l
  /\ \A i, j \in DOMAIN accepted, l \in DOMAIN started :
       /\ i < j /\ accepted[i] \in Normal /\ accepted[j] \in Normal
       /\ started[l] = accepted[j]
       => \E k \in 1 .. l - 1 : started[k] = accepted[i]

\* A delayed task runs at most the rounding of one millisecond early.
NotEarly == \A id \in Ids : id \in Elements(started) => firedAt[id] + TickMs > exeOf[id]

Live == \E w \in Threads : pc[w] \notin {"none", "exited"}
Awake(w) == pc[w] \in {"check", "run", "count", "relock"}

\* One signal per added task is enough: queued tasks always have a thread
\* that is awake.
TaskWatched == Live /\ ~stop /\ queue # <<>> => \E w \in Threads : Awake(w)

\* One signal per delayed task is enough: the earliest deadline always has a
\* thread that is awake or whose timed wait ends in time for it.
TimerWatched ==
  Live /\ ~stop /\ heap # {}
    => \E w \in Threads :
         Awake(w) \/ (pc[w] = "timed" /\ deadline[w] <= Top(heap).exe)

\* What BGThreadPool keeps count of, between critical sections.
Accounted == TypeOK /\ Bookkeeping /\ DelayedOnce /\ NormalInOrder /\ NotEarly

\* Whatever may run has a thread that will see it.
Watched == TaskWatched /\ TimerWatched

\* Stop(true) returns only when the tasks that were pending at the call have
\* returned.
StopWaitsForPending ==
  [][spc = "join" /\ spc' = "idle" => awaited \subseteq finished]_vars

\* Stop returns once the running tasks do, unless Stop(true) is called for a
\* pool that has tasks and no threads.
StopReturns == spc # "idle" /\ Live ~> spc = "idle"

\* A delayed task is started or cancelled, unless the pool is stopped.
DelayedTaskRuns ==
  \A id \in Ids : id \in latest /\ Live ~> id \notin latest \/ stop

\* "Cancel a delayed task: if running, wait if non_block==false": when a
\* blocking CancelTask returns, the task is not running.
CancelCovered ==
  cancel # NoCancel /\ cancel' = NoCancel /\ ~cancel.nb
    => \A w \in Threads : ~(pc[w] = "run" /\ job[w] = cancel.id)
CancelWaits == [][CancelCovered]_vars

=============================================================================
