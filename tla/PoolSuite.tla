----------------------------- MODULE PoolSuite ------------------------------
(***************************************************************************)
(* The thread pools of util/threadpool_util.h, model checked together.     *)
(* The pools share nothing, so a behaviour picks one instance (focus) and  *)
(* only that instance steps: TLC explores the sum of the state spaces, not *)
(* their product.  The variables of ThreadPoolImpl carry the prefix i_; the *)
(* jobs of one tag have unschedule functions, so that UnSchedule can remove *)
(* several jobs and spare others.  BGThreadPool has four instances         *)
(* over the same variables: several threads with tasks only ("tasks"), one *)
(* thread with delayed tasks, both forms of CancelTask and profiling       *)
(* ("cancels"), several threads with a timer that expires and may be       *)
(* cancelled ("timers"), and several threads with two timers of different  *)
(* delays ("deadlines").                                                   *)
(***************************************************************************)
EXTENDS Integers, Sequences

CONSTANTS
  Parts,          \* the instances to check
  PoolJobs, WithUnsched, \* ThreadPoolImpl: jobs, those with unschedule functions,
  PoolThreads,    \*   the largest argument of SetBackgroundThreads,
  PoolKinds,      \*   the priorities that are lowered
  PoolJoinModes,  \*   and the forms of JoinThreads that are called
  Jobs,           \* PosixFixedThreadPool: the work items
  MaxThreads,     \*   and the number of threads
  a1, a2, u1,     \* BGThreadPool: tasks, model values unlike any task id
  NoTask,         \*   and no task
  ClientTasks, Waiters, \* TaskThreadPool: tasks and clients that wait
  TaskThreads,    \*   and the number of threads
  AsyncTasks, AsyncWaiters, AsyncThreads, \* the same of TaskAsyncThreadPool
  SimpleThreads   \* SimpleThreadPool: the number of threads

VARIABLES focus,
  \* ThreadPoolImpl
  i_limit, i_size, i_queue, i_queueLen, i_exitAll, i_waitJobs, i_low, i_pc, i_job, i_lowered,
  i_jpc, i_jidx, i_jend, i_accepted, i_started, i_cancelled, i_unsched, i_undone, i_dropped,
  \* PosixFixedThreadPool
  f_pc, numThreads, bgthreads, shutDown, paused, f_queue, f_accepted, f_started,
  \* BGThreadPool
  pc, job, deadline, queue, pending, heap, latest, lastId, running, stop,
  count, reg, now, spc, cancel, accepted, started, firedAt, exeOf, cancelled,
  finished, awaited,
  \* TaskThreadPool
  t_pc, t_queue, t_available, complete, t_running, t_cpc, t_dpc, added, t_taken, t_before,
  \* TaskAsyncThreadPool
  a_pc, a_queue, available, a_running, rpc, cpc, dpc, taken, before,
  \* SimpleThreadPool
  signaled, s_pc, mpc, at, misled

implVars == <<i_limit, i_size, i_queue, i_queueLen, i_exitAll, i_waitJobs, i_low, i_pc, i_job, i_lowered,
              i_jpc, i_jidx, i_jend, i_accepted, i_started, i_cancelled, i_unsched, i_undone, i_dropped>>
fixedVars == <<f_pc, numThreads, bgthreads, shutDown, paused, f_queue, f_accepted, f_started>>
bgVars == <<pc, job, deadline, queue, pending, heap, latest, lastId, running, stop,
            count, reg, now, spc, cancel, accepted, started, firedAt, exeOf, cancelled,
            finished, awaited>>
taskVars == <<t_pc, t_queue, t_available, complete, t_running, t_cpc, t_dpc, added, t_taken,
              t_before>>
asyncVars == <<a_pc, a_queue, available, a_running, rpc, cpc, dpc, taken, before>>
simpleVars == <<signaled, s_pc, mpc, at, misled>>
vars == <<focus, implVars, fixedVars, bgVars, taskVars, asyncVars, simpleVars>>

-----------------------------------------------------------------------------

ImplTag == [j \in PoolJobs |-> IF j \in WithUnsched THEN "t1" ELSE "t2"]
ImplPool == INSTANCE ThreadPoolImplProofs WITH
  Jobs <- PoolJobs, Tag <- ImplTag, HasUnsched <- WithUnsched, MaxThreads <- PoolThreads,
  Kinds <- PoolKinds, JoinModes <- PoolJoinModes, NoJob <- NoTask,
  limit <- i_limit, size <- i_size, queue <- i_queue, queueLen <- i_queueLen, exitAll <- i_exitAll,
  waitJobs <- i_waitJobs, low <- i_low, pc <- i_pc, job <- i_job, lowered <- i_lowered,
  jpc <- i_jpc, jidx <- i_jidx, jend <- i_jend, accepted <- i_accepted, started <- i_started,
  cancelled <- i_cancelled, unsched <- i_unsched, undone <- i_undone, dropped <- i_dropped

FixedPool == INSTANCE PosixFixedThreadPool WITH
  pc <- f_pc, queue <- f_queue, accepted <- f_accepted, started <- f_started

BGTasks == INSTANCE BGThreadPoolProofs WITH
  N <- 2, Normal <- {a1, a2}, Urgent <- {u1}, MaxDelayed <- 0, Delays <- {},
  TickMs <- 2, MaxTime <- 0, MaxCount <- 0, Cancels <- {}
BGCancels == INSTANCE BGThreadPoolProofs WITH
  N <- 1, Normal <- {a1}, Urgent <- {}, MaxDelayed <- 2, Delays <- {0},
  TickMs <- 2, MaxTime <- 0, MaxCount <- 1, Cancels <- BOOLEAN
BGTimers == INSTANCE BGThreadPoolProofs WITH
  N <- 2, Normal <- {a1}, Urgent <- {}, MaxDelayed <- 1, Delays <- {1},
  TickMs <- 2, MaxTime <- 2, MaxCount <- 0, Cancels <- {FALSE}
BGDeadlines == INSTANCE BGThreadPoolProofs WITH
  N <- 2, Normal <- {a1}, Urgent <- {}, MaxDelayed <- 2, Delays <- {1, 2},
  TickMs <- 2, MaxTime <- 4, MaxCount <- 0, Cancels <- {}

TaskPool == INSTANCE TaskThreadPool WITH
  N <- TaskThreads, Tasks <- ClientTasks,
  pc <- t_pc, queue <- t_queue, available <- t_available, running <- t_running,
  cpc <- t_cpc, dpc <- t_dpc, taken <- t_taken, before <- t_before
AsyncPool == INSTANCE TaskAsyncThreadPool WITH
  N <- AsyncThreads, Tasks <- AsyncTasks, Waiters <- AsyncWaiters,
  pc <- a_pc, queue <- a_queue, running <- a_running
SimplePool == INSTANCE SimpleThreadPool WITH
  N <- SimpleThreads, Wait <- TRUE, pc <- s_pc

ASSUME PoolSuiteAssumption ==
  /\ ImplPool!ThreadPoolAssumption /\ FixedPool!FixedPoolAssumption
  /\ BGTasks!BGPoolAssumption /\ BGCancels!BGPoolAssumption /\ BGTimers!BGPoolAssumption
  /\ BGDeadlines!BGPoolAssumption
  /\ TaskPool!TaskPoolAssumption /\ AsyncPool!AsyncPoolAssumption
  /\ SimplePool!SimplePoolAssumption

-----------------------------------------------------------------------------

Init ==
  /\ focus \in Parts
  /\ ImplPool!Init
  /\ FixedPool!Init /\ (focus # "fixed" => numThreads = 0)
  /\ IF focus = "timers" THEN BGTimers!Init
     ELSE IF focus = "deadlines" THEN BGDeadlines!Init
     ELSE IF focus = "cancels" THEN BGCancels!Init ELSE BGTasks!Init
  /\ TaskPool!Init /\ AsyncPool!Init /\ SimplePool!Init

Next ==
  /\ UNCHANGED focus
  /\ IF focus = "impl" THEN ImplPool!Next ELSE UNCHANGED implVars
  /\ IF focus = "fixed" THEN FixedPool!Next ELSE UNCHANGED fixedVars
  /\ IF focus = "tasks" THEN BGTasks!Next
     ELSE IF focus = "cancels" THEN BGCancels!Next
     ELSE IF focus = "deadlines" THEN BGDeadlines!Next
     ELSE IF focus = "timers" THEN BGTimers!Next ELSE UNCHANGED bgVars
  /\ IF focus = "task" THEN TaskPool!Next ELSE UNCHANGED taskVars
  /\ IF focus = "async" THEN AsyncPool!Next ELSE UNCHANGED asyncVars
  /\ IF focus = "simple" THEN SimplePool!Next ELSE UNCHANGED simpleVars

Spec == Init /\ [][Next]_vars

\* The fairness of the components' own FairSpecs: whoever can run is run in
\* the end, tasks return, a client inside a call goes on, time passes; no
\* client is obliged to call anything.  TaskAsyncThreadPool's threads contend
\* for mutex_ with others that keep coming back, hence strong fairness.
FairSpec ==
  /\ Spec
  /\ \A i \in ImplPool!Slots : WF_implVars(focus = "impl" /\ ImplPool!BGThread(i))
  /\ WF_implVars(focus = "impl" /\ ImplPool!Joiner)
  /\ \A w \in FixedPool!Threads : WF_fixedVars(focus = "fixed" /\ FixedPool!BGThread(w))
  /\ WF_fixedVars(focus = "fixed" /\ (FixedPool!DestroyWait \/ FixedPool!DestroyDone))
  /\ \A w \in BGTimers!Threads : WF_bgVars(focus = "timers" /\ BGTimers!ThreadProc(w))
  /\ WF_bgVars(focus = "timers" /\ BGTimers!Tick)
  /\ WF_bgVars(focus = "timers" /\ BGTimers!Stopper)
  /\ WF_bgVars(focus = "timers" /\ BGTimers!CancelStep)
  /\ \A w \in TaskPool!Threads : WF_taskVars(focus = "task" /\ TaskPool!main_loop(w))
  /\ \A c \in Waiters : WF_taskVars(focus = "task" /\ TaskPool!ClientStep(c))
  /\ WF_taskVars(focus = "task" /\ TaskPool!Destroyed)
  /\ \A w \in AsyncPool!Threads : SF_asyncVars(focus = "async" /\ AsyncPool!TaskLoop(w))
  /\ \A t \in AsyncTasks : WF_asyncVars(focus = "async" /\ AsyncPool!RunNotified(t))
  /\ \A c \in AsyncWaiters : SF_asyncVars(focus = "async" /\ AsyncPool!WaitStep(c))
  /\ WF_asyncVars(focus = "async" /\ AsyncPool!Destructor)
  /\ WF_simpleVars(focus = "simple" /\ SimplePool!Owner)
  /\ \A w \in SimplePool!Threads : WF_simpleVars(focus = "simple" /\ SimplePool!Worker(w))

-----------------------------------------------------------------------------
(* The components' properties, in the instances above, gathered by the     *)
(* promise they make.                                                      *)

OtherTypes ==
  focus \in Parts /\ FixedPool!TypeOK /\ TaskPool!TypeOK /\ AsyncPool!TypeOK /\ SimplePool!TypeOK

\* Every pool's variables stay within their types: among others available_
\* and num_pool_threads_ within the bounds of what they count, and the limit
\* of ThreadPoolImpl although SetBackgroundThreads is called with -1.
TypeOK == ImplPool!TypeOK /\ OtherTypes

\* bgthreads_ of ThreadPoolImpl has no holes while threads are started, leave
\* and are joined: a thread_id is the index of its thread.
ThreadsContiguous == ImplPool!ThreadsContiguous

\* In ThreadPoolImpl whoever is needed is awake: a thread that may take the
\* queued jobs, the thread that has to terminate next, and threads being joined.
NobodyNeededSleeps == ImplPool!NobodyNeededSleeps

\* Every job submitted to ThreadPoolImpl is queued, was started once, in order,
\* or was unscheduled, and queue_len_ follows; a job that had not started when
\* JoinAllThreads was called stays queued (the run joinall_discard).
JobsAccounted == ImplPool!JobsAccounted

\* JoinAllThreads never joins a thread object that is gone; the form that waits
\* for jobs can, because threads above the limit leave while it joins.
JoinAllNeverThrows == ImplPool!JoinAllNeverThrows

\* No pool leaves work to threads that all sleep, however sparing it is with
\* its signals: PosixFixedThreadPool broadcasts only for the first item of an
\* empty queue; BGThreadPool signals once per task or timer, and the earliest
\* deadline has a thread that is awake or whose timed wait ends in time for
\* it; TaskThreadPool and TaskAsyncThreadPool call notify_one, the latter
\* after unlocking.
TasksWatched ==
  /\ FixedPool!NoSleeperWithWork
  /\ (focus = "tasks") => BGTasks!Watched
  /\ (focus = "cancels") => BGCancels!Watched
  /\ (focus = "timers") => BGTimers!Watched
  /\ (focus = "deadlines") => BGDeadlines!Watched
  /\ TaskPool!TaskWatched
  /\ AsyncPool!TaskWatched

\* The pools' counters are exact between critical sections, and every task
\* has one fate, in order: bgthreads_ of PosixFixedThreadPool counts the
\* threads that have not left, none of which outlives the pool; pending_num_
\* of BGThreadPool counts its deque, a delayed task waits, is started once or
\* is cancelled, and is started at most a millisecond's rounding early;
\* complete_ of TaskThreadPool is true exactly when nothing is queued or runs;
\* WaitForReady of SimpleThreadPool has seen every thread when it returns, but
\* for those whose wait, an if, was ended by a spurious wakeup.
TasksAccounted ==
  /\ OtherTypes
  /\ FixedPool!ThreadAccounting /\ FixedPool!NoThreadOutlivesPool /\ FixedPool!FifoExactlyOnce
  /\ (focus = "tasks") => BGTasks!Accounted
  /\ (focus = "cancels") => BGCancels!Accounted
  /\ (focus = "timers") => BGTimers!Accounted
  /\ (focus = "deadlines") => BGDeadlines!Accounted
  /\ TaskPool!CompleteExact
  /\ SimplePool!AllReady

\* A call that promises to wait for tasks returns only when those it promised
\* to cover have returned: BGThreadPool::Stop(true) the tasks pending at the
\* call, CancelTask(id, false) of a pool with one thread the task it names,
\* WaitWorkComplete and Wait the tasks added before.
CallsCoverEarlierTasks ==
  /\ BGTasks!StopWaitsForPending
  /\ [][focus = "cancels" => BGCancels!CancelCovered]_vars
  /\ TaskPool!WaitCoversEarlierTasks
  /\ AsyncPool!WaitCoversEarlierTasks

\* Destructors, Stop, Wait, WaitWorkComplete and the constructor's
\* WaitForReady return once the tasks they wait for do: paused pools and pools
\* that never started included, with any number of clients in
\* TaskAsyncThreadPool::Wait and one in WaitWorkComplete.
CallsReturn ==
  /\ (focus = "fixed") => FixedPool!DestroyCompletes
  /\ (focus = "timers") => BGTimers!StopReturns
  /\ (focus = "task") => TaskPool!DestroyReturns
  /\ (focus = "task") => TaskPool!WaitReturns
  /\ (focus = "async") => AsyncPool!WaitReturns
  /\ (focus = "simple") => SimplePool!ReadyReached

\* ThreadPoolImpl with fair threads and jobs that return follows its limit,
\* JoinAllThreads returns, WaitForJobsAndJoinAllThreads returns or throws, and
\* queued jobs are taken while the pool has threads.
PoolProgresses == (focus = "impl") => ImplPool!PoolProgresses

\* Work that was accepted is started in the end, unless its pool is paused or
\* destroyed or the task is cancelled first.
TasksRun ==
  /\ (focus = "fixed") => FixedPool!QueuedWorkRuns
  /\ (focus = "timers") => BGTimers!DelayedTaskRuns
  /\ (focus = "async") => AsyncPool!TasksRun

=============================================================================
