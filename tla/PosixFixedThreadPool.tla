------------------------ MODULE PosixFixedThreadPool ------------------------
(***************************************************************************)
(* PosixFixedThreadPool of util/threadpool_util.cpp: a fixed number of     *)
(* threads, started eagerly or by the first Schedule, one deque of work,   *)
(* Pause/Resume, and a destructor that waits until the threads are gone.   *)
(*                                                                         *)
(* mu_ is held by every step, and bg_cv_ is shared by the threads and the  *)
(* destructor: process 0 is the thread that destroys the pool, 1 .. N are  *)
(* the background threads.  A process that is blocked in bg_cv_.wait is    *)
(* "wait", one on its way to evaluate its loop condition is "check".       *)
(***************************************************************************)
EXTENDS Integers, Sequences, FiniteSets

CONSTANTS
  Jobs,       \* the work items clients schedule, each at most once
  MaxThreads  \* max_threads_

FixedPoolAssumption == MaxThreads \in Nat \ {0}

Threads == 1 .. MaxThreads
Procs == 0 .. MaxThreads

VARIABLES
  pc,          \* what each process is doing
  numThreads,  \* num_pool_threads_
  bgthreads,   \* bgthreads_, as the set of its threads
  shutDown,    \* shutting_down_
  paused,      \* paused_
  queue,       \* queue_
  accepted,    \* history: the work items queued, in order
  started      \* history: the work items taken by threads, in order

vars == <<pc, numThreads, bgthreads, shutDown, paused, queue, accepted, started>>

-----------------------------------------------------------------------------

\* bg_cv_.broadcast()
Broadcast(p) == [w \in Procs |-> IF p[w] = "wait" THEN "check" ELSE p[w]]

\* InitPool starts the threads that are missing and counts them.
InitPool(p) == [w \in Procs |-> IF w # 0 /\ p[w] = "none" THEN "check" ELSE p[w]]

StartMissing(n) == MaxThreads

\* bgthreads_.erase(it) of the thread that leaves.
EraseEntry(ths, w) == ths \ {w}

\* Schedule broadcasts only when the queue was empty.
ScheduleBroadcast(p, q) == IF q = <<>> THEN Broadcast(p) ELSE p

ResumeQuietly(p) == p                                                 \* fault
ResumeBroadcast(p) == Broadcast(p)

ExitBroadcast(p) == Broadcast(p)

PushBack(q, j) == Append(q, j)

\* The destructor's loop ends when no thread is left.
AllThreadsLeft(n) == n = 0

\* eager is the constructor's eager_init: start the threads at once.
Init ==
  /\ \E eager \in BOOLEAN :
       /\ pc = [w \in Procs |-> IF w # 0 /\ eager THEN "check" ELSE "none"]
       /\ numThreads = IF eager THEN MaxThreads ELSE 0
       /\ bgthreads = IF eager THEN Threads ELSE {}
  /\ shutDown = FALSE
  /\ paused = FALSE
  /\ queue = <<>>
  /\ accepted = <<>> /\ started = <<>>

Schedule(j) ==
  /\ ~shutDown
  /\ \A k \in 1 .. Len(accepted) : accepted[k] # j
  /\ pc' = ScheduleBroadcast(InitPool(pc), queue)
  /\ numThreads' = StartMissing(numThreads)
  /\ bgthreads' = bgthreads \cup {w \in Threads : pc[w] = "none"}
  /\ queue' = PushBack(queue, j)
  /\ accepted' = Append(accepted, j)
  /\ UNCHANGED <<shutDown, paused, started>>

Pause ==
  /\ pc[0] # "done"
  /\ paused' = TRUE
  /\ UNCHANGED <<pc, numThreads, bgthreads, shutDown, queue, accepted, started>>

Resume ==
  /\ pc[0] # "done"
  /\ paused' = FALSE
  /\ pc' = ResumeBroadcast(pc)
  /\ UNCHANGED <<numThreads, bgthreads, shutDown, queue, accepted, started>>

\* The destructor up to its first evaluation of the loop condition.
Destroy ==
  /\ pc[0] = "none"
  /\ shutDown' = TRUE
  /\ pc' = [Broadcast(pc) EXCEPT ![0] = "check"]
  /\ UNCHANGED <<numThreads, bgthreads, paused, queue, accepted, started>>

DestroyWait ==
  /\ pc[0] = "check" /\ ~AllThreadsLeft(numThreads)
  /\ pc' = [pc EXCEPT ![0] = "wait"]
  /\ UNCHANGED <<numThreads, bgthreads, shutDown, paused, queue, accepted, started>>

\* The end of the destructor; bgthreads_.clear() after its assertion.
DestroyDone ==
  /\ pc[0] = "check" /\ AllThreadsLeft(numThreads)
  /\ pc' = [pc EXCEPT ![0] = "done"]
  /\ bgthreads' = {}
  /\ UNCHANGED <<numThreads, shutDown, paused, queue, accepted, started>>

-----------------------------------------------------------------------------
(* BGThread.                                                               *)

MustWait == ~shutDown /\ (paused \/ queue = <<>>)

BGWait(w) ==
  /\ pc[w] = "check" /\ MustWait
  /\ pc' = [pc EXCEPT ![w] = "wait"]
  /\ UNCHANGED <<numThreads, bgthreads, shutDown, paused, queue, accepted, started>>

\* A thread that sees shutting_down_ removes itself and broadcasts.
BGExit(w) ==
  /\ pc[w] = "check" /\ shutDown
  /\ bgthreads' = EraseEntry(bgthreads, w)
  /\ numThreads' = numThreads - 1
  /\ pc' = ExitBroadcast([pc EXCEPT ![w] = "exited"])
  /\ UNCHANGED <<shutDown, paused, queue, accepted, started>>

BGTake(w) ==
  /\ pc[w] = "check" /\ ~MustWait /\ ~shutDown
  /\ started' = Append(started, Head(queue))
  /\ queue' = Tail(queue)
  /\ pc' = [pc EXCEPT ![w] = "run"]
  /\ UNCHANGED <<numThreads, bgthreads, shutDown, paused, accepted>>

BGFinish(w) ==
  /\ pc[w] = "run"
  /\ pc' = [pc EXCEPT ![w] = "check"]
  /\ UNCHANGED <<numThreads, bgthreads, shutDown, paused, queue, accepted, started>>

BGThread(w) == BGWait(w) \/ BGExit(w) \/ BGTake(w) \/ BGFinish(w)

\* bg_cv_.wait may return without a notification.
SpuriousWakeup(w) ==
  /\ pc[w] = "wait"
  /\ pc' = [pc EXCEPT ![w] = "check"]
  /\ UNCHANGED <<numThreads, bgthreads, shutDown, paused, queue, accepted, started>>

Next ==
  \/ \E j \in Jobs : Schedule(j)
  \/ Pause \/ Resume
  \/ Destroy \/ DestroyWait \/ DestroyDone
  \/ \E w \in Threads : BGThread(w)
  \/ \E w \in Procs : SpuriousWakeup(w)

Spec == Init /\ [][Next]_vars

\* Threads that can run are run, work items return, and a destructor that has
\* been entered goes on; no client is obliged to call anything.
FairSpec ==
  /\ Spec
  /\ \A w \in Threads : WF_vars(BGThread(w))
  /\ WF_vars(DestroyWait \/ DestroyDone)

-----------------------------------------------------------------------------
(* Properties.                                                             *)

TypeOK ==
  /\ pc \in [Procs -> {"none", "check", "wait", "run", "exited", "done"}]
  /\ numThreads \in 0 .. MaxThreads
  /\ bgthreads \subseteq Threads
  /\ shutDown \in BOOLEAN /\ paused \in BOOLEAN
  /\ queue \in Seq(Jobs) /\ accepted \in Seq(Jobs) /\ started \in Seq(Jobs)

\* Broadcasting only for the first item of an empty queue is enough: while
\* there is work that may run, no thread sleeps on bg_cv_, and neither does
\* one after shutting_down_ was set.
NoSleeperWithWork == ~MustWait => \A w \in Threads : pc[w] # "wait"

\* num_pool_threads_ and bgthreads_ both count the threads that have not left
\* BGThread yet, so the destructor's assert(bgthreads_.size() == 0) holds.
ThreadAccounting ==
  /\ bgthreads = {w \in Threads : pc[w] \notin {"none", "exited"}}
  /\ numThreads = Cardinality(bgthreads)

\* When the destructor has returned no thread can touch the pool any more.
NoThreadOutlivesPool ==
  pc[0] = "done" => \A w \in Threads : pc[w] \in {"none", "exited"}

\* Every scheduled item is still queued or was started once, in the order of
\* the calls to Schedule, across Pause and Resume.
FifoExactlyOnce == accepted = started \o queue

\* The destructor comes back once the running work items do, also when the
\* pool is paused or was never started.
DestroyCompletes == shutDown ~> pc[0] = "done"

\* A queued item is taken unless the pool is paused or destroyed meanwhile.
QueuedWorkRuns ==
  \A n \in 1 .. Cardinality(Jobs) :
    Len(accepted) >= n ~> Len(started) >= n \/ paused \/ shutDown

=============================================================================
