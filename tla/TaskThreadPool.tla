--------------------------- MODULE TaskThreadPool ---------------------------
(***************************************************************************)
(* TaskThreadPool of util/threadpool_util.h: RunTask queues a task, main_  *)
(* loop runs it, WaitWorkComplete waits until the pool is idle, the        *)
(* destructor stops the threads.  Every section under mutex_ is one        *)
(* action.  The wait of main_loop is on condition_, that of the clients on *)
(* completed_.                                                             *)
(***************************************************************************)
EXTENDS Integers, Sequences, FiniteSets

CONSTANTS
  N,       \* pool_size
  Tasks,   \* tasks clients run, each at most once
  Waiters  \* clients that call WaitWorkComplete, at most once each

TaskPoolAssumption == N \in Nat \ {0}

Threads == 1 .. N

VARIABLES
  pc,        \* what each pool thread does
  queue,     \* tasks_
  available, \* available_
  complete,  \* complete_
  running,   \* running_
  cpc,       \* what each waiting client does
  dpc,       \* what the destructor does
  added,     \* history: the tasks of RunTask, in order
  taken,     \* history: the tasks taken by threads, in order
  before     \* history: the tasks added before each client began to wait

vars == <<pc, queue, available, complete, running, cpc, dpc, added, taken, before>>

Range(s) == {s[k] : k \in 1 .. Len(s)}
InPool == dpc = "none"

\* condition_.notify_one() and notify_all(), completed_.notify_one().
Sleeping(p) == {x \in DOMAIN p : p[x] = "wait"}
NotifyOne(p) ==
  IF Sleeping(p) = {} THEN {p} ELSE {[p EXCEPT ![x] = "check"] : x \in Sleeping(p)}
NotifyAll(p) == [x \in DOMAIN p |-> IF p[x] = "wait" THEN "check" ELSE p[x]]

RunNotify(p, q) == NotifyOne(p)
StopNotify(p) == NotifyAll(p)
CompletedNotify(p) == NotifyOne(p)

BackAgain(avail) == avail + 1

\* The pool is complete when the queue is empty and every thread is back.
AllIdle(q, avail) == q = <<>> /\ avail = N
StaysComplete(b) == b                                                 \* fault
NotComplete(b) == FALSE

Init ==
  /\ pc = [w \in Threads |-> "check"]
  /\ queue = <<>> /\ available = N
  /\ complete = TRUE /\ running = TRUE
  /\ cpc = [c \in Waiters |-> "none"]
  /\ dpc = "none"
  /\ added = <<>> /\ taken = <<>>
  /\ before = [c \in Waiters |-> {}]

\* RunTask and RunTaskWithID, which differ only in the task's argument.
RunTask(t) ==
  /\ InPool /\ t \notin Range(added)
  /\ queue' = Append(queue, t)
  /\ complete' = NotComplete(complete)
  /\ pc' \in RunNotify(pc, queue)
  /\ added' = Append(added, t)
  /\ UNCHANGED <<available, running, cpc, dpc, taken, before>>

WaitWorkComplete(c) ==
  /\ InPool /\ cpc[c] = "none"
  /\ cpc' = [cpc EXCEPT ![c] = "check"]
  /\ before' = [before EXCEPT ![c] = Range(added)]
  /\ UNCHANGED <<pc, queue, available, complete, running, dpc, added, taken>>

\* The loop of WaitWorkComplete: leave, or block on completed_.
ClientStep(c) ==
  /\ cpc[c] = "check"
  /\ cpc' = [cpc EXCEPT ![c] = IF complete THEN "done" ELSE "wait"]
  /\ UNCHANGED <<pc, queue, available, complete, running, dpc, added, taken, before>>

\* The destructor; a client must not be waiting in the pool it destroys.
Destroy ==
  /\ InPool /\ \A c \in Waiters : cpc[c] \in {"none", "done"}
  /\ running' = FALSE
  /\ pc' = StopNotify(pc)
  /\ dpc' = "join"
  /\ UNCHANGED <<queue, available, complete, cpc, added, taken, before>>

Destroyed ==
  /\ dpc = "join" /\ \A w \in Threads : pc[w] = "exited"
  /\ dpc' = "done"
  /\ UNCHANGED <<pc, queue, available, complete, running, cpc, added, taken, before>>

-----------------------------------------------------------------------------
(* main_loop.                                                              *)

ThreadWait(w) ==
  /\ pc[w] = "check" /\ running /\ queue = <<>>
  /\ pc' = [pc EXCEPT ![w] = "wait"]
  /\ UNCHANGED <<queue, available, complete, running, cpc, dpc, added, taken, before>>

\* Leaving at the head of the loop or after the wait is the same to others.
ThreadExit(w) ==
  /\ pc[w] = "check" /\ ~running
  /\ pc' = [pc EXCEPT ![w] = "exited"]
  /\ UNCHANGED <<queue, available, complete, running, cpc, dpc, added, taken, before>>

ThreadTake(w) ==
  /\ pc[w] = "check" /\ running /\ queue # <<>>
  /\ taken' = Append(taken, Head(queue))
  /\ queue' = Tail(queue)
  /\ available' = available - 1
  /\ pc' = [pc EXCEPT ![w] = "run"]
  /\ UNCHANGED <<complete, running, cpc, dpc, added, before>>

\* The task has returned or thrown; the thread locks again.
ThreadFinish(w) ==
  /\ pc[w] = "run"
  /\ available' = BackAgain(available)
  /\ pc' = [pc EXCEPT ![w] = "check"]
  /\ IF AllIdle(queue, available')
       THEN complete' = TRUE /\ cpc' \in CompletedNotify(cpc)
       ELSE UNCHANGED <<complete, cpc>>
  /\ UNCHANGED <<queue, running, dpc, added, taken, before>>

main_loop(w) == ThreadWait(w) \/ ThreadExit(w) \/ ThreadTake(w) \/ ThreadFinish(w)

SpuriousWakeup ==
  \/ /\ \E w \in Threads : pc[w] = "wait" /\ pc' = [pc EXCEPT ![w] = "check"]
     /\ UNCHANGED <<queue, available, complete, running, cpc, dpc, added, taken, before>>
  \/ /\ \E c \in Waiters : cpc[c] = "wait" /\ cpc' = [cpc EXCEPT ![c] = "check"]
     /\ UNCHANGED <<pc, queue, available, complete, running, dpc, added, taken, before>>

Next ==
  \/ \E t \in Tasks : RunTask(t)
  \/ \E c \in Waiters : WaitWorkComplete(c) \/ ClientStep(c)
  \/ Destroy \/ Destroyed
  \/ \E w \in Threads : main_loop(w)
  \/ SpuriousWakeup

Spec == Init /\ [][Next]_vars

\* Threads and clients that can run are run, and tasks return.
FairSpec ==
  /\ Spec
  /\ \A w \in Threads : WF_vars(main_loop(w))
  /\ \A c \in Waiters : WF_vars(ClientStep(c))
  /\ WF_vars(Destroyed)

-----------------------------------------------------------------------------
(* Properties.                                                             *)

TypeOK ==
  /\ pc \in [Threads -> {"check", "wait", "run", "exited"}]
  /\ available \in 0 .. N
  /\ queue \in Seq(Tasks)
  /\ complete \in BOOLEAN /\ running \in BOOLEAN
  /\ cpc \in [Waiters -> {"none", "check", "wait", "done"}]
  /\ dpc \in {"none", "join", "done"}

\* available_ counts the threads that are not running a task, and complete_
\* is true exactly when nothing is queued and nothing runs.
CompleteExact ==
  /\ available = N - Cardinality({w \in Threads : pc[w] = "run"})
  /\ complete <=> queue = <<>> /\ available = N

\* When WaitWorkComplete returns, the tasks added before it was called have
\* been taken and the threads that took them are back.
WaitCoversEarlierTasks ==
  [][\A c \in Waiters : cpc[c] = "check" /\ cpc'[c] = "done"
       => before[c] \subseteq Range(taken) /\ \A w \in Threads : pc[w] # "run"]_vars

\* One notify_one per task is enough to keep a thread awake for queued tasks.
TaskWatched ==
  running /\ queue # <<>> => \E w \in Threads : pc[w] \in {"check", "run"}

\* The destructor returns once the tasks that are running return.
DestroyReturns == dpc = "join" ~> dpc = "done"

\* "Wait for queue to be empty": a client in WaitWorkComplete gets out, since
\* only finitely many tasks are added.
WaitReturns == \A c \in Waiters : cpc[c] # "none" ~> cpc[c] = "done"

=============================================================================
