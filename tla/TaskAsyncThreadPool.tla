------------------------ MODULE TaskAsyncThreadPool -------------------------
(***************************************************************************)
(* TaskAsyncThreadPool of util/threadpool_util.h.  Unlike TaskThreadPool   *)
(* it notifies after unlocking (Run) or without ever locking (the          *)
(* destructor), so the worker's wait(lock, predicate) is two steps here:   *)
(* the predicate is evaluated with mutex_ held ("blocking" when it was     *)
(* false), then the thread blocks and releases mutex_.  mutex_ is free     *)
(* when no thread is in "blocking".                                        *)
(***************************************************************************)
EXTENDS Integers, Sequences, FiniteSets

CONSTANTS
  N,          \* num_threads_
  Tasks,      \* tasks passed to Run, each by a client of its own
  Waiters     \* clients that call Wait, at most once each

AsyncPoolAssumption == N \in Nat \ {0}

Threads == 1 .. N

VARIABLES
  pc,        \* what each pool thread does
  queue,     \* tasks_
  available, \* available_
  running,   \* running_
  rpc,       \* where the client that runs each task is inside Run
  cpc,       \* what each waiting client does
  dpc,       \* what the destructor does
  taken,     \* history: the tasks taken by threads, in order
  before     \* history: the tasks pushed before each client called Wait

vars == <<pc, queue, available, running, rpc, cpc, dpc, taken, before>>

Range(s) == {s[k] : k \in 1 .. Len(s)}
Free == \A w \in Threads : pc[w] # "blocking"
InPool == dpc = "none"

Sleeping(p) == {x \in DOMAIN p : p[x] = "wait"}
NotifyOne(p) ==
  IF Sleeping(p) = {} THEN {p} ELSE {[p EXCEPT ![x] = "check"] : x \in Sleeping(p)}
NotifyAll(p) == [x \in DOMAIN p |-> IF p[x] = "wait" THEN "check" ELSE p[x]]

RunNotify(p, q) == NotifyOne(p)
CompletedNotifyOne(p) == NotifyOne(p)                                 \* fault
CompletedNotify(p) == {NotifyAll(p)}
Done(q, avail) == q = <<>> /\ avail = N
BackAgain(avail) == avail + 1

Init ==
  /\ pc = [w \in Threads |-> "check"]
  /\ queue = <<>> /\ available = N /\ running = TRUE
  /\ rpc = [t \in Tasks |-> "none"]
  /\ cpc = [c \in Waiters |-> "none"]
  /\ dpc = "none"
  /\ taken = <<>>
  /\ before = [c \in Waiters |-> {}]

-----------------------------------------------------------------------------
(* Clients.                                                                *)

Run(t) ==
  /\ InPool /\ Free /\ rpc[t] = "none"
  /\ queue' = Append(queue, t)
  /\ rpc' = [rpc EXCEPT ![t] = "notify"]
  /\ UNCHANGED <<pc, available, running, cpc, dpc, taken, before>>

\* scheduled_.notify_one() after lock.unlock().
RunNotified(t) ==
  /\ rpc[t] = "notify"
  /\ rpc' = [rpc EXCEPT ![t] = "done"]
  /\ pc' \in RunNotify(pc, queue)
  /\ UNCHANGED <<queue, available, running, cpc, dpc, taken, before>>

Wait(c) ==
  /\ InPool /\ cpc[c] = "none"
  /\ cpc' = [cpc EXCEPT ![c] = "check"]
  /\ before' = [before EXCEPT ![c] = {t \in Tasks : rpc[t] # "none"}]
  /\ UNCHANGED <<pc, queue, available, running, rpc, dpc, taken>>

WaitStep(c) ==
  /\ cpc[c] = "check" /\ Free
  /\ cpc' = [cpc EXCEPT ![c] = IF Done(queue, available) THEN "done" ELSE "wait"]
  /\ UNCHANGED <<pc, queue, available, running, rpc, dpc, taken, before>>

\* The destructor writes running_ and notifies without mutex_.  No client may
\* still be inside the pool it destroys.
Destroy ==
  /\ InPool
  /\ \A t \in Tasks : rpc[t] # "notify"
  /\ \A c \in Waiters : cpc[c] \in {"none", "done"}
  /\ running' = FALSE
  /\ dpc' = "notify"
  /\ UNCHANGED <<pc, queue, available, rpc, cpc, taken, before>>

DestroyNotify ==
  /\ dpc = "notify"
  /\ pc' = NotifyAll(pc)
  /\ dpc' = "join"
  /\ UNCHANGED <<queue, available, running, rpc, cpc, taken, before>>

Destroyed ==
  /\ dpc = "join" /\ \A w \in Threads : pc[w] = "exited"
  /\ dpc' = "done"
  /\ UNCHANGED <<pc, queue, available, running, rpc, cpc, taken, before>>

-----------------------------------------------------------------------------
(* TaskLoop.                                                               *)

\* The predicate of scheduled_.wait is false: mutex_ stays held until Block.
Test(w) ==
  /\ pc[w] = "check" /\ Free /\ running /\ queue = <<>>
  /\ pc' = [pc EXCEPT ![w] = "blocking"]
  /\ UNCHANGED <<queue, available, running, rpc, cpc, dpc, taken, before>>

Block(w) ==
  /\ pc[w] = "blocking"
  /\ pc' = [pc EXCEPT ![w] = "wait"]
  /\ UNCHANGED <<queue, available, running, rpc, cpc, dpc, taken, before>>

ThreadExit(w) ==
  /\ pc[w] = "check" /\ Free /\ ~running
  /\ pc' = [pc EXCEPT ![w] = "exited"]
  /\ UNCHANGED <<queue, available, running, rpc, cpc, dpc, taken, before>>

Take(w) ==
  /\ pc[w] = "check" /\ Free /\ running /\ queue # <<>>
  /\ taken' = Append(taken, Head(queue))
  /\ queue' = Tail(queue)
  /\ available' = available - 1
  /\ pc' = [pc EXCEPT ![w] = "run"]
  /\ UNCHANGED <<running, rpc, cpc, dpc, before>>

Finish(w) ==
  /\ pc[w] = "run" /\ Free
  /\ available' = BackAgain(available)
  /\ pc' = [pc EXCEPT ![w] = "check"]
  /\ IF Done(queue, available') THEN cpc' \in CompletedNotify(cpc) ELSE cpc' = cpc
  /\ UNCHANGED <<queue, running, rpc, dpc, taken, before>>

TaskLoop(w) == Test(w) \/ Block(w) \/ ThreadExit(w) \/ Take(w) \/ Finish(w)

SpuriousWakeup ==
  \/ /\ \E w \in Threads : pc[w] = "wait" /\ pc' = [pc EXCEPT ![w] = "check"]
     /\ UNCHANGED <<queue, available, running, rpc, cpc, dpc, taken, before>>
  \/ /\ \E c \in Waiters : cpc[c] = "wait" /\ cpc' = [cpc EXCEPT ![c] = "check"]
     /\ UNCHANGED <<pc, queue, available, running, rpc, dpc, taken, before>>

Destructor == DestroyNotify \/ Destroyed

Next ==
  \/ \E t \in Tasks : Run(t) \/ RunNotified(t)
  \/ \E c \in Waiters : Wait(c) \/ WaitStep(c)
  \/ Destroy \/ Destructor
  \/ \E w \in Threads : TaskLoop(w)
  \/ SpuriousWakeup

Spec == Init /\ [][Next]_vars

\* Threads are scheduled, mutex_ is handed on, tasks return, and a client
\* that has entered an operation goes on.  Strong fairness where mutex_ is
\* needed: a thread that contends for it again and again gets it in the end,
\* even while spurious wakeups keep others coming back for it.
FairSpec ==
  /\ Spec
  /\ \A w \in Threads : SF_vars(TaskLoop(w))
  /\ \A t \in Tasks : WF_vars(RunNotified(t))
  /\ \A c \in Waiters : SF_vars(WaitStep(c))
  /\ WF_vars(Destructor)

-----------------------------------------------------------------------------
(* Properties.                                                             *)

TypeOK ==
  /\ pc \in [Threads -> {"check", "blocking", "wait", "run", "exited"}]
  /\ available \in 0 .. N
  /\ queue \in Seq(Tasks) /\ running \in BOOLEAN
  /\ rpc \in [Tasks -> {"none", "notify", "done"}]
  /\ cpc \in [Waiters -> {"none", "check", "wait", "done"}]
  /\ dpc \in {"none", "notify", "join", "done"}

\* Notifying after the unlock loses nothing: a queued task has a thread that
\* is awake or a client that is about to notify.
TaskWatched ==
  running /\ queue # <<>>
    => \/ \E w \in Threads : pc[w] \in {"check", "run"}
       \/ \E t \in Tasks : rpc[t] = "notify"

\* "Wait until all the tasks are completed": when Wait returns, every task
\* pushed before the call has run and no thread is running one.
WaitCoversEarlierTasks ==
  [][\A c \in Waiters : cpc[c] = "check" /\ cpc'[c] = "done"
       => before[c] \subseteq Range(taken) /\ \A w \in Threads : pc[w] # "run"]_vars

\* Nobody stays in Wait once the pool is idle, however many clients wait.
WaitReturns == \A c \in Waiters : cpc[c] # "none" ~> cpc[c] = "done"

\* Every task passed to Run is taken by a thread, so its future gets ready,
\* unless the pool is destroyed first.
TasksRun ==
  \A t \in Tasks : rpc[t] # "none" ~> t \in Range(taken) \/ dpc # "none"

\* "notify all threads to stop running": the destructor's joins return.
DestroyReturns == dpc # "none" ~> dpc = "done"

=============================================================================
