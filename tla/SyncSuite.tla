------------------------------ MODULE SyncSuite ------------------------------
(***************************************************************************)
(* What makes threads wait for each other, model checked together: the     *)
(* locks, semaphores, events and latches of LockSuite, the threads of      *)
(* util/thread_util, TimerQueue, the user threads of coroutine_util and    *)
(* the asynchronous log writer.  They share nothing, so a behaviour picks  *)
(* one instance (focus) and only that instance steps; those that are added *)
(* here use the variables rep and model.                                   *)
(***************************************************************************)
EXTENDS LockSuite, TLC

VARIABLES rep, model

-----------------------------------------------------------------------------

Thread == INSTANCE Runtime WITH
  Clients <- {"c1", "c2"}, MaxJobs <- 3, Full <- 1, Tids <- 1 .. 2, MaxObjects <- 4,
  Names <- {"a", "b", "c"}
React == INSTANCE Reactors WITH
  MaxFd <- 1, Second <- 2, MaxTime <- 3, MaxOps <- 3, Cap <- 2, MaxDepth <- 2, MaxThreads <- 3
Log == INSTANCE Files WITH
  MaxBytes <- 4, Tries <- 4, Page <- 2, MapSize <- 2, BufSize <- 2, RollNum <- 3, MaxSize <- 1,
  MaxLogs <- 3, Clients <- {"c1", "c2"}

ASSUME SyncSuiteAssumption ==
  Thread!RuntimeAssumption /\ React!ReactorAssumption /\ Log!FileAssumption

-----------------------------------------------------------------------------

repVars == <<rep, model>>
suiteVars == <<lockVars, repVars>>

SuiteInit ==
  /\ LockInit
  /\ CASE focus = "posix" -> Thread!PosixInit
       [] focus = "bgthread" -> Thread!BGInit
       [] focus = "worker" -> Thread!WorkerInit
       [] focus = "queue" -> React!QueueInit
       [] focus = "uthread" -> React!UthreadInit
       [] focus = "log" -> Log!LogInit
       [] OTHER -> rep = <<>> /\ model = <<>>

SuiteNext ==
  /\ LockNext
  /\ CASE focus = "posix" -> Thread!PosixNext
       [] focus = "bgthread" -> Thread!BGNext
       [] focus = "worker" -> Thread!WorkerNext
       [] focus = "queue" -> React!QueueNext
       [] focus = "uthread" -> React!UthreadNext
       [] focus = "log" -> Log!LogNext
       [] OTHER -> UNCHANGED repVars

\* A thread that is inside a call, or was created, keeps being scheduled; a
\* mutex that is free again and again is got in the end (SF); time passes.  A
\* user thread gives the processor away some time.  The weak fairness of
\* TimerQueue's thread has its enabling condition written out.
SuiteSpec ==
  /\ SuiteInit /\ [][SuiteNext]_suiteVars
  /\ \A t \in Users :
       /\ WF_freeVars(focus = "free" /\ (Object!FreePost(t) \/ Object!Wake(t)))
       /\ WF_eventVars(focus = "auto" /\ Object!EventCheck(t))
       /\ WF_eventVars(focus = "manual" /\ ManualReset!EventCheck(t))
       /\ WF_latchVars(focus = "counted" /\ CountedDown!LatchCheck(t))
       /\ WF_futureVars(/\ focus = "future" /\ Object!FutureAlive
                        /\ Object!FutureWait(t) \/ Object!FutureTimeout(t) \/ Object!Assert(t))
  /\ WF_latchVars(focus = "counted" /\ \E n \in Amounts : CountedDown!countDown(n))
  /\ WF_noteVars(focus = "note" /\ (Object!NotifyStore \/ Object!NotifyAll \/ Object!NotifyUnlock))
  /\ SF_noteVars(focus = "note" /\ \E w \in Waiters : Object!NoteCheck(w) \/ Object!TimeoutReturn(w))
  /\ WF_futureVars(/\ focus = "future" /\ Object!FutureAlive
                   /\ Object!SetCompleted \/ Object!SetPost)
  /\ WF_repVars(\/ focus = "posix" /\ Thread!Wrapper
                \/ focus = "worker" /\ Thread!RunJobs
                \/ focus = "uthread" /\ (React!Reap \/ React!Schedule)
                \/ focus = "log" /\ Log!WriterStep)
  /\ WF_repVars(\/ focus = "worker" /\ rep.client # "idle" /\ (Thread!WaitJobs \/ Thread!StopWorker)
                \/ focus = "queue" /\ React!Joined
                \/ focus = "uthread" /\ React!GivesWay
                \/ focus = "bgthread" /\ Thread!Due)
  /\ \/ []<>~(focus = "queue" /\ React!TimerReady)
     \/ []<><<focus = "queue" /\ React!TimerThread>>_repVars
  /\ SF_repVars(focus = "bgthread" /\ Thread!ThreadMain)
  /\ \A c \in {"c1", "c2"} :
       SF_repVars(focus = "bgthread" /\ rep.pc[c] # "idle" /\ Thread!Schedule(c))

-----------------------------------------------------------------------------
(* The properties of what is added here, gathered as in LockSuite.         *)

\* A thread does what it was given, once, in order and on time: PosixThread
\* runs its function once and is joined once, BGThread never sleeps on work or
\* lets callers sleep on room, StdThreadWorker keeps the order and lets
\* wait() through with jobs left only after a job that came too late to be
\* seen, every handler of TimerQueue runs, a user thread is queued exactly
\* while it is ready, and the log has every message once, on disk when flush
\* returns otherwise than by a spurious wakeup.
WorkDoneOnce ==
  /\ focus = "posix" => Thread!PosixThreadExact
  /\ focus = "bgthread" => Thread!BGThreadWatched
  /\ focus = "worker" => Thread!WorkerInOrder
  /\ focus = "queue" => React!HandlersOnce
  /\ focus = "uthread" => React!UthreadsExact
  /\ focus = "log" => Log!LogExact

Asked(i) ==
  CASE focus = "posix" -> model.cancelled
    [] focus = "bgthread" /\ i <= 3 -> Thread!Submitted(i)
    [] focus = "bgthread" -> rep.timers > 0
    [] focus = "worker" -> rep.client \in {"wait", "stop"}
    [] focus = "queue" -> rep.client = "joining"
    [] focus = "uthread" -> i \in rep.ready
    [] focus = "log" /\ i \in 1 .. 2 -> rep.pc[<<"c1", "c2">>[i]] = "waiting"
    [] OTHER -> FALSE
Served(i) ==
  CASE focus = "posix" -> rep.tpc = "over"
    [] focus = "bgthread" /\ i <= 3 -> Thread!RanOrGivenUp(i)
    [] focus = "bgthread" -> rep.timers = 0 \/ Thread!GivenUp
    [] focus = "worker" -> rep.client = "joined"
    [] focus = "queue" -> rep.client = "joined"
    [] focus = "uthread" -> i \notin rep.ready \/ rep.stoped
    [] focus = "log" /\ i \in 1 .. 2 -> rep.pc[<<"c1", "c2">>[i]] = "idle"
    [] OTHER -> TRUE

\* What was asked of a thread happens: a cancelled periodic PosixThread ends,
\* whichever of the two threads wrote is_running_ last; a job given to
\* Schedule of BGThread gets its room and runs, unless the thread is stopped,
\* its queue cleared or delayed work in front, and delayed work runs;
\* the destructors of StdThreadWorker and TimerQueue, and stop(), return, the latter
\* although cancelAll leaves its queue out of order; a ready user thread runs
\* when all give way, unless the scheduler is stopped; flush of BDAsyncLogger
\* returns.
RequestsServed == \A i \in 1 .. 4 : Asked(i) ~> Served(i)

=============================================================================
