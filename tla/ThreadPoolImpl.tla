--------------------------- MODULE ThreadPoolImpl ---------------------------
(***************************************************************************)
(* ThreadPoolImpl::Impl of util/threadpool_util.cpp: a pool whose number   *)
(* of background threads can be raised and lowered while jobs are queued,  *)
(* with tagged jobs that can be unscheduled and two ways of joining.       *)
(*                                                                         *)
(* Every section the code runs under mu_ is one action.  A worker is       *)
(* "check" while it is on its way to lock mu_ and evaluate the loop        *)
(* condition of BGThread, "wait" while it is blocked in bgsignal_.wait.    *)
(* JoinThreads releases mu_ before it notifies, joins, clears bgthreads_   *)
(* and resets the flags, so it is several actions of one joiner.           *)
(***************************************************************************)
EXTENDS Integers, Sequences, FiniteSets

CONSTANTS
  Jobs,        \* the jobs clients may submit, each at most once
  Tag,         \* Tag[j]: the unschedule tag job j is submitted with
  HasUnsched,  \* the jobs submitted with an unschedule function
  MaxThreads,  \* bound: the largest argument of SetBackgroundThreads
  Kinds,       \* the priorities LowerIOPriority / LowerCPUPriority lower
  JoinModes,   \* values of JoinThreads' argument the clients use
  NoJob

Tags == {Tag[j] : j \in Jobs}

ThreadPoolAssumption ==
  /\ MaxThreads \in Nat \ {0}
  /\ HasUnsched \subseteq Jobs
  /\ Tag \in [Jobs -> Tags]
  /\ JoinModes \subseteq BOOLEAN
  /\ NoJob \notin Jobs

Slots == 0 .. MaxThreads - 1   \* thread_id: the index in bgthreads_

VARIABLES
  limit,      \* total_threads_limit_
  size,       \* bgthreads_.size()
  queue,      \* queue_, as the sequence of its jobs
  queueLen,   \* queue_len_
  exitAll,    \* exit_all_threads_
  waitJobs,   \* wait_for_jobs_to_complete_
  low,        \* the kinds whose low_*_priority_ member is set
  pc,         \* what each background thread is doing
  job,        \* the function a running thread took from the queue
  lowered,    \* the kinds each thread has lowered for itself
  jpc,        \* what the thread in JoinThreads is doing
  jidx,       \* its loop position in bgthreads_
  jend,       \* the end() its range-for captured
  accepted,   \* history: the jobs Submit queued, in order
  started,    \* history: the jobs taken by threads, in order
  cancelled,  \* history: the jobs UnSchedule erased
  unsched,    \* unschedule functions collected but not run yet
  undone,     \* history: the unschedule functions that ran
  dropped     \* history: the jobs Submit refused

poolVars == <<limit, size, queue, queueLen, exitAll, waitJobs, low>>
bgVars == <<pc, job, lowered>>
joinVars == <<jpc, jidx, jend>>
history == <<accepted, started, cancelled, unsched, undone, dropped>>
vars == <<poolVars, bgVars, joinVars, history>>

-----------------------------------------------------------------------------
(* The predicates of Impl, for explicit values of the members they read.   *)

HasExcessiveThread(sz, lim) == sz > lim
AnyExcessiveThreadLeaves(i, sz, lim) == sz > lim /\ i >= lim  \* fault
IsLastExcessiveThread(i, sz, lim) == HasExcessiveThread(sz, lim) /\ i = sz - 1
IsExcessiveThread(i, lim) == i >= lim

\* bgsignal_.notify_all(): every thread blocked in wait gets to re-check.
WakeUpAllThreads(p) == [i \in Slots |-> IF p[i] = "wait" THEN "check" ELSE p[i]]

\* bgsignal_.notify_one(): any one waiter, or nothing when nobody waits.
NotifyOne(p) ==
  LET waiters == {i \in Slots : p[i] = "wait"}
  IN  IF waiters = {} THEN {p} ELSE {[p EXCEPT ![w] = "check"] : w \in waiters}

\* The threads StartBGThreads appends are at the head of BGThread's loop.
StartBGThreads(p, sz, lim) ==
  [i \in Slots |-> IF i >= sz /\ i < lim THEN "check" ELSE p[i]]

AtLeast(a, b) == IF a >= b THEN a ELSE b

\* total_threads_limit_ = MATH_MAX(0, num)
UnclampedLimit(num) == num                                     \* fault
ClampedLimit(num) == AtLeast(0, num)

\* What is left of s, in order, after one pass over it that drops what is in D.
Without(s, D) ==
  LET kept[n \in 0 .. Len(s)] ==
        IF n = 0 THEN <<>>
        ELSE IF s[n] \in D THEN kept[n - 1] ELSE Append(kept[n - 1], s[n])
  IN  kept[Len(s)]

\* queue_.push_back in Submit, erasing by tag in UnSchedule, and the value
\* stored to queue_len_ after the queue was changed to q.
PushBack(q, j) == Append(q, j)
KeepTagged(q, tag) == q                                        \* fault
EraseTagged(q, tag) == Without(q, {j \in Jobs : Tag[j] = tag})
StoredQueueLen(q) == Len(q)

\* Submit wakes one thread, or all of them when the one woken might be one
\* that only has to terminate or must not take jobs.
NotifyOneAlways(p, sz, lim) == NotifyOne(p)                    \* fault
NotifyUnlessExcessive(p, sz, lim) ==                           \* fault
  IF ~HasExcessiveThread(sz, lim) THEN NotifyOne(p) ELSE {p}
SubmitNotify(p, sz, lim) ==
  IF ~HasExcessiveThread(sz, lim) THEN NotifyOne(p) ELSE {WakeUpAllThreads(p)}

\* A terminating thread wakes the others when more of them are excessive.
TerminateNotify(p, sz, lim) ==
  IF HasExcessiveThread(sz, lim) THEN WakeUpAllThreads(p) ELSE p

-----------------------------------------------------------------------------
(* Client operations.                                                      *)

Init ==
  /\ limit = 0 /\ size = 0
  /\ queue = <<>> /\ queueLen = 0
  /\ exitAll = FALSE /\ waitJobs = FALSE
  /\ low = {}
  /\ pc = [i \in Slots |-> "none"]
  /\ job = [i \in Slots |-> NoJob]
  /\ lowered = [i \in Slots |-> {}]
  /\ jpc = "idle" /\ jidx = 0 /\ jend = 0
  /\ accepted = <<>> /\ started = <<>>
  /\ cancelled = {} /\ unsched = {} /\ undone = {} /\ dropped = {}

Fresh(j) == /\ \A k \in 1 .. Len(accepted) : accepted[k] # j
            /\ j \notin dropped

\* Impl::SetBackgroundThreadsInternal; while threads are being joined it
\* returns early and changes nothing.
SetBackgroundThreadsInternal(num, allowReduce) ==
  /\ ~exitAll
  /\ num > limit \/ (num < limit /\ allowReduce)
  /\ LET lim == ClampedLimit(num)
     IN  /\ limit' = lim
         /\ size' = AtLeast(size, lim)
         /\ pc' = StartBGThreads(WakeUpAllThreads(pc), size, lim)
  /\ UNCHANGED <<queue, queueLen, exitAll, waitJobs, low, job, lowered, joinVars,
                 history>>

SetBackgroundThreads == \E num \in -1 .. MaxThreads : SetBackgroundThreadsInternal(num, TRUE)
IncBackgroundThreadsIfNeeded ==
  \E num \in -1 .. MaxThreads : SetBackgroundThreadsInternal(num, FALSE)

\* Impl::Submit while the pool is being joined: the job is silently lost.
SubmitRefused(j) ==
  /\ Fresh(j) /\ exitAll
  /\ dropped' = dropped \cup {j}
  /\ UNCHANGED <<poolVars, bgVars, joinVars,
                 accepted, started, cancelled, unsched, undone>>

\* Impl::Submit: start missing threads, queue the job, notify.
Submit(j) ==
  /\ Fresh(j) /\ ~exitAll
  /\ LET sz == AtLeast(size, limit)
         p  == StartBGThreads(pc, size, limit)
     IN  /\ size' = sz
         /\ pc' \in SubmitNotify(p, sz, limit)
  /\ queue' = PushBack(queue, j)
  /\ queueLen' = StoredQueueLen(queue')
  /\ accepted' = Append(accepted, j)
  /\ UNCHANGED <<limit, exitAll, waitJobs, low, job, lowered, joinVars, started,
                 cancelled, unsched, undone, dropped>>

\* Impl::UnSchedule, the part under mu_: erase every queued job with the tag
\* and collect its unschedule function if it has one.
UnSchedule(tag) ==
  LET gone == {j \in Jobs : Tag[j] = tag /\ \E k \in 1 .. Len(queue) : queue[k] = j}
  IN  /\ gone # {}
      /\ queue' = EraseTagged(queue, tag)
      /\ queueLen' = StoredQueueLen(queue')
      /\ cancelled' = cancelled \cup gone
      /\ unsched' = unsched \cup (gone \cap HasUnsched)
      /\ UNCHANGED <<limit, size, exitAll, waitJobs, low, bgVars, joinVars,
                     accepted, started, undone, dropped>>

\* Impl::UnSchedule, after mu_ is released: one collected function runs.
RunUnschedFunction(j) ==
  /\ j \in unsched
  /\ unsched' = unsched \ {j}
  /\ undone' = undone \cup {j}
  /\ UNCHANGED <<poolVars, bgVars, joinVars,
                 accepted, started, cancelled, dropped>>

\* Impl::LowerIOPriority and Impl::LowerCPUPriority.
LowerPriority(kind) ==
  /\ kind \notin low
  /\ low' = low \cup {kind}
  /\ UNCHANGED <<limit, size, queue, queueLen, exitAll, waitJobs,
                 bgVars, joinVars, history>>

-----------------------------------------------------------------------------
(* JoinThreads.  Its assertion !exit_all_threads_ is the contract that one *)
(* thread joins at a time; it is the guard here.                           *)

JoinThreads(wait) ==
  /\ jpc = "idle" /\ ~exitAll
  /\ waitJobs' = wait
  /\ exitAll' = TRUE
  /\ limit' = 0
  /\ jpc' = "notify"
  /\ UNCHANGED <<size, queue, queueLen, low, bgVars, jidx, jend, history>>

\* After the unlock: notify_all, then the range-for reads begin() and end()
\* of bgthreads_ without the lock.
JoinNotify ==
  /\ jpc = "notify"
  /\ pc' = WakeUpAllThreads(pc)
  /\ jpc' = "next"
  /\ jidx' = 0
  /\ jend' = size
  /\ UNCHANGED <<poolVars, job, lowered, history>>

\* th.join() on an element that is still in the vector waits for the thread;
\* on one that was detached and popped meanwhile it throws system_error.
JoinCall ==
  /\ jpc = "next" /\ jidx < jend
  /\ jpc' = IF jidx < size THEN "join" ELSE "threw"
  /\ UNCHANGED <<poolVars, bgVars, jidx, jend, history>>

JoinReturn ==
  /\ jpc = "join" /\ pc[jidx] \in {"exited", "none"}
  /\ jpc' = "next"
  /\ jidx' = jidx + 1
  /\ UNCHANGED <<poolVars, bgVars, jend, history>>

\* bgthreads_.clear() and the reset of the flags, all without mu_.
JoinDone ==
  /\ jpc = "next" /\ jidx = jend
  /\ size' = 0
  /\ pc' = [i \in Slots |-> IF i < size THEN "none" ELSE pc[i]]
  /\ exitAll' = FALSE
  /\ waitJobs' = FALSE
  /\ jpc' = "idle"
  /\ jidx' = 0
  /\ jend' = 0
  /\ lowered' = [i \in Slots |-> {}]
  /\ UNCHANGED <<limit, queue, queueLen, low, job, history>>

-----------------------------------------------------------------------------
(* The background threads.                                                 *)

\* The loop condition of BGThread.
MustWait(i) ==
  /\ ~exitAll
  /\ ~IsLastExcessiveThread(i, size, limit)
  /\ queue = <<>> \/ IsExcessiveThread(i, limit)

BGWait(i) ==
  /\ pc[i] = "check" /\ MustWait(i)
  /\ pc' = [pc EXCEPT ![i] = "wait"]
  /\ UNCHANGED <<poolVars, job, lowered, joinVars, history>>

MustExitOnlyWhenIdle == exitAll /\ queue = <<>>                \* fault
MustExit == exitAll /\ (~waitJobs \/ queue = <<>>)

BGExit(i) ==
  /\ pc[i] = "check" /\ MustExit
  /\ pc' = [pc EXCEPT ![i] = "exited"]
  /\ UNCHANGED <<poolVars, job, lowered, joinVars, history>>

\* The last excessive thread detaches itself, leaves bgthreads_ and wakes
\* the others when one of them is now the last excessive one.
BGTerminateExcessive(i) ==
  /\ pc[i] = "check" /\ ~MustWait(i) /\ ~MustExit
  /\ IsLastExcessiveThread(i, size, limit)
  /\ size' = size - 1
  /\ pc' = TerminateNotify([pc EXCEPT ![i] = "none"], size - 1, limit)
  /\ lowered' = [lowered EXCEPT ![i] = {}]
  /\ UNCHANGED <<limit, queue, queueLen, exitAll, waitJobs, low, job,
                 joinVars, history>>

\* Take the front job; the priorities the pool was told to lower are lowered
\* by the thread before it calls the job.
BGTakeJob(i) ==
  /\ pc[i] = "check" /\ ~MustWait(i) /\ ~MustExit
  /\ ~IsLastExcessiveThread(i, size, limit)
  /\ job' = [job EXCEPT ![i] = Head(queue)]
  /\ started' = Append(started, Head(queue))
  /\ queue' = Tail(queue)
  /\ queueLen' = StoredQueueLen(queue')
  /\ lowered' = [lowered EXCEPT ![i] = @ \cup low]
  /\ pc' = [pc EXCEPT ![i] = "run"]
  /\ UNCHANGED <<limit, size, exitAll, waitJobs, low, joinVars,
                 accepted, cancelled, unsched, undone, dropped>>

BGFinishJob(i) ==
  /\ pc[i] = "run"
  /\ job' = [job EXCEPT ![i] = NoJob]
  /\ pc' = [pc EXCEPT ![i] = "check"]
  /\ UNCHANGED <<poolVars, lowered, joinVars, history>>

\* bgsignal_.wait may return without a notification.
SpuriousWakeup(i) ==
  /\ pc[i] = "wait"
  /\ pc' = [pc EXCEPT ![i] = "check"]
  /\ UNCHANGED <<poolVars, job, lowered, joinVars, history>>

BGThread(i) ==
  \/ BGWait(i) \/ BGExit(i) \/ BGTerminateExcessive(i)
  \/ BGTakeJob(i) \/ BGFinishJob(i)

Joiner == JoinNotify \/ JoinCall \/ JoinReturn \/ JoinDone

Client ==
  \/ SetBackgroundThreads \/ IncBackgroundThreadsIfNeeded
  \/ \E j \in Jobs : Submit(j) \/ SubmitRefused(j)
  \/ \E tag \in Tags : UnSchedule(tag)
  \/ \E kind \in Kinds : LowerPriority(kind)
  \/ \E wait \in JoinModes : JoinThreads(wait)

Next ==
  \/ Client \/ Joiner
  \/ \E j \in Jobs : RunUnschedFunction(j)
  \/ \E i \in Slots : BGThread(i) \/ SpuriousWakeup(i)

Spec == Init /\ [][Next]_vars

\* The operating system runs every thread that can run; jobs return; clients
\* owe nothing and spurious wakeups are never owed.
FairSpec ==
  /\ Spec
  /\ \A i \in Slots : WF_vars(BGThread(i))
  /\ WF_vars(Joiner)

-----------------------------------------------------------------------------
(* Properties.                                                             *)

ThreadTypeOK ==
  /\ limit \in 0 .. MaxThreads /\ size \in 0 .. MaxThreads
  /\ exitAll \in BOOLEAN /\ waitJobs \in BOOLEAN
  /\ pc \in [Slots -> {"none", "check", "wait", "run", "exited"}]
  /\ jpc \in {"idle", "notify", "next", "join", "threw"}
  /\ jidx \in 0 .. MaxThreads /\ jend \in 0 .. MaxThreads

JobTypeOK ==
  /\ queue \in Seq(Jobs) /\ queueLen \in Nat
  /\ low \subseteq Kinds
  /\ job \in [Slots -> Jobs \cup {NoJob}]
  /\ lowered \in [Slots -> SUBSET Kinds]
  /\ accepted \in Seq(Jobs) /\ started \in Seq(Jobs)
  /\ cancelled \subseteq Jobs /\ unsched \subseteq Jobs
  /\ undone \subseteq Jobs /\ dropped \subseteq Jobs

\* Every member keeps its type; the limit never leaves 0 .. MaxThreads even
\* when SetBackgroundThreads is called with a negative number.
TypeOK == ThreadTypeOK /\ JobTypeOK

\* bgthreads_ has no holes: because only the thread added last may leave, the
\* live threads are exactly those with the indices below bgthreads_.size(),
\* and outside a join there are never fewer threads than the limit asks for.
ThreadsContiguous ==
  /\ \A i \in Slots : pc[i] = "none" <=> i >= size
  /\ ~exitAll => size >= limit

\* No wakeup of bgsignal_ is lost: while jobs are queued, one of the threads
\* allowed to take them is awake.  notify_one would not be enough in Submit
\* when it may pick a thread that is above the limit.
NoLostWakeup ==
  ~exitAll /\ queue # <<>> /\ limit > 0
    => \E i \in Slots : i < limit /\ pc[i] \in {"check", "run"}

\* The thread that has to terminate next is never left asleep, so lowering
\* the limit cannot be forgotten when several threads are above it.
TerminatorAwake == ~exitAll /\ size > limit => pc[size - 1] # "wait"

\* Once JoinThreads has notified, no thread can go to sleep again, so every
\* join returns when the running jobs do.
JoinedThreadsAwake == jpc \in {"next", "join"} => \A i \in Slots : pc[i] # "wait"

\* Whoever is needed is awake: a thread that may take the queued jobs, the
\* thread that has to terminate next, and all threads being joined.
NobodyNeededSleeps == NoLostWakeup /\ TerminatorAwake /\ JoinedThreadsAwake

\* Every accepted job is cancelled by UnSchedule, queued, or was started
\* exactly once, and jobs are started in the order they were submitted.
FifoExactlyOnce == Without(accepted, cancelled) = started \o queue

\* UnSchedule runs the unschedule function of a job only when it took the job
\* out of the queue, once, and never when a thread runs the job.
CancelledNeverRuns ==
  /\ \A k \in 1 .. Len(started) : started[k] \notin cancelled
  /\ unsched \cap undone = {}
  /\ unsched \cup undone = cancelled \cap HasUnsched

\* queue_len_, which clients read without the lock, is never out of date
\* between two critical sections.
QueueLenExact == queueLen = Len(queue)

\* Every job has one fate and queue_len_ follows it.  A job that no thread had
\* started when JoinAllThreads was called stays queued, and a pool that is given
\* threads again runs it: JoinAllDiscards below is what the header says instead.
JobsAccounted == FifoExactlyOnce /\ CancelledNeverRuns /\ QueueLenExact

\* JoinAllThreads never joins a thread object that is gone.
JoinAllNeverThrows == jpc = "threw" => waitJobs

\* A pool above its limit sheds the excessive threads (or is joined).
ExcessThreadsTerminate == size > limit /\ ~exitAll ~> size <= limit \/ exitAll

\* JoinAllThreads returns once the jobs that are running end.
\* WaitForJobsAndJoinAllThreads either returns or throws system_error from
\* join(), for a thread that detached itself and left bgthreads_ meanwhile.
JoinTerminates ==
  /\ jpc # "idle" /\ ~waitJobs ~> jpc = "idle"
  /\ jpc # "idle" ~> jpc \in {"idle", "threw"}

\* A queued job is eventually taken, unless it is unscheduled, the pool is
\* left without threads, or it is joined.
QueuedJobsRun ==
  \A j \in Jobs :
    (\E k \in 1 .. Len(queue) : queue[k] = j)
      ~> \/ \A k \in 1 .. Len(queue) : queue[k] # j
         \/ limit = 0
         \/ exitAll

\* With fair threads and jobs that return, the pool follows its limit,
\* JoinAllThreads returns, WaitForJobsAndJoinAllThreads returns or throws, and
\* queued jobs are taken.
PoolProgresses == ExcessThreadsTerminate /\ JoinTerminates /\ QueuedJobsRun

\* env_util.h says that WaitForJobsAndJoinAllThreads "ensures that everything
\* that was thrown on the TP runs": when all joins have returned, in a pool
\* whose threads were there when the joins began, no accepted job is still in
\* the queue.
WaitForJobsRunsAll ==
  jpc = "next" /\ jidx = jend /\ waitJobs /\ jend > 0 => queue = <<>>

\* threadpool_util.h says that JoinAllThreads "Discards all the jobs that did
\* not start executing": when it has joined the threads and returns, no job is
\* left in the queue, where threads started later would find it.
JoinAllDiscards ==
  [][jpc = "next" /\ jpc' = "idle" /\ ~waitJobs /\ jend > 0 => queue' = <<>>]_vars

=============================================================================
