---------------------------- MODULE SyncObjects -----------------------------
(***************************************************************************)
(* What threads wait on in util/locks_util.h: the semaphores (threads use  *)
(* LightSemaphore and CondVarSem with its grants, processes the reader-    *)
(* writer lock TCSemMutex), the events, the latch and the counter, the     *)
(* notification and the future.  Each class has an Init and a Next of its  *)
(* own over its own variables; they share nothing but the constants.  The  *)
(* theorems about them follow the specifications.                          *)
(***************************************************************************)
EXTENDS Integers, FiniteSets, FiniteSetsExt, FiniteSetTheorems, TLAPS

CONSTANTS
  Users,       \* the threads that use semaphores, events and latches
  \* LightSemaphore
  Initial,     \* initialCount
  MaxUnits,    \* bound on max and count
  MaxSignals,  \* bound on the calls of signal
  \* CondVarSem
  Grants,      \* the CondVarSemGrant objects, all of the same semaphore
  Units,       \* init
  None,        \* no grant
  \* TCSemMutex
  Processes,
  \* AutoResetFreeEvent
  InitialStatus,  \* initialStatus
  MaxCalls,       \* bound on the calls of signal
  \* AutoResetEvent and ManualResetEvent
  AutoReset,           \* which of the two classes
  MaxSets,        \* bound on the calls of set
  \* CountDownLatch and BlockingCounter
  Latch,          \* which of the two classes
  Count,          \* the initial count
  Amounts,        \* the arguments of countDown, {1} for decrement
  Resets,         \* the arguments of reset
  Wrap,           \* stands for 2^64
  \* Notification
  Waiters,
  Owner,          \* the waiter that destroys the notification in the end
  Nobody,         \* no thread
  \* FutureSem
  Getters

LightSemaphoreAssumption ==
  /\ IsFiniteSet(Users) /\ Initial \in Nat
  /\ MaxUnits \in Nat \ {0} /\ MaxSignals \in Nat

GrantAssumption == IsFiniteSet(Grants) /\ Units \in Nat /\ None \notin Grants

SemMutexAssumption == IsFiniteSet(Processes)

FreeAssumption ==
  IsFiniteSet(Users) /\ InitialStatus \in {0, 1} /\ MaxCalls \in Nat

EventAssumption == AutoReset \in BOOLEAN /\ MaxSets \in Nat

LatchAssumption ==
  /\ Latch \in BOOLEAN /\ Wrap \in Nat \ {0} /\ Count \in 0 .. Wrap - 1
  /\ Amounts \subseteq Nat /\ Resets \subseteq 0 .. Wrap - 1

NotificationAssumption == Owner \in Waiters /\ Nobody \notin Waiters \cup {"notifier"}

VARIABLES
  \* LightSemaphore
  m_count,
  m_sema,            \* the value of the kernel semaphore
  s_pc,              \* what each thread does
  max,               \* max of a thread in waitMany, 1 in wait
  toRelease,         \* posts a thread in signal still has to make
  s_acquired,        \* history: units the callers got
  signals,           \* number of calls of signal
  \* CondVarSem
  value,
  fHaveGrant,
  g_pc,              \* what the thread that uses the grant does
  from,              \* the grant that is being moved into this one
  \* TCSemMutex
  created,           \* the semaphores exist
  writers, readers,  \* the values of the two semaphores
  undoW, undoR,      \* what SEM_UNDO will add to them for each process
  p_pc,              \* where each process is, and which lock it has
  wiped,             \* history: the semaphores were set up under a process that had the lock
  \* AutoResetFreeEvent
  m_status,
  available, acquired,  \* m_sema
  f_pc,                 \* what each thread does
  calls,                \* number of calls of signal that set the event
  returned,             \* history: number of calls of wait that returned
  \* AutoResetEvent and ManualResetEvent
  signaled,             \* signaled_, m_signaled
  r_pc,                 \* what each thread does
  r_timed,              \* the threads that are in waitFor
  sets,                 \* number of calls of set
  released,             \* history: number of successful waits for an AutoResetEvent
  \* CountDownLatch and BlockingCounter
  count,                \* count_, counter_
  l_pc,                 \* what each thread does
  l_timed,              \* the threads in waitFor or waitUntil
  woken,                \* what CondVar::waitFor returned to each thread
  \* Notification
  notified,             \* notified_
  mu,                   \* the waiter or "notifier" that holds mu_ between steps
  npc,                  \* where the notifier is
  n_pc,                 \* where each waiter is
  n_timed,              \* the waiters that wait with a timeout
  result,               \* what each waiter's last wait returned
  alive,                \* the notification has not been destroyed
  \* FutureSem
  completed, data,      \* completed_; whether data_ has the value that was set
  sem,                  \* sem_
  spc,                  \* where set is
  u_pc,                 \* where each getter is
  expired,              \* history: the getters whose timed wait ended without the semaphore
  got                   \* got[g]: whether the data_ get returned was the value set

-----------------------------------------------------------------------------
(* LightSemaphore of util/locks_util.h: an atomic counter in front of a    *)
(* kernel semaphore.  A negative counter is the number of threads that     *)
(* have to be released through the kernel semaphore.                       *)
(*                                                                         *)
(* A load followed by a compare-exchange that succeeds is one step, and    *)
(* rounds of a loop whose compare-exchange fails change nothing.  The      *)
(* number of rounds wait spins before it gives up is arbitrary.            *)
(* Semaphore::wait ignores the result of sem_wait; the threads here handle *)
(* no signals, so that sem_wait is never interrupted.                      *)

LightUnits == 1 .. MaxUnits

LightInit ==
  /\ m_count = Initial /\ m_sema = 0
  /\ s_pc = [t \in Users |-> "idle"] /\ max = [t \in Users |-> 1]
  /\ toRelease = [t \in Users |-> 0]
  /\ s_acquired = 0 /\ signals = 0

LightGoto(t, l) == s_pc' = [s_pc EXCEPT ![t] = l]

\* What is left of a count from which at most n is taken.
LeaveLess(c, n) == c - n                                              \* fault
Leave(c, n) == IF c > n THEN c - n ELSE 0

Take(n) ==
  /\ m_count > 0
  /\ m_count' = Leave(m_count, n)
  /\ s_acquired' = s_acquired + m_count - m_count'

\* tryWait and tryWaitMany, also as the beginning of wait and waitMany
tryWaitMany(t, n) ==
  /\ s_pc[t] = "idle" /\ Take(n)
  /\ UNCHANGED <<m_sema, s_pc, max, toRelease, signals>>

\* wait and waitMany that found nothing
waitMany(t, n) ==
  /\ s_pc[t] = "idle" /\ m_count <= 0
  /\ max' = [max EXCEPT ![t] = n]
  /\ LightGoto(t, "spin")
  /\ UNCHANGED <<m_count, m_sema, toRelease, s_acquired, signals>>

SpinTake(t) ==
  /\ s_pc[t] = "spin" /\ Take(max[t])
  /\ LightGoto(t, "idle")
  /\ UNCHANGED <<m_sema, max, toRelease, signals>>

\* The first unit is there: the rest of waitMany tries for more.
AfterFirst(t) == IF max[t] > 1 THEN "more" ELSE "idle"

FetchSub(t) ==
  /\ s_pc[t] = "spin"
  /\ m_count' = m_count - 1
  /\ IF m_count <= 0 THEN LightGoto(t, "sema") /\ s_acquired' = s_acquired
                     ELSE LightGoto(t, AfterFirst(t)) /\ s_acquired' = s_acquired + 1
  /\ UNCHANGED <<m_sema, max, toRelease, signals>>

SemaWait(t) ==
  /\ s_pc[t] = "sema" /\ m_sema > 0
  /\ m_sema' = m_sema - 1
  /\ s_acquired' = s_acquired + 1
  /\ LightGoto(t, AfterFirst(t))
  /\ UNCHANGED <<m_count, max, toRelease, signals>>

More(t) ==
  /\ s_pc[t] = "more"
  /\ Take(max[t] - 1) \/ (m_count <= 0 /\ UNCHANGED <<m_count, s_acquired>>)
  /\ LightGoto(t, "idle")
  /\ UNCHANGED <<m_sema, max, toRelease, signals>>

\* How many of the waiting threads n new units release.
LightReleased(c, n) == Max({0, Min({-c, n})})

signal(t, n) ==
  /\ s_pc[t] = "idle" /\ signals < MaxSignals
  /\ signals' = signals + 1
  /\ m_count' = m_count + n
  /\ toRelease' = [toRelease EXCEPT ![t] = LightReleased(m_count, n)]
  /\ LightGoto(t, IF toRelease'[t] > 0 THEN "post" ELSE "idle")
  /\ UNCHANGED <<m_sema, max, s_acquired>>

Post(t) ==
  /\ s_pc[t] = "post"
  /\ m_sema' = m_sema + 1
  /\ toRelease' = [toRelease EXCEPT ![t] = @ - 1]
  /\ LightGoto(t, IF toRelease[t] > 1 THEN "post" ELSE "idle")
  /\ UNCHANGED <<m_count, max, s_acquired, signals>>

Waiter(t) == SpinTake(t) \/ FetchSub(t) \/ SemaWait(t) \/ More(t)

LightNext ==
  \E t \in Users :
    \/ \E n \in LightUnits : tryWaitMany(t, n) \/ waitMany(t, n) \/ signal(t, n)
    \/ Waiter(t) \/ Post(t)

\* The posts still to be made, and their number with those already made.
Posts == UNION {{t} \X (1 .. toRelease[t]) : t \in Users}
OnTheWay == m_sema + Cardinality(Posts)

Semaphore ==
  INSTANCE CountingSemaphore WITH
    available <- Max({0, m_count}) + OnTheWay, acquired <- s_acquired

\* The two counters together are a counting semaphore: no unit is created,
\* lost or given to two callers, whichever way waiters and signals overlap.
ImplementsSemaphore == Semaphore!Spec

\* A negative m_count is the number of threads in the kernel semaphore for
\* which no post is on its way: no waiter is stranded, no post is superfluous.
WaitersAccounted ==
  Cardinality({t \in Users : s_pc[t] = "sema"}) = OnTheWay + Max({0, -m_count})

-----------------------------------------------------------------------------
(* CondVarSem and CondVarSemGrant of util/locks_util.h: a semaphore on a   *)
(* condition variable, and grants that hold one unit of it and can be      *)
(* moved.  Each grant is used by one thread at a time.  post notifies      *)
(* after it has left the mutex.                                            *)

GrantInit ==
  /\ value = Units
  /\ fHaveGrant = [g \in Grants |-> FALSE]
  /\ g_pc = [g \in Grants |-> "idle"]
  /\ from = [g \in Grants |-> None]

GrantGoto(g, l) == g_pc' = [g_pc EXCEPT ![g] = l]
GrantsAt(l) == {g \in Grants : g_pc[g] = l}

(* acquire, tryAcquire                                                     *)

Took(g) == value' = value - 1 /\ fHaveGrant' = [fHaveGrant EXCEPT ![g] = TRUE]

\* acquire enters CondVarSem::wait; a grant that is held is left alone.
acquire(g) ==
  /\ g_pc[g] = "idle" /\ ~fHaveGrant[g]
  /\ GrantGoto(g, "check")
  /\ UNCHANGED <<value, fHaveGrant, from>>

GrantCheck(g) ==
  /\ g_pc[g] = "check"
  /\ IF value < 1 THEN GrantGoto(g, "sleep") /\ UNCHANGED <<value, fHaveGrant>>
                  ELSE GrantGoto(g, "idle") /\ Took(g)
  /\ UNCHANGED from

tryAcquire(g) ==
  /\ g_pc[g] = "idle" /\ ~fHaveGrant[g] /\ value >= 1
  /\ Took(g)
  /\ UNCHANGED <<g_pc, from>>

GrantSpurious(g) ==
  /\ g_pc[g] = "sleep"
  /\ GrantGoto(g, "check")
  /\ UNCHANGED <<value, fHaveGrant, from>>

(* release, moveTo                                                         *)

release(g) ==
  /\ g_pc[g] = "idle" /\ fHaveGrant[g]
  /\ value' = value + 1
  /\ GrantGoto(g, "notify")
  /\ UNCHANGED <<fHaveGrant, from>>

\* The end of moveTo: the grant h gets what g had.
Given(g, h) == [fHaveGrant EXCEPT ![h] = fHaveGrant[g], ![g] = FALSE]

\* moveTo releases the destination first.
moveTo(g, h) ==
  /\ g # h /\ g_pc[g] = "idle" /\ g_pc[h] = "idle"
  /\ IF fHaveGrant[h]
     THEN /\ value' = value + 1
          /\ g_pc' = [g_pc EXCEPT ![h] = "notify", ![g] = "moving"]
          /\ from' = [from EXCEPT ![h] = g]
          /\ UNCHANGED fHaveGrant
     ELSE fHaveGrant' = Given(g, h) /\ UNCHANGED <<value, g_pc, from>>

\* condition.notify_one, outside the mutex
NotifyOne(g) ==
  IF GrantsAt("sleep") = {} THEN GrantGoto(g, "notified")
  ELSE \E s \in GrantsAt("sleep") : g_pc' = [g_pc EXCEPT ![g] = "notified", ![s] = "check"]

GrantNotify(g) ==
  /\ g_pc[g] = "notify"
  /\ NotifyOne(g)
  /\ fHaveGrant' = [fHaveGrant EXCEPT ![g] = FALSE]
  /\ UNCHANGED <<value, from>>

\* release returns, to its caller or into moveTo.
GrantReleased(g) ==
  /\ g_pc[g] = "notified"
  /\ IF from[g] = None
     THEN GrantGoto(g, "idle") /\ UNCHANGED fHaveGrant
     ELSE /\ fHaveGrant' = Given(from[g], g)
          /\ g_pc' = [g_pc EXCEPT ![g] = "idle", ![from[g]] = "idle"]
  /\ from' = [from EXCEPT ![g] = None]
  /\ UNCHANGED value

GrantNext ==
  \/ \E g, h \in Grants : moveTo(g, h)
  \/ \E g \in Grants :
       \/ acquire(g) \/ GrantCheck(g) \/ tryAcquire(g) \/ GrantSpurious(g)
       \/ release(g) \/ GrantNotify(g) \/ GrantReleased(g)

\* Units are neither lost nor doubled by acquiring, releasing and moving: what
\* is not in the semaphore is held by exactly one grant.
UnitsConserved ==
  /\ value >= 0
  /\ value + Cardinality({g \in Grants : fHaveGrant[g] /\ g_pc[g] # "notify"}) = Units

\* As long as threads sleep, each free unit has a thread on its way to it or
\* a notification still to come.
UnitsReachSleepers ==
  GrantsAt("sleep") # {} => value <= Cardinality(GrantsAt("check") \cup GrantsAt("notify"))

-----------------------------------------------------------------------------
(* TCSemMutex of util/locks_util.h and .cpp: a reader-writer lock between  *)
(* processes in two System V semaphores, the first one counting writers    *)
(* and the second one readers.  semop is atomic and, with SEM_UNDO, is     *)
(* undone by the kernel when the process ends.  init creates the           *)
(* semaphores and sets them to zero in a second call, between which other  *)
(* processes may attach and lock.                                          *)

SemInit ==
  /\ created = FALSE /\ writers = 0 /\ readers = 0
  /\ undoW = [p \in Processes |-> 0] /\ undoR = [p \in Processes |-> 0]
  /\ p_pc = [p \in Processes |-> "new"] /\ wiped = FALSE

SemGoto(p, l) == p_pc' = [p_pc EXCEPT ![p] = l]

\* The operations of one semop: add w and r, and remember how to undo it.
Semop(p, w, r) ==
  /\ writers' = writers + w /\ readers' = readers + r
  /\ undoW' = [undoW EXCEPT ![p] = @ - w] /\ undoR' = [undoR EXCEPT ![p] = @ - r]
  /\ UNCHANGED <<created, wiped>>

\* init: semget with IPC_CREAT | IPC_EXCL, or attach to what is there
Create(p) ==
  /\ p_pc[p] = "new" /\ ~created
  /\ created' = TRUE
  /\ SemGoto(p, "setall")
  /\ UNCHANGED <<writers, readers, undoW, undoR, wiped>>

Attach(p) ==
  /\ p_pc[p] = "new" /\ created
  /\ SemGoto(p, "free")
  /\ UNCHANGED <<created, writers, readers, undoW, undoR, wiped>>

SemHolding(l) == {p \in Processes : p_pc[p] = l}

\* semctl(SETALL) also clears the undo values of all processes.
SetAll(p) ==
  /\ p_pc[p] = "setall"
  /\ writers' = 0 /\ readers' = 0
  /\ undoW' = [q \in Processes |-> 0] /\ undoR' = [q \in Processes |-> 0]
  /\ wiped' = (wiped \/ SemHolding("reading") \cup SemHolding("writing") # {})
  /\ SemGoto(p, "free")
  /\ UNCHANGED created

\* rlock and tryrlock
NoWriter == writers = 0

rlock(p) ==
  /\ p_pc[p] = "free" /\ NoWriter
  /\ Semop(p, 0, 1)
  /\ SemGoto(p, "reading")

unrlock(p) ==
  /\ p_pc[p] = "reading" /\ readers >= 1
  /\ Semop(p, 0, -1)
  /\ SemGoto(p, "free")

\* wlock and trywlock
wlock(p) ==
  /\ p_pc[p] = "free" /\ NoWriter /\ readers = 0
  /\ Semop(p, 1, 0)
  /\ SemGoto(p, "writing")

unwlock(p) ==
  /\ p_pc[p] = "writing" /\ writers >= 1
  /\ Semop(p, -1, 0)
  /\ SemGoto(p, "free")

\* The process ends, normally or not, and the kernel undoes its operations as
\* far as a semaphore has that much.
Undo(p) == undoW[p]
NotNegative(n) == IF n < 0 THEN 0 ELSE n

Exit(p) ==
  /\ p_pc[p] # "new"
  /\ writers' = NotNegative(writers + Undo(p)) /\ readers' = NotNegative(readers + undoR[p])
  /\ undoW' = [undoW EXCEPT ![p] = 0] /\ undoR' = [undoR EXCEPT ![p] = 0]
  /\ SemGoto(p, "new")
  /\ UNCHANGED <<created, wiped>>

SemLock(p) == rlock(p) \/ unrlock(p) \/ wlock(p) \/ unwlock(p)
SemNext == \E p \in Processes : Create(p) \/ Attach(p) \/ SetAll(p) \/ SemLock(p) \/ Exit(p)

\* "wait first and second sem to 0": a writer has the lock to itself, unless
\* init of the process that created the semaphores has set them to zero under
\* a process that had the lock.
WriterAlone ==
  \A p, q \in Processes : p # q /\ p_pc[p] = "writing" => p_pc[q] \notin {"writing", "reading"}
WriterExclusive == ~wiped => WriterAlone

\* The semaphores count the processes that have the lock, also after processes
\* have died with it: an abandoned lock is never left locked, with the same
\* exception.
HoldersCounted ==
  writers = Cardinality(SemHolding("writing")) /\ readers = Cardinality(SemHolding("reading"))
SemaphoresExact == ~wiped => HoldersCounted

-----------------------------------------------------------------------------
(* AutoResetFreeEvent of util/locks_util.h: an event on an atomic status,  *)
(* with a LightSemaphore for the threads that have to sleep.  The          *)
(* semaphore is used through the specification that LightSemaphore is      *)
(* shown to implement.                                                     *)

f_sema == INSTANCE CountingSemaphore WITH Initial <- 0, MaxUnits <- 1

FreeInit ==
  /\ m_status = InitialStatus /\ f_sema!Init
  /\ f_pc = [t \in Users |-> "idle"]
  /\ calls = 0 /\ returned = 0

FreeGoto(t, l) == f_pc' = [f_pc EXCEPT ![t] = l]

\* The compare-exchange of signal succeeds; a call that finds the event
\* signaled returns.
AnyStatus == TRUE                                                     \* fault
NotSignaled == m_status < 1

MustPost == m_status < 0

FreeSignal(t) ==
  /\ f_pc[t] = "idle" /\ NotSignaled /\ calls < MaxCalls
  /\ m_status' = m_status + 1
  /\ calls' = calls + 1
  /\ FreeGoto(t, IF MustPost THEN "post" ELSE "idle")
  /\ UNCHANGED <<available, acquired, returned>>

FreePost(t) ==
  /\ f_pc[t] = "post"
  /\ f_sema!signal(1)
  /\ FreeGoto(t, "idle")
  /\ UNCHANGED <<m_status, calls, returned>>

MustSleep == m_status < 1

wait(t) ==
  /\ f_pc[t] = "idle"
  /\ m_status' = m_status - 1
  /\ IF MustSleep THEN FreeGoto(t, "sleep") /\ UNCHANGED returned
                  ELSE returned' = returned + 1 /\ UNCHANGED f_pc
  /\ UNCHANGED <<available, acquired, calls>>

Wake(t) ==
  /\ f_pc[t] = "sleep"
  /\ f_sema!wait(1)
  /\ returned' = returned + 1
  /\ FreeGoto(t, "idle")
  /\ UNCHANGED <<m_status, calls>>

FreeNext == \E t \in Users : FreeSignal(t) \/ FreePost(t) \/ wait(t) \/ Wake(t)

FreeSleeping == {t \in Users : f_pc[t] = "sleep"}
Posting == {t \in Users : f_pc[t] = "post"}

\* "m_status == -N: Event object is reset and N threads are waiting": threads
\* whose release is not on its way are counted exactly, so that none is left
\* behind when the event is signaled or reset.
StatusExact ==
  /\ m_status <= 1
  /\ Cardinality(FreeSleeping) = available + Cardinality(Posting) + Max({0, -m_status})

\* Each signal releases one wait at most.
OneReleasePerSignal == returned <= InitialStatus + calls

-----------------------------------------------------------------------------
(* AutoResetEvent (AutoReset = TRUE) and ManualResetEvent (AutoReset = FALSE) of     *)
(* util/locks_util.h: a flag under a mutex and a condition variable.  A    *)
(* critical section is one step; a woken thread is at "check" until it has *)
(* the mutex again.                                                        *)

EventInit ==
  /\ signaled = FALSE
  /\ r_pc = [t \in Users |-> "idle"]
  /\ r_timed = {}
  /\ sets = 0 /\ released = 0

EventSleeping == {t \in Users : r_pc[t] = "sleep"}
EventGoto(t, l) == r_pc' = [r_pc EXCEPT ![t] = l]

EventSignal ==
  IF EventSleeping = {} THEN r_pc' = r_pc
  ELSE \E t \in EventSleeping : EventGoto(t, "check")
EventBroadcast == r_pc' = [t \in Users |-> IF t \in EventSleeping THEN "check" ELSE r_pc[t]]

\* What a wait that returns leaves in the flag.
AfterWait == IF AutoReset THEN FALSE ELSE signaled

EventReturn(t) ==
  /\ signaled' = AfterWait
  /\ released' = released + (IF signaled /\ AutoReset THEN 1 ELSE 0)
  /\ EventGoto(t, "idle")

\* wait and waitFor, and tryWait, which is waitFor(0)
EventWait(t, timeouts) ==
  /\ r_pc[t] = "idle"
  /\ r_timed' = IF timeouts THEN r_timed \cup {t} ELSE r_timed \ {t}
  /\ IF signaled THEN EventReturn(t)
                 ELSE EventGoto(t, "sleep") /\ UNCHANGED <<signaled, released>>
  /\ UNCHANGED sets

\* wait looks again, waitFor takes what it finds.
EventCheck(t) ==
  /\ r_pc[t] = "check"
  /\ IF signaled \/ t \in r_timed
     THEN EventReturn(t) /\ r_timed' = r_timed \ {t}
     ELSE EventGoto(t, "sleep") /\ UNCHANGED <<signaled, r_timed, released>>
  /\ UNCHANGED sets

EventTimeout(t) ==
  /\ r_pc[t] = "sleep" /\ t \in r_timed
  /\ EventGoto(t, "check")
  /\ UNCHANGED <<signaled, r_timed, sets, released>>

EventSpurious(t) ==
  /\ r_pc[t] = "sleep"
  /\ EventGoto(t, "check")
  /\ UNCHANGED <<signaled, r_timed, sets, released>>

SetNotify == IF AutoReset THEN EventSignal ELSE EventBroadcast

set ==
  /\ sets < MaxSets
  /\ sets' = sets + 1
  /\ signaled' = TRUE
  /\ SetNotify
  /\ UNCHANGED <<r_timed, released>>

resetEvent ==
  /\ signaled' = FALSE
  /\ UNCHANGED <<r_pc, r_timed, sets, released>>

EventNext ==
  \/ \E t \in Users, timeouts \in BOOLEAN : EventWait(t, timeouts)
  \/ \E t \in Users : EventCheck(t) \/ EventTimeout(t) \/ EventSpurious(t)
  \/ set \/ resetEvent

\* While the event is signaled nobody sleeps for good: a thread is on its way
\* to take an automatic event, and a manual one leaves no sleeper at all.
NobodyLeftBehind ==
  signaled /\ EventSleeping # {} => AutoReset /\ \E t \in Users : r_pc[t] = "check"

\* "after releasing a single waiting thread": an automatic event lets one wait
\* succeed for each set.
OneReleasePerSet == AutoReset => released <= sets

-----------------------------------------------------------------------------
(* CountDownLatch (Latch = TRUE) and BlockingCounter (Latch = FALSE) of    *)
(* util/locks_util.h, and CondVar::waitFor of util/locks_util.cpp as far   *)
(* as the latch depends on its result.  A critical section is one step; a  *)
(* woken thread is at "check" until it has the mutex again.                *)

LatchInit ==
  /\ count = Count
  /\ l_pc = [t \in Users |-> "idle"]
  /\ l_timed = {} /\ woken = [t \in Users |-> TRUE]

LatchSleeping == {t \in Users : l_pc[t] = "sleep"}
LatchGoto(t, l) == l_pc' = [l_pc EXCEPT ![t] = l]
LatchBroadcast == l_pc' = [t \in Users |-> IF t \in LatchSleeping THEN "check" ELSE l_pc[t]]

\* CondVar::waitFor and waitUtil: the result after a timeout, or after a signal
WaitResult(timeout) == TRUE

Decremented(n) ==
  IF Latch THEN (IF n >= count THEN 0 ELSE count - n)
           ELSE (count - n) % Wrap

countDown(n) ==
  /\ ~(Latch /\ count = 0)
  /\ count' = Decremented(n)
  /\ IF count' = 0 THEN LatchBroadcast ELSE l_pc' = l_pc
  /\ UNCHANGED <<l_timed, woken>>

ResetWakes(n) == Latch /\ n = 0

resetLatch(n) ==
  /\ count' = n
  /\ IF ResetWakes(n) THEN LatchBroadcast ELSE l_pc' = l_pc
  /\ UNCHANGED <<l_timed, woken>>

\* wait, and waitFor and waitUntil of the latch
LatchWait(t, timeouts) ==
  /\ l_pc[t] = "idle" /\ (timeouts => Latch)
  /\ count > 0
  /\ l_timed' = IF timeouts THEN l_timed \cup {t} ELSE l_timed \ {t}
  /\ LatchGoto(t, "sleep")
  /\ UNCHANGED <<count, woken>>

LatchCheck(t) ==
  /\ l_pc[t] = "check"
  /\ LatchGoto(t, IF count > 0 /\ woken[t] THEN "sleep" ELSE "idle")
  /\ UNCHANGED <<count, l_timed, woken>>

LatchTimeout(t) ==
  /\ l_pc[t] = "sleep" /\ t \in l_timed
  /\ woken' = [woken EXCEPT ![t] = WaitResult(TRUE)]
  /\ LatchGoto(t, "check")
  /\ UNCHANGED <<count, l_timed>>

LatchSpurious(t) ==
  /\ l_pc[t] = "sleep"
  /\ woken' = [woken EXCEPT ![t] = WaitResult(FALSE)]
  /\ LatchGoto(t, "check")
  /\ UNCHANGED <<count, l_timed>>

LatchNext ==
  \/ \E n \in Amounts : countDown(n)
  \/ \E n \in Resets : resetLatch(n)
  \/ \E t \in Users, timeouts \in BOOLEAN : LatchWait(t, timeouts)
  \/ \E t \in Users : LatchCheck(t) \/ LatchTimeout(t) \/ LatchSpurious(t)

\* "all waiting threads are woken up": nobody sleeps on a count of zero,
\* whether it was counted down or reset to zero.
NobodySleepsAtZero == count = 0 => LatchSleeping = {}

-----------------------------------------------------------------------------
(* Notification of util/locks_util.h: a flag that is set once.  A waiter   *)
(* looks at the flag without the mutex first, so that it may return, and   *)
(* destroy the notification, while the notifier is still inside notify.    *)

NoteInit ==
  /\ notified = FALSE /\ mu = Nobody /\ npc = "idle"
  /\ n_pc = [w \in Waiters |-> "idle"] /\ n_timed = {}
  /\ result = [w \in Waiters |-> FALSE] /\ alive = TRUE

NoteGoto(w, l) == n_pc' = [n_pc EXCEPT ![w] = l]
NoteSleeping == {w \in Waiters : n_pc[w] = "sleep"}

(* notify                                                                  *)

NotifyLock ==
  /\ npc = "idle" /\ mu = Nobody /\ ~notified
  /\ mu' = "notifier" /\ npc' = "store"
  /\ UNCHANGED <<notified, n_pc, n_timed, result, alive>>

NotifyStore ==
  /\ npc = "store"
  /\ notified' = TRUE /\ npc' = "notify_all"
  /\ UNCHANGED <<mu, n_pc, n_timed, result, alive>>

WakeAll == n_pc' = [w \in Waiters |-> IF w \in NoteSleeping THEN "check" ELSE n_pc[w]]

NotifyAll ==
  /\ npc = "notify_all"
  /\ WakeAll
  /\ npc' = "unlock"
  /\ UNCHANGED <<notified, mu, n_timed, result, alive>>

NotifyUnlock ==
  /\ npc = "unlock"
  /\ mu' = Nobody /\ npc' = "done"
  /\ UNCHANGED <<notified, n_pc, n_timed, result, alive>>

(* waitForNotification and waitForNotificationWithTimeout                  *)

NoteReturn(w, r) == NoteGoto(w, "returned") /\ result' = [result EXCEPT ![w] = r]

Look(w, timeouts) ==
  /\ n_pc[w] = "idle"
  /\ n_timed' = IF timeouts THEN n_timed \cup {w} ELSE n_timed \ {w}
  /\ IF notified THEN NoteReturn(w, TRUE) ELSE NoteGoto(w, "check") /\ UNCHANGED result
  /\ UNCHANGED <<notified, mu, npc, alive>>

\* Under the mutex: look again, and sleep when there is still nothing.
NoteCheck(w) ==
  /\ n_pc[w] = "check" /\ mu = Nobody
  /\ IF notified THEN NoteReturn(w, TRUE) ELSE NoteGoto(w, "sleep") /\ UNCHANGED result
  /\ UNCHANGED <<notified, mu, npc, n_timed, alive>>

NoteSpurious(w) ==
  /\ n_pc[w] = "sleep"
  /\ NoteGoto(w, "check")
  /\ UNCHANGED <<notified, mu, npc, n_timed, result, alive>>

\* After a timeout the value read before the sleep is returned.
NoteTimeout(w) ==
  /\ n_pc[w] = "sleep" /\ w \in n_timed
  /\ NoteGoto(w, "timeout")
  /\ UNCHANGED <<notified, mu, npc, n_timed, result, alive>>

TimeoutReturn(w) ==
  /\ n_pc[w] = "timeout" /\ mu = Nobody
  /\ NoteReturn(w, FALSE)
  /\ UNCHANGED <<notified, mu, npc, n_timed, alive>>

\* A caller that timed out may wait again.
Again(w) ==
  /\ n_pc[w] = "returned" /\ ~result[w]
  /\ NoteGoto(w, "idle")
  /\ UNCHANGED <<notified, mu, npc, n_timed, result, alive>>

\* The destructor passes through the mutex.
NoLock == TRUE                                                        \* fault
DestructorLock == mu = Nobody

Destroy ==
  /\ alive /\ result[Owner]
  /\ \A w \in Waiters : n_pc[w] \in {"idle", "returned"}
  /\ DestructorLock
  /\ alive' = FALSE
  /\ UNCHANGED <<notified, mu, npc, n_pc, n_timed, result>>

Notify == NotifyLock \/ NotifyStore \/ NotifyAll \/ NotifyUnlock
NoteWaiter(w) == NoteCheck(w) \/ NoteSpurious(w) \/ NoteTimeout(w) \/ TimeoutReturn(w) \/ Again(w)

\* The user calls nothing on a destroyed notification.
NoteNext ==
  \/ Notify \/ Destroy
  \/ \E w \in Waiters : NoteWaiter(w) \/ (alive /\ \E b \in BOOLEAN : Look(w, b))

\* "force any prior notifier to leave its critical section before the object
\* is destroyed": nobody is inside a call when the destructor returns.
NotifierOutside ==
  ~alive => npc = "done" /\ \A w \in Waiters : n_pc[w] \in {"idle", "returned"}

\* A wait says that there was a notification only when there was one, and once
\* notify has left nobody sleeps.
WaitsAreRight ==
  /\ \A w \in Waiters : result[w] => notified
  /\ npc = "done" => NoteSleeping = {}

-----------------------------------------------------------------------------
(* FutureSem of util/locks_util.h: a value set once, a flag that says so,  *)
(* and a semaphore for those who came before it.  There is no lock: set    *)
(* writes the value, then the flag, and posts the semaphore once.  With a  *)
(* positive ms, wait computes an instant that is over, with tv_nsec left   *)
(* unset, so that the wait is over at once or is refused as invalid.       *)

FutureInit ==
  /\ completed = FALSE /\ data = FALSE /\ sem = 0 /\ spc = "data"
  /\ u_pc = [g \in Getters |-> "idle"]
  /\ got = [g \in Getters |-> FALSE] /\ expired = {}

FutureGoto(g, l) == u_pc' = [u_pc EXCEPT ![g] = l]

(* set *)

\* data_ = t stands before completed_ = true, and a compiler barrier between.
Turn(step) == spc = step

NextTurn == [data |-> "flag", flag |-> "post", post |-> "done"]

SetData == /\ Turn("data") /\ spc' = NextTurn[spc]
           /\ data' = TRUE
           /\ UNCHANGED <<completed, sem, u_pc, got, expired>>

SetCompleted == /\ Turn("flag") /\ spc' = NextTurn[spc]
                /\ completed' = TRUE
                /\ UNCHANGED <<data, sem, u_pc, got, expired>>

NoPost == 0                                                           \* fault
Posted == 1

SetPost == /\ Turn("post") /\ spc' = NextTurn[spc]
           /\ sem' = sem + Posted
           /\ UNCHANGED <<completed, data, u_pc, got, expired>>

(* get *)

\* get looks at the flag first; only one who finds it clear waits, with a
\* time limit or without.
Get(g) == /\ u_pc[g] = "idle"
          /\ \E l \in IF completed THEN {"ready"} ELSE {"wait", "timedwait"} : FutureGoto(g, l)
          /\ UNCHANGED <<completed, data, sem, spc, got, expired>>

\* sem_wait, and sem_timedwait that finds the semaphore posted; both are
\* retried when a signal interrupts them.
FutureWait(g) == /\ u_pc[g] \in {"wait", "timedwait"} /\ sem > 0
           /\ sem' = sem - 1 /\ FutureGoto(g, "waited")
           /\ UNCHANGED <<completed, data, spc, got, expired>>

\* sem_timedwait fails: with ETIMEDOUT, after which get goes on to its
\* assertion, or with EINVAL, when tv_nsec happens to be out of range, and
\* abort follows.
FutureTimeout(g) == /\ u_pc[g] = "timedwait" /\ sem = 0
           /\ \/ FutureGoto(g, "waited") /\ expired' = expired \cup {g}
              \/ FutureGoto(g, "aborted") /\ UNCHANGED expired
           /\ UNCHANGED <<completed, data, sem, spc, got>>

\* assert(completed_ == true)
Assert(g) == /\ u_pc[g] \in {"ready", "waited"}
             /\ FutureGoto(g, IF completed THEN "returned" ELSE "asserted")
             /\ got' = [got EXCEPT ![g] = completed /\ data]
             /\ UNCHANGED <<completed, data, sem, spc, expired>>

FutureSet == SetData \/ SetCompleted \/ SetPost
Getting(g) == Get(g) \/ FutureWait(g) \/ FutureTimeout(g) \/ Assert(g)

\* The process is there: neither the assertion nor abort has ended it.
FutureAlive == \A g \in Getters : u_pc[g] \notin {"asserted", "aborted"}
FutureNext == FutureAlive /\ (FutureSet \/ \E g \in Getters : Getting(g))

\* Whoever returns from get has the value set gave, although no lock orders
\* the reading of data_ after the flag, or after the semaphore.
ReturnsTheValue == \A g \in Getters : u_pc[g] = "returned" => got[g]

\* get asserts after its wait that the value is there.  Only a get with a time
\* limit, whose wait was over before the value came, fails the assertion.
AssertionHolds == \A g \in Getters : u_pc[g] = "asserted" => g \in expired

-----------------------------------------------------------------------------
(* Theorems.  A thread that goes from one place to another changes two     *)
(* numbers: the one of those where it was and the one of those where it    *)
(* is now.                                                                 *)

AtPlace(f, k) == {x \in DOMAIN f : f[x] = k}

\* The sizes of two sets that differ in at most one element.
LEMMA OneDiffers ==
  ASSUME NEW S, IsFiniteSet(S), NEW A \in SUBSET S, NEW B \in SUBSET S, NEW p \in S,
         \A x \in S \ {p} : x \in A <=> x \in B
  PROVE  /\ IsFiniteSet(A) /\ IsFiniteSet(B) /\ Cardinality(A) \in Nat /\ Cardinality(B) \in Nat
         /\ Cardinality(B) =
              Cardinality(A) + (IF p \in B THEN 1 ELSE 0) - (IF p \in A THEN 1 ELSE 0)
<1>1. IsFiniteSet(A) /\ IsFiniteSet(B)
  BY FS_Subset
<1>2. Cardinality(A) \in Nat /\ Cardinality(B) \in Nat
  BY <1>1, FS_CardinalityType
<1>3. CASE p \in A <=> p \in B
  <2>1. \A x : x \in A <=> x \in B
    BY <1>3
  <2>2. A = B
    BY <2>1
  <2> QED BY <1>1, <1>2, <1>3, <2>2
<1>4. CASE p \in A /\ p \notin B
  <2>1. B = A \ {p}
    BY <1>4
  <2>2. Cardinality(B) = Cardinality(A) - 1
    BY <1>1, <1>4, <2>1, FS_RemoveElement
  <2> QED BY <1>1, <1>2, <1>4, <2>2
<1>5. CASE p \notin A /\ p \in B
  <2>1. B = A \cup {p}
    BY <1>5
  <2>2. Cardinality(B) = Cardinality(A) + 1
    BY <1>1, <1>5, <2>1, FS_AddElement
  <2> QED BY <1>1, <1>2, <1>5, <2>2
<1> QED BY <1>3, <1>4, <1>5

\* What one thread's move does to the number of threads at a place.
LEMMA OneMoves ==
  ASSUME NEW S, IsFiniteSet(S), NEW f, NEW g, DOMAIN f = S, DOMAIN g = S,
         NEW p \in S, \A x \in S \ {p} : g[x] = f[x], NEW k
  PROVE  /\ IsFiniteSet(AtPlace(f, k)) /\ IsFiniteSet(AtPlace(g, k))
         /\ Cardinality(AtPlace(f, k)) \in Nat /\ Cardinality(AtPlace(g, k)) \in Nat
         /\ Cardinality(AtPlace(g, k)) =
              Cardinality(AtPlace(f, k)) + (IF k = g[p] THEN 1 ELSE 0) - (IF k = f[p] THEN 1 ELSE 0)
<1>1. AtPlace(f, k) \in SUBSET S /\ AtPlace(g, k) \in SUBSET S
  BY DEF AtPlace
<1>2. \A x \in S \ {p} : x \in AtPlace(f, k) <=> x \in AtPlace(g, k)
  BY DEF AtPlace
<1>3. (p \in AtPlace(f, k) <=> k = f[p]) /\ (p \in AtPlace(g, k) <=> k = g[p])
  BY DEF AtPlace
<1> QED BY <1>1, <1>2, <1>3, OneDiffers

-----------------------------------------------------------------------------

semVars == <<created, writers, readers, undoW, undoR, p_pc, wiped>>
SemMutexSpec == SemInit /\ [][SemNext]_semVars

SemPlaces == {"new", "setall", "free", "reading", "writing"}

\* While no holder was wiped out: what the kernel will undo is exactly what a
\* process that has the lock did.
SemInv ==
  /\ created \in BOOLEAN
  /\ p_pc \in [Processes -> SemPlaces]
  /\ undoW = [p \in Processes |-> IF p_pc[p] = "writing" THEN -1 ELSE 0]
  /\ undoR = [p \in Processes |-> IF p_pc[p] = "reading" THEN -1 ELSE 0]
  /\ ~created => \A p \in Processes : p_pc[p] = "new"
  /\ WriterAlone /\ HoldersCounted

\* The numbers of processes that have the lock, after p has gone to l.
LEMMA SemMoves ==
  ASSUME SemMutexAssumption, SemInv, NEW p \in Processes, NEW l \in SemPlaces, SemGoto(p, l)
  PROVE  /\ p_pc' \in [Processes -> SemPlaces]
         /\ p_pc'[p] = l /\ \A q \in Processes \ {p} : p_pc'[q] = p_pc[q]
         /\ writers \in Nat /\ readers \in Nat
         /\ Cardinality(SemHolding("writing")') =
              writers + (IF l = "writing" THEN 1 ELSE 0)
                      - (IF p_pc[p] = "writing" THEN 1 ELSE 0)
         /\ Cardinality(SemHolding("reading")') =
              readers + (IF l = "reading" THEN 1 ELSE 0)
                      - (IF p_pc[p] = "reading" THEN 1 ELSE 0)
         /\ writers = 0 => \A q \in Processes : p_pc[q] # "writing"
         /\ readers = 0 => \A q \in Processes : p_pc[q] # "reading"
<1>1. /\ p_pc' \in [Processes -> SemPlaces] /\ p_pc \in [Processes -> SemPlaces]
      /\ DOMAIN p_pc = Processes /\ DOMAIN p_pc' = Processes
      /\ p_pc'[p] = l /\ \A q \in Processes \ {p} : p_pc'[q] = p_pc[q]
      /\ IsFiniteSet(Processes)
  BY DEF SemGoto, SemInv, SemMutexAssumption
<1>2. \A k : SemHolding(k) = AtPlace(p_pc, k) /\ SemHolding(k)' = AtPlace(p_pc', k)
  BY <1>1 DEF SemHolding, AtPlace
<1>3. writers = Cardinality(SemHolding("writing")) /\ readers = Cardinality(SemHolding("reading"))
  BY DEF SemInv, HoldersCounted
<1>4. \A k : /\ IsFiniteSet(AtPlace(p_pc, k)) /\ Cardinality(AtPlace(p_pc, k)) \in Nat
             /\ Cardinality(AtPlace(p_pc', k)) = Cardinality(AtPlace(p_pc, k))
                  + (IF k = l THEN 1 ELSE 0) - (IF k = p_pc[p] THEN 1 ELSE 0)
  BY <1>1, OneMoves
<1>5. \A k : Cardinality(SemHolding(k)) = 0 => \A q \in Processes : p_pc[q] # k
  <2>1. \A k : Cardinality(SemHolding(k)) = 0 => SemHolding(k) = {}
    BY <1>2, <1>4, FS_EmptySet
  <2> QED BY <2>1 DEF SemHolding
<1> QED BY <1>1, <1>2, <1>3, <1>4, <1>5

\* init: nobody has the lock while the semaphores are set to zero.
LEMMA SemSetUp ==
  ASSUME SemMutexAssumption, SemInv, ~wiped', NEW p \in Processes,
         Create(p) \/ Attach(p) \/ SetAll(p)
  PROVE  SemInv'
<1>2. PICK l \in {"setall", "free"} : SemGoto(p, l) /\ p_pc[p] \in {"new", "setall"}
  BY DEF Create, Attach, SetAll
<1>3. /\ p_pc' \in [Processes -> SemPlaces]
      /\ p_pc'[p] = l /\ \A q \in Processes \ {p} : p_pc'[q] = p_pc[q]
      /\ writers \in Nat /\ readers \in Nat
      /\ Cardinality(SemHolding("writing")') = writers
      /\ Cardinality(SemHolding("reading")') = readers
  BY <1>2, SemMoves DEF SemPlaces
<1>4. SetAll(p) => SemHolding("writing") = {} /\ SemHolding("reading") = {}
  BY DEF SetAll
<1>5. SetAll(p) => writers = 0 /\ readers = 0
  BY <1>4, FS_EmptySet DEF SemInv, HoldersCounted
<1>6. writers' = writers /\ readers' = readers
  BY <1>5 DEF Create, Attach, SetAll
<1>7. /\ undoW' = [q \in Processes |-> IF p_pc'[q] = "writing" THEN -1 ELSE 0]
      /\ undoR' = [q \in Processes |-> IF p_pc'[q] = "reading" THEN -1 ELSE 0]
  <2>1. SetAll(p) => \A q \in Processes : p_pc[q] \notin {"reading", "writing"}
    BY <1>4 DEF SemHolding
  <2> QED BY <1>2, <1>3, <2>1 DEF Create, Attach, SetAll, SemInv
<1>8. created' = TRUE
  BY DEF Create, Attach, SetAll, SemInv
<1>9. HoldersCounted' /\ WriterAlone'
  BY <1>2, <1>3, <1>6 DEF HoldersCounted, WriterAlone, SemInv
<1> QED BY <1>3, <1>7, <1>8, <1>9 DEF SemInv

\* Locking and unlocking in one semop: the values of the semaphores tell who may
\* enter.
LEMMA SemLockStep ==
  ASSUME SemMutexAssumption, SemInv, NEW p \in Processes,
         NEW w \in {-1, 0, 1}, NEW r \in {-1, 0, 1}, NEW l \in {"free", "reading", "writing"},
         Semop(p, w, r), SemGoto(p, l),
         \/ p_pc[p] = "free" /\ writers = 0 /\ w = 0 /\ r = 1 /\ l = "reading"
         \/ p_pc[p] = "reading" /\ w = 0 /\ r = -1 /\ l = "free"
         \/ p_pc[p] = "free" /\ writers = 0 /\ readers = 0 /\ w = 1 /\ r = 0 /\ l = "writing"
         \/ p_pc[p] = "writing" /\ w = -1 /\ r = 0 /\ l = "free"
  PROVE  SemInv'
<1>1. /\ p_pc' \in [Processes -> SemPlaces]
      /\ p_pc'[p] = l /\ \A q \in Processes \ {p} : p_pc'[q] = p_pc[q]
      /\ writers \in Nat /\ readers \in Nat
      /\ Cardinality(SemHolding("writing")') =
           writers + (IF l = "writing" THEN 1 ELSE 0) - (IF p_pc[p] = "writing" THEN 1 ELSE 0)
      /\ Cardinality(SemHolding("reading")') =
           readers + (IF l = "reading" THEN 1 ELSE 0) - (IF p_pc[p] = "reading" THEN 1 ELSE 0)
      /\ writers = 0 => \A q \in Processes : p_pc[q] # "writing"
      /\ readers = 0 => \A q \in Processes : p_pc[q] # "reading"
  BY SemMoves DEF SemPlaces
<1>2. HoldersCounted'
  BY <1>1 DEF Semop, HoldersCounted
<1>3. WriterAlone'
  BY <1>1 DEF WriterAlone, SemInv
<1>4. /\ undoW' = [q \in Processes |-> IF p_pc'[q] = "writing" THEN -1 ELSE 0]
      /\ undoR' = [q \in Processes |-> IF p_pc'[q] = "reading" THEN -1 ELSE 0]
  <2>1. /\ undoW' = [undoW EXCEPT ![p] = undoW[p] - w]
        /\ undoR' = [undoR EXCEPT ![p] = undoR[p] - r]
    BY DEF Semop
  <2>2. /\ undoW[p] = IF p_pc[p] = "writing" THEN -1 ELSE 0
        /\ undoR[p] = IF p_pc[p] = "reading" THEN -1 ELSE 0
    BY DEF SemInv
  <2>3. /\ undoW[p] - w = IF l = "writing" THEN -1 ELSE 0
        /\ undoR[p] - r = IF l = "reading" THEN -1 ELSE 0
    BY <2>2
  <2> QED BY <1>1, <2>1, <2>3 DEF SemInv
<1>5. created' \in BOOLEAN /\ created'
  BY DEF Semop, SemInv
<1> QED BY <1>1, <1>2, <1>3, <1>4, <1>5 DEF SemInv

\* rlock, unrlock, wlock and unwlock.
LEMMA SemLocks ==
  ASSUME SemMutexAssumption, SemInv, NEW p \in Processes, SemLock(p)
  PROVE  SemInv'
<1>1. CASE rlock(p)
  BY <1>1, SemLockStep DEF rlock, NoWriter
<1>2. CASE unrlock(p)
  BY <1>2, SemLockStep DEF unrlock
<1>3. CASE wlock(p)
  BY <1>3, SemLockStep DEF wlock, NoWriter
<1>4. CASE unwlock(p)
  BY <1>4, SemLockStep DEF unwlock
<1> QED BY <1>1, <1>2, <1>3, <1>4 DEF SemLock

\* The end of a process, also with the lock: SEM_UNDO gives it back.
LEMMA SemExits ==
  ASSUME SemMutexAssumption, SemInv, NEW p \in Processes, Exit(p)
  PROVE  SemInv'
<1>1. /\ SemGoto(p, "new") /\ created' = created /\ created
      /\ writers' = NotNegative(writers + undoW[p]) /\ readers' = NotNegative(readers + undoR[p])
      /\ undoW' = [undoW EXCEPT ![p] = 0] /\ undoR' = [undoR EXCEPT ![p] = 0]
  BY DEF Exit, Undo, SemInv
<1>2. /\ p_pc' \in [Processes -> SemPlaces]
      /\ p_pc'[p] = "new" /\ \A q \in Processes \ {p} : p_pc'[q] = p_pc[q]
      /\ writers \in Nat /\ readers \in Nat
      /\ Cardinality(SemHolding("writing")') = writers - (IF p_pc[p] = "writing" THEN 1 ELSE 0)
      /\ Cardinality(SemHolding("reading")') = readers - (IF p_pc[p] = "reading" THEN 1 ELSE 0)
  BY <1>1, SemMoves DEF SemPlaces
<1>3. HoldersCounted'
  <2>1. /\ undoW[p] = (IF p_pc[p] = "writing" THEN -1 ELSE 0)
        /\ undoR[p] = (IF p_pc[p] = "reading" THEN -1 ELSE 0)
    BY DEF SemInv
  <2>2. /\ p_pc[p] = "writing" => writers >= 1
        /\ p_pc[p] = "reading" => readers >= 1
    BY SemMoves, <1>1 DEF SemPlaces
  <2> QED BY <1>1, <1>2, <2>1, <2>2 DEF HoldersCounted, NotNegative
<1>4. WriterAlone'
  BY <1>2 DEF WriterAlone, SemInv
<1>5. /\ undoW' = [q \in Processes |-> IF p_pc'[q] = "writing" THEN -1 ELSE 0]
      /\ undoR' = [q \in Processes |-> IF p_pc'[q] = "reading" THEN -1 ELSE 0]
  BY <1>1, <1>2 DEF SemInv
<1>7. created' \in BOOLEAN /\ created'
  BY <1>1 DEF SemInv
<1> QED BY <1>2, <1>3, <1>4, <1>5, <1>7 DEF SemInv

\* A writer has a TCSemMutex to itself, and its semaphores count the processes
\* that have the lock also after processes died with it: for every number of
\* processes, as long as no SETALL of init has hit a process that had the lock.
THEOREM SemMutexSafe ==
  ASSUME SemMutexAssumption
  PROVE  SemMutexSpec => [](WriterExclusive /\ SemaphoresExact)
<1> DEFINE J == wiped \in BOOLEAN /\ (~wiped => SemInv)
<1>1. SemInit => J
  <2> SUFFICES ASSUME SemInit PROVE J
    OBVIOUS
  <2>1. SemHolding("writing") = {} /\ SemHolding("reading") = {}
    BY DEF SemInit, SemHolding
  <2>2. HoldersCounted
    BY <2>1, FS_EmptySet DEF HoldersCounted, SemInit
  <2> QED BY <2>2 DEF SemInit, SemInv, SemPlaces, WriterAlone
<1>2. J /\ [SemNext]_semVars => J'
  <2> SUFFICES ASSUME J, [SemNext]_semVars PROVE J'
    OBVIOUS
  <2>1. wiped' \in BOOLEAN /\ (wiped => wiped')
    BY DEF SemNext, semVars, Create, Attach, SetAll, SemLock, rlock, unrlock, wlock, unwlock,
           Semop, Exit
  <2>2. ASSUME SemInv, UNCHANGED semVars PROVE SemInv'
    BY <2>2 DEF semVars, SemInv, WriterAlone, HoldersCounted, SemHolding
  <2>3. ASSUME ~wiped' PROVE SemInv'
    BY <2>1, <2>2, <2>3, SemSetUp, SemLocks, SemExits DEF SemNext
  <2> QED BY <2>1, <2>3
<1>3. J => WriterExclusive /\ SemaphoresExact
  BY DEF SemInv, WriterExclusive, SemaphoresExact
<1> QED BY <1>1, <1>2, <1>3, PTL DEF SemMutexSpec

-----------------------------------------------------------------------------

grantVars == <<value, fHaveGrant, g_pc, from>>
GrantSpec == GrantInit /\ [][GrantNext]_grantVars

GrantPlaces == {"idle", "check", "sleep", "notify", "notified", "moving"}
Holding == {g \in Grants : fHaveGrant[g] /\ g_pc[g] # "notify"}
Coming == GrantsAt("check") \cup GrantsAt("notify")

\* A grant that waits for a unit or has just given it back holds none, and a
\* grant that is being moved stays where it is until its destination is free.
GrantInv ==
  /\ value \in Nat
  /\ fHaveGrant \in [Grants -> BOOLEAN]
  /\ g_pc \in [Grants -> GrantPlaces]
  /\ from \in [Grants -> Grants \cup {None}]
  /\ \A g \in Grants : g_pc[g] \in {"check", "sleep", "notified"} => ~fHaveGrant[g]
  /\ \A g \in Grants : from[g] # None =>
       g_pc[g] \in {"notify", "notified"} /\ g_pc[from[g]] = "moving"
  /\ \A g, h \in Grants : g # h /\ from[g] # None => from[g] # from[h]
  /\ UnitsConserved /\ UnitsReachSleepers

\* The sizes of the two sets, after a step that concerns g only.
LEMMA GrantSizes ==
  ASSUME GrantAssumption, NEW g \in Grants,
         \A h \in Grants \ {g} : g_pc'[h] = g_pc[h] /\ fHaveGrant'[h] = fHaveGrant[h]
  PROVE  /\ Cardinality(Holding) \in Nat /\ Cardinality(Coming) \in Nat /\ Cardinality(Coming') \in Nat
         /\ Cardinality(Holding') = Cardinality(Holding)
              + (IF fHaveGrant'[g] /\ g_pc'[g] # "notify" THEN 1 ELSE 0)
              - (IF fHaveGrant[g] /\ g_pc[g] # "notify" THEN 1 ELSE 0)
         /\ Cardinality(Coming') = Cardinality(Coming)
              + (IF g_pc'[g] \in {"check", "notify"} THEN 1 ELSE 0)
              - (IF g_pc[g] \in {"check", "notify"} THEN 1 ELSE 0)
<1>1. /\ Holding \in SUBSET Grants /\ Holding' \in SUBSET Grants
      /\ \A h \in Grants \ {g} : h \in Holding <=> h \in Holding'
      /\ g \in Holding <=> fHaveGrant[g] /\ g_pc[g] # "notify"
      /\ g \in Holding' <=> fHaveGrant'[g] /\ g_pc'[g] # "notify"
  BY DEF Holding
<1>2. /\ Coming \in SUBSET Grants /\ Coming' \in SUBSET Grants
      /\ \A h \in Grants \ {g} : h \in Coming <=> h \in Coming'
      /\ g \in Coming <=> g_pc[g] \in {"check", "notify"}
      /\ g \in Coming' <=> g_pc'[g] \in {"check", "notify"}
  BY DEF Coming, GrantsAt
<1>3. IsFiniteSet(Grants)
  BY DEF GrantAssumption
<1>4. /\ Cardinality(Holding) \in Nat
      /\ Cardinality(Holding') = Cardinality(Holding)
           + (IF g \in Holding' THEN 1 ELSE 0) - (IF g \in Holding THEN 1 ELSE 0)
  BY <1>1, <1>3, OneDiffers
<1>5. /\ Cardinality(Coming) \in Nat /\ Cardinality(Coming') \in Nat
      /\ Cardinality(Coming') = Cardinality(Coming)
           + (IF g \in Coming' THEN 1 ELSE 0) - (IF g \in Coming THEN 1 ELSE 0)
  BY <1>2, <1>3, OneDiffers
<1> QED BY <1>1, <1>2, <1>4, <1>5

\* The two properties, from the sizes.
LEMMA GrantCounts ==
  GrantInv => /\ value + Cardinality(Holding) = Units
              /\ GrantsAt("sleep") # {} => value <= Cardinality(Coming)
  BY DEF GrantInv, UnitsConserved, UnitsReachSleepers, Holding, Coming

LEMMA GrantCountsNext ==
  ASSUME value' \in Nat, value' + Cardinality(Holding') = Units,
         GrantsAt("sleep")' # {} => value' <= Cardinality(Coming')
  PROVE  UnitsConserved' /\ UnitsReachSleepers'
<1>1. UnitsConserved'
  BY DEF UnitsConserved, Holding
<1>2. UnitsReachSleepers'
  BY DEF UnitsReachSleepers, Coming
<1> QED BY <1>1, <1>2

\* What the thread of one grant does alone.
LEMMA GrantOneStep ==
  ASSUME GrantAssumption, GrantInv, NEW g \in Grants,
         NEW l \in GrantPlaces, NEW b \in BOOLEAN, GrantGoto(g, l),
         fHaveGrant' = [fHaveGrant EXCEPT ![g] = b], from' = from,
         \/ g_pc[g] = "idle" /\ ~fHaveGrant[g] /\ l = "check" /\ ~b /\ value' = value
         \/ g_pc[g] = "check" /\ value < 1 /\ l = "sleep" /\ ~b /\ value' = value
         \/ g_pc[g] = "check" /\ value >= 1 /\ l = "idle" /\ b /\ value' = value - 1
         \/ g_pc[g] = "idle" /\ ~fHaveGrant[g] /\ value >= 1 /\ l = "idle" /\ b /\ value' = value - 1
         \/ g_pc[g] = "sleep" /\ l = "check" /\ ~b /\ value' = value
         \/ g_pc[g] = "idle" /\ fHaveGrant[g] /\ l = "notify" /\ b /\ value' = value + 1
         \/ g_pc[g] = "notified" /\ from[g] = None /\ l = "idle" /\ ~b /\ value' = value
  PROVE  GrantInv'
<1>1. /\ g_pc' \in [Grants -> GrantPlaces] /\ fHaveGrant' \in [Grants -> BOOLEAN]
      /\ g_pc'[g] = l /\ fHaveGrant'[g] = b
      /\ \A h \in Grants \ {g} : g_pc'[h] = g_pc[h] /\ fHaveGrant'[h] = fHaveGrant[h]
  BY DEF GrantInv, GrantGoto
<1>2. value' \in Nat /\ from' \in [Grants -> Grants \cup {None}] /\ value \in Nat
  BY DEF GrantInv
<1>3. /\ Cardinality(Holding) \in Nat /\ Cardinality(Coming) \in Nat /\ Cardinality(Coming') \in Nat
      /\ Cardinality(Holding') = Cardinality(Holding)
           + (IF b /\ l # "notify" THEN 1 ELSE 0)
           - (IF fHaveGrant[g] /\ g_pc[g] # "notify" THEN 1 ELSE 0)
      /\ Cardinality(Coming') = Cardinality(Coming)
           + (IF l \in {"check", "notify"} THEN 1 ELSE 0)
           - (IF g_pc[g] \in {"check", "notify"} THEN 1 ELSE 0)
  BY <1>1, GrantSizes
<1>4. g_pc[g] \in {"check", "sleep", "notified"} => ~fHaveGrant[g]
  BY DEF GrantInv
<1>5. value' + Cardinality(Holding') = Units
  BY <1>2, <1>3, <1>4, GrantCounts
<1>6. GrantsAt("sleep")' # {} => value' <= Cardinality(Coming')
  <2>1. l # "sleep" /\ GrantsAt("sleep")' # {} => GrantsAt("sleep") # {}
    BY <1>1 DEF GrantsAt
  <2>2. GrantsAt("sleep") # {} => value <= Cardinality(Coming)
    BY GrantCounts
  <2>3. CASE l = "sleep"
    BY <1>2, <1>3, <2>3
  <2>4. CASE l # "sleep"
    <3>1. value' <= value + (IF l = "notify" THEN 1 ELSE 0) - (IF g_pc[g] = "check" THEN 1 ELSE 0)
          /\ g_pc[g] # "notify"
      BY <1>2, <2>4
    <3> QED BY <1>2, <1>3, <2>1, <2>2, <2>4, <3>1
  <2> QED BY <2>3, <2>4
<1>7. UnitsConserved' /\ UnitsReachSleepers'
  BY <1>2, <1>5, <1>6, GrantCountsNext
<1>8. \A h \in Grants : g_pc'[h] \in {"check", "sleep", "notified"} => ~fHaveGrant'[h]
  BY <1>1 DEF GrantInv
<1>9. \A h \in Grants : from'[h] # None =>
        g_pc'[h] \in {"notify", "notified"} /\ g_pc'[from'[h]] = "moving"
  BY <1>1 DEF GrantInv
<1> QED BY <1>1, <1>2, <1>7, <1>8, <1>9 DEF GrantInv

\* condition.notify_one, with somebody asleep.
LEMMA GrantNotifyStep ==
  ASSUME GrantAssumption, GrantInv, NEW g \in Grants, GrantNotify(g)
  PROVE  GrantInv'
<1>1. /\ g_pc[g] = "notify" /\ value' = value /\ from' = from
      /\ fHaveGrant' = [fHaveGrant EXCEPT ![g] = FALSE] /\ value \in Nat
      /\ \/ GrantsAt("sleep") = {} /\ g_pc' = [g_pc EXCEPT ![g] = "notified"]
         \/ \E s \in GrantsAt("sleep") : g_pc' = [g_pc EXCEPT ![g] = "notified", ![s] = "check"]
  BY DEF GrantNotify, NotifyOne, GrantGoto, GrantInv
<1>2. /\ g_pc' \in [Grants -> GrantPlaces] /\ g_pc'[g] = "notified"
      /\ fHaveGrant' \in [Grants -> BOOLEAN] /\ ~fHaveGrant'[g]
      /\ \A h \in Grants \ {g} : /\ fHaveGrant'[h] = fHaveGrant[h]
                                 /\ \/ g_pc'[h] = g_pc[h]
                                    \/ g_pc[h] = "sleep" /\ g_pc'[h] = "check"
  BY <1>1 DEF GrantInv, GrantPlaces, GrantsAt
<1>3. Holding' = Holding
  BY <1>1, <1>2 DEF Holding
<1>4. GrantsAt("sleep")' # {} => value' <= Cardinality(Coming')
  <2> SUFFICES ASSUME GrantsAt("sleep")' # {} PROVE value <= Cardinality(Coming')
    BY <1>1
  <2>1. PICK s \in GrantsAt("sleep") : g_pc' = [g_pc EXCEPT ![g] = "notified", ![s] = "check"]
    BY <1>1, <1>2 DEF GrantsAt
  <2>2. s \in Grants /\ s # g /\ s \notin Coming /\ g \in Coming
    BY <1>1, <2>1 DEF GrantsAt, Coming
  <2>3. Coming' = (Coming \ {g}) \cup {s}
    BY <1>1, <2>1, <2>2 DEF GrantsAt, Coming, GrantInv
  <2>4. IsFiniteSet(Coming)
    BY FS_Subset DEF Coming, GrantsAt, GrantAssumption
  <2>5. IsFiniteSet(Coming \ {g}) /\ Cardinality(Coming \ {g}) = Cardinality(Coming) - 1
    BY <2>2, <2>4, FS_RemoveElement
  <2>6. Cardinality(Coming') = Cardinality(Coming \ {g}) + 1
    BY <2>2, <2>3, <2>5, FS_AddElement
  <2>7. Cardinality(Coming) \in Nat /\ value <= Cardinality(Coming)
    BY <2>1, <2>4, FS_CardinalityType, GrantCounts
  <2> QED BY <1>1, <2>5, <2>6, <2>7
<1>5. UnitsConserved' /\ UnitsReachSleepers'
  BY <1>1, <1>3, <1>4, GrantCounts, GrantCountsNext
<1>6. \A h \in Grants : g_pc'[h] \in {"check", "sleep", "notified"} => ~fHaveGrant'[h]
  BY <1>2 DEF GrantInv
<1>7. \A h \in Grants : from'[h] # None =>
        g_pc'[h] \in {"notify", "notified"} /\ g_pc'[from'[h]] = "moving"
  BY <1>1, <1>2 DEF GrantInv
<1> QED BY <1>1, <1>2, <1>5, <1>6, <1>7 DEF GrantInv

\* What a grant holds goes to one that holds nothing.
LEMMA GrantHandedOver ==
  ASSUME GrantAssumption, GrantInv, NEW g \in Grants, NEW h \in Grants, g # h,
         ~fHaveGrant[h], fHaveGrant' = Given(g, h), g_pc[g] # "notify",
         g_pc' \in [Grants -> GrantPlaces], g_pc'[g] = "idle", g_pc'[h] = "idle",
         \A k \in Grants \ {g, h} : g_pc'[k] = g_pc[k],
         g_pc[g] # "check", g_pc[h] \notin {"check", "notify"}, value' = value
  PROVE  /\ UnitsConserved' /\ UnitsReachSleepers' /\ fHaveGrant' \in [Grants -> BOOLEAN]
         /\ \A k \in Grants : g_pc'[k] \in {"check", "sleep", "notified"} => ~fHaveGrant'[k]
<1>1. /\ fHaveGrant' \in [Grants -> BOOLEAN] /\ fHaveGrant'[h] = fHaveGrant[g] /\ ~fHaveGrant'[g]
      /\ \A k \in Grants \ {g, h} : fHaveGrant'[k] = fHaveGrant[k]
  BY DEF Given, GrantInv
<1>2. Cardinality(Holding') = Cardinality(Holding)
  <2>1. CASE fHaveGrant[g]
    <3>1. g \in Holding /\ h \notin Holding
      BY <2>1 DEF Holding
    <3>2. Holding' = (Holding \ {g}) \cup {h}
      BY <1>1, <2>1 DEF Holding
    <3>3. IsFiniteSet(Holding)
      BY FS_Subset DEF Holding, GrantAssumption
    <3>4. IsFiniteSet(Holding \ {g}) /\ Cardinality(Holding \ {g}) = Cardinality(Holding) - 1
          /\ Cardinality(Holding) \in Nat
      BY <3>1, <3>3, FS_RemoveElement, FS_CardinalityType
    <3>5. h \notin Holding \ {g}
      BY <3>1
    <3>6. Cardinality(Holding') = Cardinality(Holding \ {g}) + 1
      BY <3>2, <3>4, <3>5, FS_AddElement
    <3> QED BY <3>4, <3>6
  <2>2. CASE ~fHaveGrant[g]
    <3>1. Holding' = Holding
      BY <1>1, <2>2 DEF Holding
    <3> QED BY <3>1
  <2> QED BY <2>1, <2>2
<1>3. Coming' = Coming /\ GrantsAt("sleep")' \subseteq GrantsAt("sleep")
  BY DEF Coming, GrantsAt
<1>4. value \in Nat
  BY DEF GrantInv
<1>5. UnitsConserved' /\ UnitsReachSleepers'
  BY <1>2, <1>3, <1>4, GrantCounts, GrantCountsNext
<1>6. \A k \in Grants : g_pc'[k] \in {"check", "sleep", "notified"} => ~fHaveGrant'[k]
  BY <1>1 DEF GrantInv
<1> QED BY <1>1, <1>5, <1>6

\* moveTo, to a grant that is free and to one that has to be released first.
LEMMA GrantMoveStep ==
  ASSUME GrantAssumption, GrantInv, NEW g \in Grants, NEW h \in Grants, moveTo(g, h)
  PROVE  GrantInv'
<1>1. g # h /\ g_pc[g] = "idle" /\ g_pc[h] = "idle" /\ value \in Nat
      /\ g_pc \in [Grants -> GrantPlaces] /\ fHaveGrant \in [Grants -> BOOLEAN]
      /\ from \in [Grants -> Grants \cup {None}]
  BY DEF moveTo, GrantInv
<1>2. CASE ~fHaveGrant[h]
  <2>1. fHaveGrant' = Given(g, h) /\ UNCHANGED <<value, g_pc, from>>
    BY <1>2 DEF moveTo
  <2>2. /\ UnitsConserved' /\ UnitsReachSleepers' /\ fHaveGrant' \in [Grants -> BOOLEAN]
        /\ \A k \in Grants : g_pc'[k] \in {"check", "sleep", "notified"} => ~fHaveGrant'[k]
    BY <1>1, <1>2, <2>1, GrantHandedOver
  <2> QED BY <2>1, <2>2 DEF GrantInv
<1>3. CASE fHaveGrant[h]
  <2>1. /\ value' = value + 1 /\ fHaveGrant' = fHaveGrant
        /\ g_pc' = [g_pc EXCEPT ![h] = "notify", ![g] = "moving"]
        /\ from' = [from EXCEPT ![h] = g]
    BY <1>3 DEF moveTo
  <2>2. /\ g_pc' \in [Grants -> GrantPlaces] /\ g_pc'[h] = "notify" /\ g_pc'[g] = "moving"
        /\ \A k \in Grants \ {g, h} : g_pc'[k] = g_pc[k]
        /\ from' \in [Grants -> Grants \cup {None}] /\ from'[h] = g
        /\ \A k \in Grants \ {h} : from'[k] = from[k]
        /\ value' \in Nat
    BY <1>1, <2>1 DEF GrantPlaces
  <2>3. /\ h \in Holding /\ Holding' = Holding \ {h}
        /\ h \notin Coming /\ Coming' = Coming \cup {h}
        /\ GrantsAt("sleep")' = GrantsAt("sleep")
    BY <1>1, <1>3, <2>1, <2>2 DEF Holding, Coming, GrantsAt
  <2>4. IsFiniteSet(Holding) /\ IsFiniteSet(Coming)
    BY FS_Subset DEF Holding, Coming, GrantsAt, GrantAssumption
  <2>5. /\ Cardinality(Holding') = Cardinality(Holding) - 1 /\ Cardinality(Holding) \in Nat
        /\ Cardinality(Coming') = Cardinality(Coming) + 1 /\ Cardinality(Coming) \in Nat
    BY <2>3, <2>4, FS_RemoveElement, FS_AddElement, FS_CardinalityType
  <2>6. UnitsConserved' /\ UnitsReachSleepers'
    <3>1. value' + Cardinality(Holding') = Units
      BY <1>1, <2>1, <2>5, GrantCounts
    <3>2. GrantsAt("sleep")' # {} => value' <= Cardinality(Coming')
      BY <1>1, <2>1, <2>3, <2>5, GrantCounts
    <3> QED BY <2>2, <3>1, <3>2, GrantCountsNext
  <2>7. \A k \in Grants : g_pc'[k] \in {"check", "sleep", "notified"} => ~fHaveGrant'[k]
    BY <2>1, <2>2 DEF GrantInv
  <2>8. \A k \in Grants : from'[k] # None =>
          g_pc'[k] \in {"notify", "notified"} /\ g_pc'[from'[k]] = "moving"
    BY <1>1, <2>2 DEF GrantInv
  <2>9. \A j, k \in Grants : j # k /\ from'[j] # None => from'[j] # from'[k]
    BY <1>1, <2>2 DEF GrantInv
  <2> QED BY <1>1, <2>1, <2>2, <2>6, <2>7, <2>8, <2>9 DEF GrantInv
<1> QED BY <1>2, <1>3

\* The end of release, and of the moveTo that called it.
LEMMA GrantReleasedStep ==
  ASSUME GrantAssumption, GrantInv, NEW g \in Grants, GrantReleased(g)
  PROVE  GrantInv'
<1>1. /\ g_pc[g] = "notified" /\ value' = value /\ value \in Nat /\ ~fHaveGrant[g]
      /\ g_pc \in [Grants -> GrantPlaces] /\ fHaveGrant \in [Grants -> BOOLEAN]
      /\ from \in [Grants -> Grants \cup {None}] /\ from' = [from EXCEPT ![g] = None]
  BY DEF GrantReleased, GrantInv
<1>2. CASE from[g] = None
  <2>1. GrantGoto(g, "idle") /\ fHaveGrant' = fHaveGrant /\ from' = from
    BY <1>1, <1>2 DEF GrantReleased
  <2>2. fHaveGrant' = [fHaveGrant EXCEPT ![g] = FALSE]
    BY <1>1, <2>1
  <2> QED BY <1>1, <1>2, <2>1, <2>2, GrantOneStep DEF GrantPlaces
<1>3. CASE from[g] # None
  <2>1. PICK m \in Grants : m = from[g] /\ m # g /\ g_pc[m] = "moving"
    BY <1>1, <1>3 DEF GrantInv
  <2>2. /\ fHaveGrant' = Given(m, g)
        /\ g_pc' = [g_pc EXCEPT ![g] = "idle", ![m] = "idle"]
    BY <1>3, <2>1 DEF GrantReleased
  <2>3. /\ g_pc' \in [Grants -> GrantPlaces] /\ g_pc'[g] = "idle" /\ g_pc'[m] = "idle"
        /\ \A k \in Grants \ {g, m} : g_pc'[k] = g_pc[k]
        /\ from' \in [Grants -> Grants \cup {None}] /\ from'[g] = None
        /\ \A k \in Grants \ {g} : from'[k] = from[k]
    BY <1>1, <2>1, <2>2 DEF GrantPlaces
  <2>4. /\ UnitsConserved' /\ UnitsReachSleepers' /\ fHaveGrant' \in [Grants -> BOOLEAN]
        /\ \A k \in Grants : g_pc'[k] \in {"check", "sleep", "notified"} => ~fHaveGrant'[k]
    BY <1>1, <2>1, <2>2, <2>3, GrantHandedOver
  <2>5. \A k \in Grants \ {g} : from[k] # None => from[k] # m /\ k # m
    BY <1>3, <2>1 DEF GrantInv
  <2>6. \A k \in Grants : from'[k] # None =>
          g_pc'[k] \in {"notify", "notified"} /\ g_pc'[from'[k]] = "moving"
    BY <1>1, <2>1, <2>3, <2>5 DEF GrantInv
  <2>7. \A j, k \in Grants : j # k /\ from'[j] # None => from'[j] # from'[k]
    BY <1>1, <2>3 DEF GrantInv
  <2> QED BY <1>1, <2>3, <2>4, <2>6, <2>7 DEF GrantInv
<1> QED BY <1>2, <1>3

\* The units of a CondVarSem are neither lost nor doubled, and no unit is left
\* to grants that all sleep: for every number of grants and units.
THEOREM GrantsSafe ==
  ASSUME GrantAssumption
  PROVE  GrantSpec => [](UnitsConserved /\ UnitsReachSleepers)
<1>1. GrantInit => GrantInv
  <2> SUFFICES ASSUME GrantInit PROVE GrantInv
    OBVIOUS
  <2>1. {g \in Grants : fHaveGrant[g] /\ g_pc[g] # "notify"} = {} /\ GrantsAt("sleep") = {}
    BY DEF GrantInit, GrantsAt
  <2>2. UnitsConserved /\ UnitsReachSleepers
    BY <2>1, FS_EmptySet DEF UnitsConserved, UnitsReachSleepers, GrantInit, GrantAssumption
  <2> QED BY <2>2 DEF GrantInit, GrantInv, GrantPlaces, GrantAssumption
<1>2. GrantInv /\ [GrantNext]_grantVars => GrantInv'
  <2>1. ASSUME GrantInv, UNCHANGED grantVars PROVE GrantInv'
    BY <2>1 DEF grantVars, GrantInv, UnitsConserved, UnitsReachSleepers, GrantsAt
  <2>2. ASSUME GrantInv, NEW g \in Grants, acquire(g) \/ GrantCheck(g) \/ tryAcquire(g)
               \/ GrantSpurious(g) \/ release(g)
        PROVE  GrantInv'
    <3>1. /\ g_pc \in [Grants -> GrantPlaces] /\ fHaveGrant \in [Grants -> BOOLEAN]
          /\ g_pc[g] \in {"check", "sleep"} => ~fHaveGrant[g]
      BY <2>2 DEF GrantInv
    <3>2. fHaveGrant = [fHaveGrant EXCEPT ![g] = fHaveGrant[g]] /\ g_pc = [g_pc EXCEPT ![g] = g_pc[g]]
      BY <3>1
    <3> USE DEF GrantPlaces
    <3>3. CASE acquire(g)
      BY <2>2, <3>1, <3>2, <3>3, GrantOneStep DEF acquire
    <3>4. CASE GrantCheck(g)
      <4>1. g_pc[g] = "check" /\ from' = from /\ value \in Nat
        BY <2>2, <3>4 DEF GrantCheck, GrantInv
      <4>2. CASE value < 1
        BY <2>2, <3>1, <3>2, <3>4, <4>1, <4>2, GrantOneStep DEF GrantCheck
      <4>3. CASE ~(value < 1)
        <5>1. GrantGoto(g, "idle") /\ Took(g) /\ value >= 1
          BY <3>4, <4>1, <4>3 DEF GrantCheck
        <5> QED BY <2>2, <3>1, <4>1, <5>1, GrantOneStep DEF Took
      <4> QED BY <4>2, <4>3
    <3>5. CASE tryAcquire(g)
      BY <2>2, <3>1, <3>2, <3>5, GrantOneStep DEF tryAcquire, Took, GrantGoto
    <3>6. CASE GrantSpurious(g)
      BY <2>2, <3>1, <3>2, <3>6, GrantOneStep DEF GrantSpurious
    <3>7. CASE release(g)
      BY <2>2, <3>1, <3>2, <3>7, GrantOneStep DEF release
    <3> QED BY <2>2, <3>3, <3>4, <3>5, <3>6, <3>7
  <2> QED BY <2>1, <2>2, GrantNotifyStep, GrantMoveStep, GrantReleasedStep DEF GrantNext
<1>3. GrantInv => UnitsConserved /\ UnitsReachSleepers
  BY DEF GrantInv
<1> QED BY <1>1, <1>2, <1>3, PTL DEF GrantSpec

-----------------------------------------------------------------------------

lightVars == <<m_count, m_sema, s_pc, max, toRelease, s_acquired, signals>>
LightSpec == LightInit /\ [][LightNext]_lightVars

LightPlaces == {"idle", "spin", "sema", "more", "post"}
InSema == {t \in Users : s_pc[t] = "sema"}

\* Only a thread inside signal owes posts, and only a thread that may take more
\* than one unit tries for more.
LightInv ==
  /\ m_count \in Int /\ m_sema \in Nat /\ s_acquired \in Nat /\ signals \in Nat
  /\ s_pc \in [Users -> LightPlaces]
  /\ max \in [Users -> LightUnits] /\ toRelease \in [Users -> Nat]
  /\ \A t \in Users : s_pc[t] = "post" <=> toRelease[t] > 0
  /\ \A t \in Users : s_pc[t] = "more" => max[t] > 1
  /\ IsFiniteSet(Posts)
  /\ WaitersAccounted

\* The larger of a number and 0.
LEMMA AtLeastZero ==
  ASSUME NEW i \in Int
  PROVE  /\ Max({0, i}) = IF i > 0 THEN i ELSE 0
         /\ Max({0, -i}) = IF i < 0 THEN -i ELSE 0
<1>1. \A j \in Int : Max({0, j}) = IF j > 0 THEN j ELSE 0
  BY DEF Max
<1>2. -i \in Int
  OBVIOUS
<1>3. Max({0, -i}) = IF -i > 0 THEN -i ELSE 0
  BY <1>1, <1>2
<1>4. (IF -i > 0 THEN -i ELSE 0) = (IF i < 0 THEN -i ELSE 0)
  OBVIOUS
<1>5. Max({0, -i}) = IF i < 0 THEN -i ELSE 0
  BY <1>3, <1>4, Zenon
<1> QED BY <1>1, <1>5

\* What signal computes under its lock-free add.
LEMMA LightReleasedIs ==
  ASSUME NEW c \in Int, NEW n \in Nat
  PROVE  /\ LightReleased(c, n) \in Nat
         /\ LightReleased(c, n) = IF c >= 0 THEN 0 ELSE IF -c <= n THEN -c ELSE n
<1>1. Min({-c, n}) = IF -c <= n THEN -c ELSE n
  BY DEF Min
<1> DEFINE m == Min({-c, n})
<1>2. m \in Int
  BY <1>1
<1> HIDE DEF m
<1>3. Max({0, m}) = IF m > 0 THEN m ELSE 0
  BY <1>2, AtLeastZero
<1> QED BY <1>1, <1>3 DEF LightReleased, m

\* How the posts still to be made change with one thread's debt.
LEMMA PostsOwed ==
  ASSUME toRelease \in [Users -> Nat], IsFiniteSet(Posts), NEW t \in Users, NEW n \in Nat,
         toRelease' = [toRelease EXCEPT ![t] = n],
         toRelease[t] = 0 \/ toRelease[t] = n + 1
  PROVE  /\ IsFiniteSet(Posts') /\ toRelease' \in [Users -> Nat]
         /\ Cardinality(Posts) \in Nat /\ Cardinality(Posts') \in Nat
         /\ Cardinality(Posts') = Cardinality(Posts) + n - toRelease[t]
<1>1. /\ toRelease' \in [Users -> Nat] /\ toRelease'[t] = n
      /\ \A u \in Users \ {t} : toRelease'[u] = toRelease[u]
  OBVIOUS
<1>2. Cardinality(Posts) \in Nat
  BY FS_CardinalityType
<1>3. CASE toRelease[t] = 0
  <2> DEFINE N == {t} \X (1 .. n)
  <2>1. Posts' = Posts \cup N
    BY <1>1, <1>3 DEF Posts
  <2>2. Posts \cap N = {}
    BY <1>3 DEF Posts
  <2>3. IsFiniteSet(N) /\ Cardinality(N) = n
    <3>1. IsFiniteSet({t}) /\ Cardinality({t}) = 1
      BY FS_Singleton
    <3>2. IsFiniteSet(1 .. n) /\ Cardinality(1 .. n) = n
      BY FS_Interval
    <3>3. IsFiniteSet(N) /\ Cardinality(N) = Cardinality({t}) * Cardinality(1 .. n)
      BY <3>1, <3>2, FS_Product
    <3>4. 1 * n = n
      OBVIOUS
    <3> QED BY <3>1, <3>2, <3>3, <3>4
  <2> HIDE DEF N
  <2>4. Cardinality(Posts \cap N) = 0
    BY <2>2, FS_EmptySet
  <2>5. IsFiniteSet(Posts \cup N)
        /\ Cardinality(Posts \cup N) = Cardinality(Posts) + Cardinality(N) - Cardinality(Posts \cap N)
    BY <2>3, FS_Union
  <2> QED BY <1>1, <1>2, <1>3, <2>1, <2>3, <2>4, <2>5
<1>4. CASE toRelease[t] = n + 1
  <2>1. <<t, n + 1>> \in Posts
    BY <1>4 DEF Posts
  <2>2. Posts' = Posts \ {<<t, n + 1>>}
    BY <1>1, <1>4 DEF Posts
  <2>3. IsFiniteSet(Posts \ {<<t, n + 1>>})
        /\ Cardinality(Posts \ {<<t, n + 1>>}) = Cardinality(Posts) - 1
    BY <2>1, FS_RemoveElement
  <2>4. Cardinality(Posts \ {<<t, n + 1>>}) \in Nat
    BY <2>3, FS_CardinalityType
  <2> QED BY <1>1, <1>2, <1>4, <2>2, <2>3, <2>4
<1> QED BY <1>3, <1>4

\* The units of the abstract semaphore, and its steps.
LightAvailable == Max({0, m_count}) + OnTheWay
Stays == LightAvailable' = LightAvailable /\ s_acquired' = s_acquired
Gets(k) ==
  k <= LightAvailable /\ LightAvailable' = LightAvailable - k /\ s_acquired' = s_acquired + k
Adds(k) == LightAvailable' = LightAvailable + k /\ s_acquired' = s_acquired
LightAbstractStep == Stays \/ \E k \in LightUnits : Gets(k) \/ Adds(k)

\* The number of threads in the kernel semaphore, after t has gone to l.
LEMMA LightMoves ==
  ASSUME LightSemaphoreAssumption, LightInv, NEW t \in Users, NEW l \in LightPlaces,
         LightGoto(t, l)
  PROVE  /\ s_pc' \in [Users -> LightPlaces] /\ s_pc'[t] = l
         /\ \A u \in Users \ {t} : s_pc'[u] = s_pc[u]
         /\ Cardinality(InSema) \in Nat
         /\ Cardinality(InSema') = Cardinality(InSema)
              + (IF l = "sema" THEN 1 ELSE 0) - (IF s_pc[t] = "sema" THEN 1 ELSE 0)
<1>1. /\ s_pc' \in [Users -> LightPlaces] /\ s_pc'[t] = l /\ IsFiniteSet(Users)
      /\ \A u \in Users \ {t} : s_pc'[u] = s_pc[u]
  BY DEF LightInv, LightGoto, LightSemaphoreAssumption
<1>2. /\ InSema \in SUBSET Users /\ InSema' \in SUBSET Users
      /\ \A u \in Users \ {t} : u \in InSema <=> u \in InSema'
      /\ (t \in InSema <=> s_pc[t] = "sema") /\ (t \in InSema' <=> l = "sema")
  BY <1>1 DEF InSema
<1>3. /\ Cardinality(InSema) \in Nat
      /\ Cardinality(InSema') = Cardinality(InSema)
           + (IF t \in InSema' THEN 1 ELSE 0) - (IF t \in InSema THEN 1 ELSE 0)
  BY <1>1, <1>2, OneDiffers
<1> QED BY <1>1, <1>2, <1>3

\* WaitersAccounted and the units, with the operators expanded.
LEMMA LightCounts ==
  ASSUME LightInv
  PROVE  /\ Cardinality(Posts) \in Nat
         /\ Cardinality(InSema) = m_sema + Cardinality(Posts) + (IF m_count < 0 THEN -m_count ELSE 0)
         /\ LightAvailable = m_sema + Cardinality(Posts) + (IF m_count > 0 THEN m_count ELSE 0)
<1>1. m_count \in Int /\ -m_count \in Int /\ m_sema \in Nat /\ IsFiniteSet(Posts)
  BY DEF LightInv
<1>2. Cardinality(Posts) \in Nat
  BY <1>1, FS_CardinalityType
<1>3. /\ Max({0, -m_count}) = IF -m_count > 0 THEN -m_count ELSE 0
      /\ Max({0, m_count}) = IF m_count > 0 THEN m_count ELSE 0
  BY <1>1, AtLeastZero
<1>4. Cardinality(InSema) = OnTheWay + Max({0, -m_count})
  BY DEF LightInv, WaitersAccounted, InSema
<1> QED BY <1>1, <1>2, <1>3, <1>4 DEF OnTheWay, LightAvailable

LEMMA LightCountsNext ==
  ASSUME m_count' \in Int, m_sema' \in Nat, Cardinality(Posts') \in Nat
  PROVE  /\ Cardinality(InSema') =
                m_sema' + Cardinality(Posts') + (IF m_count' < 0 THEN -m_count' ELSE 0)
              => WaitersAccounted'
         /\ LightAvailable' = m_sema' + Cardinality(Posts') + (IF m_count' > 0 THEN m_count' ELSE 0)
<1>1. /\ Max({0, -m_count'}) = IF m_count' < 0 THEN -m_count' ELSE 0
      /\ Max({0, m_count'}) = IF m_count' > 0 THEN m_count' ELSE 0
  BY AtLeastZero
<1>2. OnTheWay' = m_sema' + Cardinality(Posts')
  BY DEF OnTheWay
<1>3. Cardinality(InSema') = OnTheWay' + Max({0, -m_count'}) => WaitersAccounted'
  BY DEF WaitersAccounted, InSema
<1>4. LightAvailable' = Max({0, m_count'}) + OnTheWay'
  BY DEF LightAvailable
<1>5. LightAvailable' = m_sema' + Cardinality(Posts') + (IF m_count' > 0 THEN m_count' ELSE 0)
  BY <1>1, <1>2, <1>4
<1> QED BY <1>1, <1>2, <1>3, <1>5

\* A step that takes units, or finds none and goes on, and makes no post.
LEMMA LightTakes ==
  ASSUME LightSemaphoreAssumption, LightInv, NEW t \in Users, NEW l \in LightPlaces,
         LightGoto(t, l), toRelease' = toRelease, signals' = signals,
         max' \in [Users -> LightUnits], \A u \in Users \ {t} : max'[u] = max[u],
         s_pc[t] # "post", l # "post", l = "more" => max'[t] > 1,
         \/ /\ s_pc[t] # "sema" /\ l # "sema" /\ m_sema' = m_sema
            /\ \E k \in LightUnits : Take(k)
         \/ /\ s_pc[t] # "sema" /\ l # "sema"
            /\ m_sema' = m_sema /\ m_count' = m_count /\ s_acquired' = s_acquired
         \/ /\ s_pc[t] # "sema" /\ l = "sema" /\ m_count <= 0
            /\ m_sema' = m_sema /\ m_count' = m_count - 1 /\ s_acquired' = s_acquired
         \/ /\ s_pc[t] # "sema" /\ l # "sema" /\ m_count > 0
            /\ m_sema' = m_sema /\ m_count' = m_count - 1 /\ s_acquired' = s_acquired + 1
         \/ /\ s_pc[t] = "sema" /\ l # "sema" /\ m_sema > 0
            /\ m_sema' = m_sema - 1 /\ m_count' = m_count /\ s_acquired' = s_acquired + 1
  PROVE  LightInv' /\ LightAbstractStep
<1>1. /\ s_pc' \in [Users -> LightPlaces] /\ s_pc'[t] = l
      /\ \A u \in Users \ {t} : s_pc'[u] = s_pc[u]
      /\ Cardinality(InSema) \in Nat
      /\ Cardinality(InSema') = Cardinality(InSema)
           + (IF l = "sema" THEN 1 ELSE 0) - (IF s_pc[t] = "sema" THEN 1 ELSE 0)
  BY LightMoves
<1>2. /\ m_count \in Int /\ m_sema \in Nat /\ s_acquired \in Nat /\ toRelease \in [Users -> Nat]
      /\ signals \in Nat /\ MaxUnits \in Nat /\ 1 \in LightUnits
  BY DEF LightInv, LightSemaphoreAssumption, LightUnits
<1>3. Posts' = Posts /\ IsFiniteSet(Posts') /\ Cardinality(Posts) \in Nat
  BY LightCounts DEF Posts, LightInv
<1>4. /\ m_count' \in Int /\ m_sema' \in Nat /\ s_acquired' \in Nat
      /\ \/ /\ s_pc[t] # "sema" /\ l # "sema" /\ m_sema' = m_sema
            /\ m_count > 0 /\ m_count' >= 0
            /\ \E k \in LightUnits : m_count' = m_count - k /\ s_acquired' = s_acquired + k
         \/ /\ s_pc[t] # "sema" /\ l # "sema"
            /\ m_sema' = m_sema /\ m_count' = m_count /\ s_acquired' = s_acquired
         \/ /\ s_pc[t] # "sema" /\ l = "sema" /\ m_count <= 0
            /\ m_sema' = m_sema /\ m_count' = m_count - 1 /\ s_acquired' = s_acquired
         \/ /\ s_pc[t] = "sema" /\ l # "sema" /\ m_sema > 0
            /\ m_sema' = m_sema - 1 /\ m_count' = m_count /\ s_acquired' = s_acquired + 1
  <2>1. ASSUME NEW k \in LightUnits, Take(k)
        PROVE  \E j \in LightUnits : /\ m_count' = m_count - j /\ s_acquired' = s_acquired + j
                                     /\ m_count > 0 /\ m_count' >= 0 /\ m_count' \in Int
    <3>1. k \in Nat /\ k >= 1 /\ k <= MaxUnits
      BY <1>2 DEF LightUnits
    <3>2. m_count > 0 /\ m_count' = (IF m_count > k THEN m_count - k ELSE 0)
          /\ s_acquired' = s_acquired + m_count - m_count'
      BY <2>1 DEF Take, Leave
    <3>3. CASE m_count > k
      BY <1>2, <3>1, <3>2, <3>3
    <3>4. CASE ~(m_count > k)
      <4>1. m_count \in LightUnits
        BY <1>2, <3>1, <3>2, <3>4 DEF LightUnits
      <4> QED BY <1>2, <3>2, <3>4, <4>1
    <3> QED BY <3>3, <3>4
  <2> QED BY <1>2, <2>1 DEF LightUnits
<1>5. WaitersAccounted'
  BY <1>1, <1>2, <1>3, <1>4, LightCounts, LightCountsNext DEF LightUnits
<1>6. LightAbstractStep
  <2>1. /\ LightAvailable = m_sema + Cardinality(Posts) + (IF m_count > 0 THEN m_count ELSE 0)
        /\ LightAvailable' = m_sema' + Cardinality(Posts) + (IF m_count' > 0 THEN m_count' ELSE 0)
    BY <1>3, <1>4, LightCounts, LightCountsNext
  <2>2. ASSUME NEW k \in LightUnits, m_count' = m_count - k, s_acquired' = s_acquired + k,
               m_count > 0, m_count' >= 0, m_sema' = m_sema
        PROVE  Gets(k)
    BY <1>2, <1>3, <2>1, <2>2 DEF Gets, LightUnits
  <2>3. ASSUME m_sema' = m_sema, m_count' = m_count \/ (m_count <= 0 /\ m_count' = m_count - 1),
               s_acquired' = s_acquired
        PROVE  Stays
    BY <1>2, <1>3, <2>1, <2>3 DEF Stays
  <2>4. ASSUME m_sema > 0, m_sema' = m_sema - 1, m_count' = m_count, s_acquired' = s_acquired + 1
        PROVE  Gets(1)
    BY <1>2, <1>3, <2>1, <2>4 DEF Gets
  <2> QED BY <1>2, <1>4, <2>2, <2>3, <2>4 DEF LightAbstractStep
<1>7. \A u \in Users : s_pc'[u] = "post" <=> toRelease'[u] > 0
  BY <1>1 DEF LightInv
<1>8. \A u \in Users : s_pc'[u] = "more" => max'[u] > 1
  BY <1>1 DEF LightInv
<1> QED BY <1>1, <1>2, <1>3, <1>4, <1>5, <1>6, <1>7, <1>8 DEF LightInv

\* signal: the waiters it owes a post leave the count and enter the debt.
LEMMA LightSignals ==
  ASSUME LightSemaphoreAssumption, LightInv, NEW t \in Users, NEW n \in LightUnits, signal(t, n)
  PROVE  LightInv' /\ LightAbstractStep
<1> DEFINE r == LightReleased(m_count, n)
<1>1. /\ m_count \in Int /\ m_sema \in Nat /\ s_acquired \in Nat /\ toRelease \in [Users -> Nat]
      /\ signals \in Nat /\ max \in [Users -> LightUnits] /\ IsFiniteSet(Posts)
      /\ n \in Nat /\ n >= 1 /\ s_pc[t] = "idle" /\ toRelease[t] = 0
  BY DEF LightInv, LightSemaphoreAssumption, LightUnits, signal
<1>2. r \in Nat /\ r = IF m_count >= 0 THEN 0 ELSE IF -m_count <= n THEN -m_count ELSE n
  BY <1>1, LightReleasedIs
<1>3. /\ signals' = signals + 1 /\ m_count' = m_count + n
      /\ toRelease' = [toRelease EXCEPT ![t] = r] /\ UNCHANGED <<m_sema, max, s_acquired>>
      /\ toRelease'[t] = r
  BY <1>1 DEF signal
<1>4. LightGoto(t, IF r > 0 THEN "post" ELSE "idle")
  BY <1>3 DEF signal
<1> HIDE DEF r
<1>5. /\ s_pc' \in [Users -> LightPlaces] /\ s_pc'[t] = (IF r > 0 THEN "post" ELSE "idle")
      /\ \A u \in Users \ {t} : s_pc'[u] = s_pc[u]
      /\ Cardinality(InSema) \in Nat /\ Cardinality(InSema') = Cardinality(InSema)
  BY <1>1, <1>4, LightMoves DEF LightPlaces
<1>6. /\ IsFiniteSet(Posts') /\ toRelease' \in [Users -> Nat]
      /\ Cardinality(Posts) \in Nat /\ Cardinality(Posts') \in Nat
      /\ Cardinality(Posts') = Cardinality(Posts) + r - 0
  BY <1>1, <1>2, <1>3, PostsOwed
<1>7. m_count' \in Int /\ m_sema' \in Nat
  BY <1>1, <1>3
<1>8. WaitersAccounted'
  BY <1>1, <1>2, <1>3, <1>5, <1>6, <1>7, LightCounts, LightCountsNext
<1>9. Adds(n)
  BY <1>1, <1>2, <1>3, <1>6, <1>7, LightCounts, LightCountsNext DEF Adds
<1>10. \A u \in Users : s_pc'[u] = "post" <=> toRelease'[u] > 0
  BY <1>1, <1>2, <1>3, <1>5 DEF LightInv
<1>11. \A u \in Users : s_pc'[u] = "more" => max'[u] > 1
  BY <1>3, <1>5 DEF LightInv
<1> QED BY <1>1, <1>3, <1>5, <1>6, <1>7, <1>8, <1>9, <1>10, <1>11 DEF LightInv, LightAbstractStep

\* One of the posts that signal owes.
LEMMA LightPosts ==
  ASSUME LightSemaphoreAssumption, LightInv, NEW t \in Users, Post(t)
  PROVE  LightInv' /\ LightAbstractStep
<1>1. /\ m_count \in Int /\ m_sema \in Nat /\ s_acquired \in Nat /\ toRelease \in [Users -> Nat]
      /\ signals \in Nat /\ max \in [Users -> LightUnits] /\ IsFiniteSet(Posts)
      /\ s_pc[t] = "post" /\ toRelease[t] > 0
  BY DEF LightInv, Post
<1> DEFINE n == toRelease[t] - 1
<1>2. n \in Nat /\ toRelease[t] = n + 1
  BY <1>1
<1>3. /\ m_sema' = m_sema + 1 /\ toRelease' = [toRelease EXCEPT ![t] = n]
      /\ LightGoto(t, IF n > 0 THEN "post" ELSE "idle") /\ toRelease'[t] = n
      /\ UNCHANGED <<m_count, max, s_acquired, signals>>
  BY <1>1, <1>2 DEF Post
<1> HIDE DEF n
<1>4. /\ s_pc' \in [Users -> LightPlaces] /\ s_pc'[t] = (IF n > 0 THEN "post" ELSE "idle")
      /\ \A u \in Users \ {t} : s_pc'[u] = s_pc[u]
      /\ Cardinality(InSema) \in Nat /\ Cardinality(InSema') = Cardinality(InSema)
  BY <1>1, <1>3, LightMoves DEF LightPlaces
<1>5. /\ IsFiniteSet(Posts') /\ toRelease' \in [Users -> Nat]
      /\ Cardinality(Posts) \in Nat /\ Cardinality(Posts') \in Nat
      /\ Cardinality(Posts') = Cardinality(Posts) + n - toRelease[t]
  BY <1>1, <1>2, <1>3, PostsOwed
<1>6. m_count' \in Int /\ m_sema' \in Nat
  BY <1>1, <1>3
<1>7. WaitersAccounted' /\ Stays
  BY <1>1, <1>2, <1>3, <1>4, <1>5, <1>6, LightCounts, LightCountsNext DEF Stays
<1>8. \A u \in Users : s_pc'[u] = "post" <=> toRelease'[u] > 0
  BY <1>1, <1>2, <1>3, <1>4 DEF LightInv
<1>9. \A u \in Users : s_pc'[u] = "more" => max'[u] > 1
  BY <1>3, <1>4 DEF LightInv
<1> QED BY <1>1, <1>3, <1>4, <1>5, <1>6, <1>7, <1>8, <1>9 DEF LightInv, LightAbstractStep

\* Every step keeps the invariant and is one of the abstract semaphore's.
LEMMA LightStep ==
  ASSUME LightSemaphoreAssumption, LightInv, LightNext
  PROVE  LightInv' /\ LightAbstractStep
<1> USE DEF LightPlaces
<1>1. PICK t \in Users : \/ \E n \in LightUnits : tryWaitMany(t, n) \/ waitMany(t, n) \/ signal(t, n)
                         \/ Waiter(t) \/ Post(t)
  BY DEF LightNext
<1>2. /\ s_pc \in [Users -> LightPlaces] /\ max \in [Users -> LightUnits] /\ m_count \in Int
      /\ max[t] \in LightUnits /\ s_pc = [s_pc EXCEPT ![t] = s_pc[t]]
      /\ s_pc[t] = "more" => max[t] > 1
  BY DEF LightInv
<1>3. ASSUME NEW n \in LightUnits, tryWaitMany(t, n) PROVE LightInv' /\ LightAbstractStep
  <2>1. LightGoto(t, "idle") /\ s_pc[t] = "idle" /\ Take(n)
        /\ UNCHANGED <<m_sema, max, toRelease, signals>>
    BY <1>2, <1>3 DEF tryWaitMany, LightGoto
  <2> QED BY <1>2, <2>1, LightTakes
<1>4. ASSUME NEW n \in LightUnits, waitMany(t, n) PROVE LightInv' /\ LightAbstractStep
  <2>1. /\ LightGoto(t, "spin") /\ s_pc[t] = "idle" /\ max' \in [Users -> LightUnits]
        /\ \A u \in Users \ {t} : max'[u] = max[u]
        /\ UNCHANGED <<m_count, m_sema, toRelease, s_acquired, signals>>
    BY <1>2, <1>4 DEF waitMany
  <2> QED BY <1>2, <2>1, LightTakes
<1>5. CASE SpinTake(t)
  BY <1>2, <1>5, LightTakes DEF SpinTake
<1>6. CASE FetchSub(t)
  <2>1. s_pc[t] = "spin" /\ m_count' = m_count - 1 /\ UNCHANGED <<m_sema, max, toRelease, signals>>
        /\ AfterFirst(t) \in {"idle", "more"} /\ (AfterFirst(t) = "more" => max[t] > 1)
    BY <1>6 DEF FetchSub, AfterFirst
  <2>2. CASE m_count <= 0
    BY <1>2, <1>6, <2>1, <2>2, LightTakes DEF FetchSub
  <2>3. CASE ~(m_count <= 0)
    <3>1. LightGoto(t, AfterFirst(t)) /\ s_acquired' = s_acquired + 1 /\ m_count > 0
      BY <1>2, <1>6, <2>3 DEF FetchSub
    <3> QED BY <1>2, <2>1, <3>1, LightTakes
  <2> QED BY <2>2, <2>3
<1>7. CASE SemaWait(t)
  <2>1. AfterFirst(t) \in {"idle", "more"} /\ (AfterFirst(t) = "more" => max[t] > 1)
    BY DEF AfterFirst
  <2> QED BY <1>2, <1>7, <2>1, LightTakes DEF SemaWait
<1>8. CASE More(t)
  <2>1. s_pc[t] = "more" /\ LightGoto(t, "idle") /\ UNCHANGED <<m_sema, max, toRelease, signals>>
    BY <1>8 DEF More
  <2>2. max[t] - 1 \in LightUnits
    BY <1>2, <2>1 DEF LightUnits, LightSemaphoreAssumption
  <2>3. CASE Take(max[t] - 1)
    BY <1>2, <2>1, <2>2, <2>3, LightTakes
  <2>4. CASE m_count <= 0 /\ UNCHANGED <<m_count, s_acquired>>
    BY <1>2, <2>1, <2>4, LightTakes
  <2> QED BY <1>8, <2>3, <2>4 DEF More
<1> QED BY <1>1, <1>3, <1>4, <1>5, <1>6, <1>7, <1>8, LightSignals, LightPosts DEF Waiter

\* The invariant holds, and the steps are those of the abstract semaphore.
LEMMA LightInitial ==
  ASSUME LightSemaphoreAssumption, LightInit
  PROVE  LightInv /\ LightAvailable = Initial
<1>1. /\ m_count = Initial /\ Initial \in Nat /\ m_sema = 0 /\ s_acquired = 0 /\ signals = 0
      /\ s_pc \in [Users -> LightPlaces] /\ max \in [Users -> LightUnits]
      /\ toRelease \in [Users -> Nat]
      /\ \A t \in Users : s_pc[t] = "idle" /\ toRelease[t] = 0
  BY DEF LightInit, LightSemaphoreAssumption, LightPlaces, LightUnits
<1>2. Posts = {} /\ InSema = {}
  BY <1>1 DEF Posts, InSema
<1>3. IsFiniteSet(Posts) /\ Cardinality(Posts) = 0 /\ Cardinality(InSema) = 0
  BY <1>2, FS_EmptySet
<1>4. Max({0, m_count}) = Initial /\ Max({0, -m_count}) = 0
  BY <1>1, AtLeastZero
<1>5. WaitersAccounted
  BY <1>1, <1>3, <1>4 DEF WaitersAccounted, OnTheWay, InSema
<1>6. LightAvailable = Initial
  BY <1>1, <1>3, <1>4 DEF LightAvailable, OnTheWay
<1> QED BY <1>1, <1>3, <1>5, <1>6 DEF LightInv

\* A negative count of LightSemaphore is exactly the number of threads in the
\* kernel semaphore for which no post is on its way: for every number of
\* threads and calls.
THEOREM LightAccounted ==
  ASSUME LightSemaphoreAssumption
  PROVE  LightSpec => []WaitersAccounted
<1>1. LightInv /\ [LightNext]_lightVars => LightInv'
  <2>1. ASSUME LightInv, UNCHANGED lightVars PROVE LightInv'
    BY <2>1 DEF lightVars, LightInv, WaitersAccounted, OnTheWay, Posts
  <2> QED BY <2>1, LightStep
<1>2. LightInv => WaitersAccounted
  BY DEF LightInv
<1> QED BY <1>1, <1>2, LightInitial, PTL DEF LightSpec

\* LightSemaphore implements the counting semaphore: no unit is created, lost
\* or given to two callers, for every number of threads, calls and units.
THEOREM LightRefinesSemaphore ==
  ASSUME LightSemaphoreAssumption
  PROVE  LightSpec => ImplementsSemaphore
<1>1. LightInit => LightInv /\ Semaphore!Init
  BY LightInitial DEF LightInit, Semaphore!Init, LightAvailable
<1>2. LightInv /\ [LightNext]_lightVars => LightInv'
  <2>1. ASSUME LightInv, UNCHANGED lightVars PROVE LightInv'
    BY <2>1 DEF lightVars, LightInv, WaitersAccounted, OnTheWay, Posts
  <2> QED BY <2>1, LightStep
<1>3. LightInv /\ [LightNext]_lightVars =>
        [Semaphore!Next]_<<Max({0, m_count}) + OnTheWay, s_acquired>>
  <2>1. ASSUME UNCHANGED lightVars
        PROVE  UNCHANGED <<Max({0, m_count}) + OnTheWay, s_acquired>>
    BY <2>1 DEF lightVars, OnTheWay, Posts
  <2>2. ASSUME LightAbstractStep
        PROVE  [Semaphore!Next]_<<Max({0, m_count}) + OnTheWay, s_acquired>>
    BY <2>2 DEF LightAbstractStep, Stays, Gets, Adds, LightAvailable, LightUnits,
       Semaphore!Next, Semaphore!signal, Semaphore!wait
  <2> QED BY <2>1, <2>2, LightStep
<1> QED BY <1>1, <1>2, <1>3, PTL DEF LightSpec, ImplementsSemaphore, Semaphore!Spec

-----------------------------------------------------------------------------
(* Theorems: each class keeps its promises for any number of threads and   *)
(* calls.  The behaviours of a class are those of its own Init and Next.   *)

freeVars == <<m_status, available, acquired, f_pc, calls, returned>>
FreeSpec == FreeInit /\ [][FreeNext]_freeVars

\* The larger of 0 and i.
LEMMA MaxZero ==
  ASSUME NEW i \in Int
  PROVE  Max({0, i}) = IF i > 0 THEN i ELSE 0
  BY DEF Max

\* A wait has returned, or its caller sleeps; both are paid for by the initial
\* status, the calls of signal and the debt of a negative status.
FreeInv ==
  /\ m_status \in Int /\ available \in Nat /\ acquired \in Nat
  /\ calls \in Nat /\ returned \in Nat
  /\ f_pc \in [Users -> {"idle", "post", "sleep"}]
  /\ StatusExact
  /\ m_status + returned + Cardinality(FreeSleeping) = InitialStatus + calls

\* The threads asleep and the threads about to post are finitely many.
LEMMA FreeFinite ==
  ASSUME FreeAssumption
  PROVE  /\ IsFiniteSet(FreeSleeping) /\ IsFiniteSet(Posting)
         /\ Cardinality(FreeSleeping) \in Nat /\ Cardinality(Posting) \in Nat
<1>1. FreeSleeping \subseteq Users /\ Posting \subseteq Users
  BY DEF FreeSleeping, Posting
<1>2. IsFiniteSet(FreeSleeping) /\ IsFiniteSet(Posting)
  BY <1>1, FS_Subset DEF FreeAssumption
<1> QED BY <1>2, FS_CardinalityType

\* signal, wait and the two ends of the semaphore keep the count.
LEMMA FreeStep ==
  ASSUME FreeAssumption, FreeInv, NEW t \in Users,
         FreeSignal(t) \/ FreePost(t) \/ wait(t) \/ Wake(t)
  PROVE  FreeInv'
<1> USE DEF FreeInv
<1>0. /\ IsFiniteSet(FreeSleeping) /\ IsFiniteSet(Posting)
      /\ Cardinality(FreeSleeping) \in Nat /\ Cardinality(Posting) \in Nat
  BY FreeFinite
<1>1. /\ t \notin FreeSleeping => Cardinality(FreeSleeping \cup {t}) = Cardinality(FreeSleeping) + 1
      /\ t \in FreeSleeping => Cardinality(FreeSleeping \ {t}) = Cardinality(FreeSleeping) - 1
      /\ t \notin Posting => Cardinality(Posting \cup {t}) = Cardinality(Posting) + 1
      /\ t \in Posting => Cardinality(Posting \ {t}) = Cardinality(Posting) - 1
  BY <1>0, FS_AddElement, FS_RemoveElement
<1>2. Max({0, -m_status}) = IF m_status < 0 THEN -m_status ELSE 0
  BY MaxZero
<1>3. CASE FreeSignal(t)
  <2>1. /\ m_status < 1 /\ m_status' = m_status + 1 /\ calls' = calls + 1
        /\ f_pc' = [f_pc EXCEPT ![t] = IF m_status < 0 THEN "post" ELSE "idle"]
        /\ f_pc[t] = "idle" /\ UNCHANGED <<available, acquired, returned>>
    BY <1>3 DEF FreeSignal, NotSignaled, MustPost, FreeGoto
  <2>2. FreeSleeping' = FreeSleeping /\ t \notin Posting
        /\ Posting' = IF m_status < 0 THEN Posting \cup {t} ELSE Posting
    BY <2>1 DEF FreeSleeping, Posting
  <2>3. Max({0, -m_status'}) = IF m_status' < 0 THEN -m_status' ELSE 0
    BY <2>1, MaxZero
  <2>4. f_pc' \in [Users -> {"idle", "post", "sleep"}]
    BY <2>1
  <2>5. StatusExact'
    <3>1. CASE m_status < 0
      BY <1>0, <1>1, <1>2, <2>1, <2>2, <2>3, <3>1 DEF StatusExact
    <3>2. CASE ~(m_status < 0)
      BY <1>0, <1>2, <2>1, <2>2, <2>3, <3>2 DEF StatusExact
    <3> QED BY <3>1, <3>2
  <2>6. m_status' \in Int /\ calls' \in Nat
        /\ m_status' + returned' + Cardinality(FreeSleeping') = InitialStatus + calls'
    BY <1>0, <2>1, <2>2 DEF FreeAssumption
  <2> QED BY <2>1, <2>4, <2>5, <2>6
<1>4. CASE FreePost(t)
  <2>1. /\ f_pc[t] = "post" /\ available' = available + 1 /\ acquired' = acquired
        /\ f_pc' = [f_pc EXCEPT ![t] = "idle"]
        /\ UNCHANGED <<m_status, calls, returned>>
    BY <1>4 DEF FreePost, f_sema!signal, FreeGoto
  <2>2. FreeSleeping' = FreeSleeping /\ t \in Posting /\ Posting' = Posting \ {t}
    BY <2>1 DEF FreeSleeping, Posting
  <2>3. f_pc' \in [Users -> {"idle", "post", "sleep"}]
    BY <2>1
  <2> QED BY <1>0, <1>1, <1>2, <2>1, <2>2, <2>3 DEF StatusExact
<1>5. CASE wait(t)
  <2>1. /\ f_pc[t] = "idle" /\ m_status' = m_status - 1
        /\ UNCHANGED <<available, acquired, calls>>
        /\ IF m_status < 1 THEN f_pc' = [f_pc EXCEPT ![t] = "sleep"] /\ returned' = returned
                           ELSE returned' = returned + 1 /\ f_pc' = f_pc
    BY <1>5 DEF wait, MustSleep, FreeGoto
  <2>2. Posting' = Posting /\ t \notin FreeSleeping
        /\ FreeSleeping' = IF m_status < 1 THEN FreeSleeping \cup {t} ELSE FreeSleeping
    BY <2>1 DEF FreeSleeping, Posting
  <2>3. Max({0, -m_status'}) = IF m_status' < 0 THEN -m_status' ELSE 0
    BY <2>1, MaxZero
  <2>4. f_pc' \in [Users -> {"idle", "post", "sleep"}]
    BY <2>1
  <2> QED BY <1>0, <1>1, <1>2, <2>1, <2>2, <2>3, <2>4 DEF StatusExact
<1>6. CASE Wake(t)
  <2>1. /\ f_pc[t] = "sleep" /\ available >= 1 /\ available' = available - 1
        /\ acquired' = acquired + 1 /\ returned' = returned + 1
        /\ f_pc' = [f_pc EXCEPT ![t] = "idle"] /\ UNCHANGED <<m_status, calls>>
    BY <1>6 DEF Wake, f_sema!wait, FreeGoto
  <2>2. Posting' = Posting /\ t \in FreeSleeping /\ FreeSleeping' = FreeSleeping \ {t}
    BY <2>1 DEF FreeSleeping, Posting
  <2>3. f_pc' \in [Users -> {"idle", "post", "sleep"}]
    BY <2>1
  <2> QED BY <1>0, <1>1, <1>2, <2>1, <2>2, <2>3 DEF StatusExact
<1> QED BY <1>3, <1>4, <1>5, <1>6

\* The status of AutoResetFreeEvent is exact and releases at most one wait per
\* signal, for every number of threads and calls.
THEOREM FreeEventExact ==
  ASSUME FreeAssumption
  PROVE  FreeSpec => [](StatusExact /\ OneReleasePerSignal)
<1>1. FreeInit => FreeInv
  <2> SUFFICES ASSUME FreeInit PROVE FreeInv
    OBVIOUS
  <2>1. FreeSleeping = {} /\ Posting = {} /\ Cardinality({}) = 0
    BY FS_EmptySet DEF FreeInit, FreeSleeping, Posting
  <2>2. m_status \in {0, 1} /\ available = 0 /\ acquired = 0 /\ calls = 0 /\ returned = 0
        /\ m_status = InitialStatus
    BY DEF FreeInit, f_sema!Init, FreeAssumption
  <2>3. Max({0, -m_status}) = 0
    BY <2>2, MaxZero
  <2>4. f_pc \in [Users -> {"idle", "post", "sleep"}]
    BY DEF FreeInit
  <2> QED BY <2>1, <2>2, <2>3, <2>4 DEF FreeInv, StatusExact
<1>2. FreeInv /\ [FreeNext]_freeVars => FreeInv'
  <2>1. ASSUME FreeInv, FreeNext PROVE FreeInv'
    BY <2>1, FreeStep DEF FreeNext
  <2>2. ASSUME FreeInv, UNCHANGED freeVars PROVE FreeInv'
    BY <2>2 DEF freeVars, FreeInv, StatusExact, FreeSleeping, Posting
  <2> QED BY <2>1, <2>2
<1>3. FreeInv => StatusExact /\ OneReleasePerSignal
  <2> SUFFICES ASSUME FreeInv PROVE OneReleasePerSignal
    BY DEF FreeInv
  <2>1. Max({0, -m_status}) = IF m_status < 0 THEN -m_status ELSE 0
    BY MaxZero DEF FreeInv
  <2> QED BY <2>1, FreeFinite DEF FreeInv, StatusExact, OneReleasePerSignal, FreeAssumption
<1> QED BY <1>1, <1>2, <1>3, PTL DEF FreeSpec

-----------------------------------------------------------------------------

eventVars == <<signaled, r_pc, r_timed, sets, released>>
EventSpec == EventInit /\ [][EventNext]_eventVars

\* A set that has not been consumed is still to be paid out.
EventInv ==
  /\ signaled \in BOOLEAN /\ r_timed \subseteq Users /\ sets \in Nat /\ released \in Nat
  /\ r_pc \in [Users -> {"idle", "check", "sleep"}]
  /\ NobodyLeftBehind
  /\ AutoReset => released + (IF signaled THEN 1 ELSE 0) <= sets

\* A step of a waiting thread.
LEMMA EventWaiterStep ==
  ASSUME EventAssumption, EventInv, NEW t \in Users,
         \/ \E timeouts \in BOOLEAN : EventWait(t, timeouts)
         \/ EventCheck(t) \/ EventTimeout(t) \/ EventSpurious(t)
  PROVE  EventInv'
<1> USE DEF EventInv, EventAssumption
<1>1. ASSUME signaled, EventReturn(t), sets' = sets,
             r_timed' \subseteq Users
      PROVE  EventInv'
  <2>1. r_pc' = [r_pc EXCEPT ![t] = "idle"]
        /\ released' = released + (IF AutoReset THEN 1 ELSE 0)
        /\ signaled' = IF AutoReset THEN FALSE ELSE signaled
    BY <1>1 DEF EventReturn, EventGoto, AfterWait
  <2>2. NobodyLeftBehind'
    BY <1>1, <2>1 DEF NobodyLeftBehind, EventSleeping
  <2>3. r_pc' \in [Users -> {"idle", "check", "sleep"}]
    BY <2>1
  <2>4. signaled' \in BOOLEAN
    BY <2>1, Zenon
  <2>5. released' \in Nat
    BY <2>1
  <2>6. AutoReset => released' + (IF signaled' THEN 1 ELSE 0) <= sets'
    <3>1. ASSUME AutoReset PROVE released' = released + 1 /\ ~signaled' /\ released + 1 <= sets
      BY <1>1, <2>1, <3>1
    <3> QED BY <1>1, <2>5, <3>1
  <2> QED BY <1>1, <2>2, <2>3, <2>4, <2>5, <2>6
<1>2. ASSUME ~signaled, r_pc' \in [Users -> {"idle", "check", "sleep"}],
             signaled' = FALSE, released' = released, sets' = sets, r_timed' \subseteq Users
      PROVE  EventInv'
  BY <1>2 DEF NobodyLeftBehind
<1>3. ASSUME NEW timeouts \in BOOLEAN, EventWait(t, timeouts) PROVE EventInv'
  <2>1. r_timed' \subseteq Users /\ sets' = sets
    BY <1>3 DEF EventWait
  <2>2. CASE signaled
    BY <1>1, <1>3, <2>1, <2>2 DEF EventWait
  <2>3. CASE ~signaled
    <3>1. r_pc' = [r_pc EXCEPT ![t] = "sleep"] /\ signaled' = signaled /\ released' = released
      BY <1>3, <2>3 DEF EventWait, EventGoto
    <3> QED BY <1>2, <2>1, <2>3, <3>1
  <2> QED BY <2>2, <2>3
<1>4. CASE EventCheck(t)
  <2>1. r_timed' \subseteq Users /\ sets' = sets
    BY <1>4 DEF EventCheck
  <2>2. CASE signaled
    BY <1>1, <1>4, <2>1, <2>2 DEF EventCheck
  <2>3. CASE ~signaled
    <3>1. /\ r_pc' = [r_pc EXCEPT ![t] = "idle"] \/ r_pc' = [r_pc EXCEPT ![t] = "sleep"]
          /\ signaled' = FALSE /\ released' = released
      <4>1. signaled = FALSE
        BY <2>3, Zenon
      <4>2. AfterWait = FALSE
        BY <4>1 DEF AfterWait
      <4> QED BY <1>4, <4>1, <4>2 DEF EventCheck, EventReturn, EventGoto
    <3> QED BY <1>2, <2>1, <2>3, <3>1
  <2> QED BY <2>2, <2>3
<1>5. CASE EventTimeout(t) \/ EventSpurious(t)
  <2>1. /\ r_pc[t] = "sleep" /\ r_pc' = [r_pc EXCEPT ![t] = "check"]
        /\ UNCHANGED <<signaled, r_timed, sets, released>>
    BY <1>5 DEF EventTimeout, EventSpurious, EventGoto
  <2>2. EventSleeping' \subseteq EventSleeping /\ r_pc'[t] = "check"
        /\ r_pc' \in [Users -> {"idle", "check", "sleep"}]
    BY <2>1 DEF EventSleeping
  <2>3. NobodyLeftBehind'
    BY <2>1, <2>2 DEF NobodyLeftBehind
  <2> QED BY <2>1, <2>2, <2>3
<1> QED BY <1>3, <1>4, <1>5

\* set wakes one thread or all, reset wakes nobody.
LEMMA EventSetStep ==
  ASSUME EventAssumption, EventInv, set \/ resetEvent
  PROVE  EventInv'
<1> USE DEF EventInv, EventAssumption
<1>1. CASE set
  <2>1. /\ sets' = sets + 1 /\ signaled' = TRUE /\ UNCHANGED <<r_timed, released>>
        /\ SetNotify
    BY <1>1 DEF set
  <2>2. CASE ~AutoReset
    <3>1. r_pc' = [u \in Users |-> IF u \in EventSleeping THEN "check" ELSE r_pc[u]]
      BY <2>1, <2>2 DEF SetNotify, EventBroadcast
    <3>2. r_pc' \in [Users -> {"idle", "check", "sleep"}] /\ EventSleeping' = {}
      BY <3>1 DEF EventSleeping
    <3> QED BY <2>1, <2>2, <3>2 DEF NobodyLeftBehind
  <2>3. CASE AutoReset
    <3>1. CASE EventSleeping = {}
      <4>1. r_pc' = r_pc
        BY <2>1, <2>3, <3>1 DEF SetNotify, EventSignal
      <4> QED BY <2>1, <2>3, <3>1, <4>1 DEF NobodyLeftBehind, EventSleeping
    <3>2. CASE EventSleeping # {}
      <4>1. PICK u \in EventSleeping : r_pc' = [r_pc EXCEPT ![u] = "check"]
        BY <2>1, <2>3, <3>2 DEF SetNotify, EventSignal, EventGoto
      <4>2. u \in Users /\ r_pc'[u] = "check" /\ r_pc' \in [Users -> {"idle", "check", "sleep"}]
        BY <4>1 DEF EventSleeping
      <4> QED BY <2>1, <2>3, <4>2 DEF NobodyLeftBehind
    <3> QED BY <3>1, <3>2
  <2> QED BY <2>2, <2>3
<1>2. CASE resetEvent
  <2>1. signaled' = FALSE /\ UNCHANGED <<r_pc, r_timed, sets, released>>
    BY <1>2 DEF resetEvent
  <2>2. NobodyLeftBehind'
    BY <2>1 DEF NobodyLeftBehind
  <2>3. AutoReset => released' + (IF signaled' THEN 1 ELSE 0) <= sets'
    <3>1. ASSUME AutoReset PROVE released <= sets
      BY <3>1
    <3> QED BY <2>1, <3>1
  <2> QED BY <2>1, <2>2, <2>3
<1> QED BY <1>1, <1>2

\* AutoResetEvent and ManualResetEvent leave nobody asleep beside a signaled
\* event, and an AutoResetEvent releases one wait per set, for every number of
\* threads and calls.
THEOREM EventsRelease ==
  ASSUME EventAssumption
  PROVE  EventSpec => [](NobodyLeftBehind /\ OneReleasePerSet)
<1>1. EventInit => EventInv
  <2> SUFFICES ASSUME EventInit PROVE EventInv
    OBVIOUS
  <2>1. signaled = FALSE /\ r_timed = {} /\ sets = 0 /\ released = 0
        /\ r_pc \in [Users -> {"idle", "check", "sleep"}]
    BY DEF EventInit
  <2>2. signaled \in BOOLEAN /\ NobodyLeftBehind
    BY <2>1 DEF NobodyLeftBehind
  <2>3. released + (IF signaled THEN 1 ELSE 0) <= sets
    BY <2>1
  <2> QED BY <2>1, <2>2, <2>3 DEF EventInv
<1>2. EventInv /\ [EventNext]_eventVars => EventInv'
  <2>1. ASSUME EventInv, EventNext PROVE EventInv'
    BY <2>1, EventWaiterStep, EventSetStep DEF EventNext
  <2>2. ASSUME EventInv, UNCHANGED eventVars PROVE EventInv'
    BY <2>2 DEF eventVars, EventInv, NobodyLeftBehind, EventSleeping
  <2> QED BY <2>1, <2>2
<1>3. EventInv => NobodyLeftBehind /\ OneReleasePerSet
  BY DEF EventInv, OneReleasePerSet
<1> QED BY <1>1, <1>2, <1>3, PTL DEF EventSpec

-----------------------------------------------------------------------------

latchVars == <<count, l_pc, l_timed, woken>>
LatchSpec == LatchInit /\ [][LatchNext]_latchVars

\* BlockingCounter::reset wakes nobody, so that its callers must not reset it
\* to zero while others wait.
ResetContract == Latch \/ 0 \notin Resets

LatchInv ==
  /\ count \in 0 .. Wrap - 1
  /\ l_pc \in [Users -> {"idle", "check", "sleep"}]
  /\ NobodySleepsAtZero

\* After a broadcast nobody sleeps.
LEMMA LatchBroadcastWakes ==
  ASSUME LatchInv, LatchBroadcast
  PROVE  l_pc' \in [Users -> {"idle", "check", "sleep"}] /\ LatchSleeping' = {}
  BY DEF LatchInv, LatchBroadcast, LatchSleeping

\* Counting down and resetting broadcast when they come to zero, and a thread
\* goes to sleep only at a count above zero.
LEMMA LatchStep ==
  ASSUME LatchAssumption, ResetContract, LatchInv, LatchNext
  PROVE  LatchInv'
<1>1. ASSUME NEW n \in Amounts, countDown(n) PROVE LatchInv'
  <2>1. count' \in 0 .. Wrap - 1
    BY <1>1 DEF countDown, Decremented, LatchAssumption, LatchInv
  <2>2. CASE count' = 0
    BY <1>1, <2>1, <2>2, LatchBroadcastWakes DEF countDown, LatchInv, NobodySleepsAtZero
  <2>3. CASE count' # 0
    BY <1>1, <2>1, <2>3 DEF countDown, LatchInv, NobodySleepsAtZero
  <2> QED BY <2>2, <2>3
<1>2. ASSUME NEW n \in Resets, resetLatch(n) PROVE LatchInv'
  <2>1. count' = n /\ n \in 0 .. Wrap - 1
    BY <1>2 DEF resetLatch, LatchAssumption
  <2>2. CASE n = 0
    <3>1. LatchBroadcast
      BY <1>2, <2>2 DEF resetLatch, ResetWakes, ResetContract
    <3> QED BY <2>1, <3>1, LatchBroadcastWakes DEF LatchInv, NobodySleepsAtZero
  <2>3. CASE n # 0
    <3>1. l_pc' = l_pc
      BY <1>2, <2>3 DEF resetLatch, ResetWakes
    <3> QED BY <2>1, <2>3, <3>1 DEF LatchInv, NobodySleepsAtZero
  <2> QED BY <2>2, <2>3
<1>3. ASSUME NEW t \in Users, NEW timeouts \in BOOLEAN, LatchWait(t, timeouts) PROVE LatchInv'
  BY <1>3 DEF LatchWait, LatchGoto, LatchInv, NobodySleepsAtZero, LatchAssumption
<1>4. ASSUME NEW t \in Users, LatchCheck(t) \/ LatchTimeout(t) \/ LatchSpurious(t) PROVE LatchInv'
  <2>1. /\ count' = count
        /\ \/ l_pc' = [l_pc EXCEPT ![t] = "check"] \/ l_pc' = [l_pc EXCEPT ![t] = "idle"]
           \/ l_pc' = [l_pc EXCEPT ![t] = "sleep"] /\ count > 0
    BY <1>4 DEF LatchCheck, LatchTimeout, LatchSpurious, LatchGoto
  <2>2. l_pc' \in [Users -> {"idle", "check", "sleep"}]
    BY <2>1 DEF LatchInv
  <2>3. count' = 0 => LatchSleeping' = {}
    BY <2>1 DEF LatchInv, NobodySleepsAtZero, LatchSleeping
  <2> QED BY <2>1, <2>2, <2>3 DEF LatchInv, NobodySleepsAtZero
<1> QED BY <1>1, <1>2, <1>3, <1>4 DEF LatchNext

\* Nobody sleeps on a CountDownLatch or BlockingCounter whose count is zero,
\* for every number of threads, initial count and width of the counter.
THEOREM LatchWakesAll ==
  ASSUME LatchAssumption, ResetContract
  PROVE  LatchSpec => []NobodySleepsAtZero
<1>1. LatchInit => LatchInv
  BY DEF LatchInit, LatchInv, NobodySleepsAtZero, LatchSleeping, LatchAssumption
<1>2. LatchInv /\ [LatchNext]_latchVars => LatchInv'
  <2>1. ASSUME LatchInv, UNCHANGED latchVars PROVE LatchInv'
    BY <2>1 DEF latchVars, LatchInv, NobodySleepsAtZero, LatchSleeping
  <2> QED BY <2>1, LatchStep
<1>3. LatchInv => NobodySleepsAtZero
  BY DEF LatchInv
<1> QED BY <1>1, <1>2, <1>3, PTL DEF LatchSpec

-----------------------------------------------------------------------------

noteVars == <<notified, mu, npc, n_pc, n_timed, result, alive>>
NoteSpec == NoteInit /\ [][NoteNext]_noteVars

\* The notifier has the mutex from before it sets the flag until it has woken
\* the sleepers: who finds the mutex free and the flag set comes after it.
NoteInv ==
  /\ notified \in BOOLEAN /\ mu \in {Nobody, "notifier"} /\ alive \in BOOLEAN
  /\ npc \in {"idle", "store", "notify_all", "unlock", "done"}
  /\ n_pc \in [Waiters -> {"idle", "check", "sleep", "timeout", "returned"}]
  /\ result \in [Waiters -> BOOLEAN]
  /\ mu = "notifier" <=> npc \in {"store", "notify_all", "unlock"}
  /\ notified <=> npc \in {"notify_all", "unlock", "done"}
  /\ npc \in {"unlock", "done"} => NoteSleeping = {}
  /\ \A w \in Waiters : result[w] => notified
  /\ NotifierOutside

\* The notifier's steps.
LEMMA NoteNotifierStep ==
  ASSUME NotificationAssumption, NoteInv, Notify
  PROVE  NoteInv'
<1> USE DEF NoteInv, NotifierOutside, NotificationAssumption
<1>1. CASE NotifyLock
  BY <1>1 DEF NotifyLock, NoteSleeping
<1>2. CASE NotifyStore
  BY <1>2 DEF NotifyStore, NoteSleeping
<1>3. CASE NotifyAll
  <2>1. /\ n_pc' = [w \in Waiters |-> IF w \in NoteSleeping THEN "check" ELSE n_pc[w]]
        /\ npc = "notify_all" /\ npc' = "unlock"
        /\ UNCHANGED <<notified, mu, n_timed, result, alive>>
    BY <1>3 DEF NotifyAll, WakeAll
  <2>2. n_pc' \in [Waiters -> {"idle", "check", "sleep", "timeout", "returned"}]
        /\ NoteSleeping' = {}
    BY <2>1 DEF NoteSleeping
  <2> QED BY <2>1, <2>2
<1>4. CASE NotifyUnlock
  BY <1>4 DEF NotifyUnlock, NoteSleeping
<1> QED BY <1>1, <1>2, <1>3, <1>4 DEF Notify

\* A waiter's steps: it goes to sleep only with the mutex free and the flag
\* clear, and reports a notification only with the flag set.
LEMMA NoteWaiterStep ==
  ASSUME NotificationAssumption, NoteInv, NEW w \in Waiters,
         NoteWaiter(w) \/ (alive /\ \E b \in BOOLEAN : Look(w, b))
  PROVE  NoteInv'
<1> USE DEF NoteInv, NotificationAssumption
<1>1. UNCHANGED <<notified, mu, npc, alive>>
  BY DEF NoteWaiter, Look, NoteCheck, NoteSpurious, NoteTimeout, TimeoutReturn, Again
<1>2. \E l \in {"idle", "check", "sleep", "timeout", "returned"} :
        /\ n_pc' = [n_pc EXCEPT ![w] = l]
        /\ l = "sleep" => mu = Nobody /\ ~notified
        /\ ~alive => l = "idle"
  BY DEF NoteWaiter, Look, NoteCheck, NoteSpurious, NoteTimeout, TimeoutReturn, Again,
     NoteGoto, NoteReturn, NotifierOutside
<1>3. \E r \in BOOLEAN : result' \in {result, [result EXCEPT ![w] = r]} /\ (r => notified)
  BY DEF NoteWaiter, Look, NoteCheck, NoteSpurious, NoteTimeout, TimeoutReturn, Again,
     NoteReturn
<1>4. /\ n_pc' \in [Waiters -> {"idle", "check", "sleep", "timeout", "returned"}]
      /\ npc' \in {"unlock", "done"} => NoteSleeping' = {}
      /\ NotifierOutside'
  BY <1>1, <1>2 DEF NoteSleeping, NotifierOutside
<1>5. result' \in [Waiters -> BOOLEAN] /\ \A v \in Waiters : result'[v] => notified'
  BY <1>1, <1>3
<1> QED BY <1>1, <1>4, <1>5

\* When the destructor of Notification has passed through the mutex nobody is
\* inside a call, and waits report what happened: for any number of waiters.
THEOREM NotificationSafe ==
  ASSUME NotificationAssumption
  PROVE  NoteSpec => [](NotifierOutside /\ WaitsAreRight)
<1>1. NoteInit => NoteInv
  BY DEF NoteInit, NoteInv, NotifierOutside, NoteSleeping, NotificationAssumption
<1>2. NoteInv /\ [NoteNext]_noteVars => NoteInv'
  <2>1. ASSUME NoteInv, Destroy PROVE NoteInv'
    BY <2>1 DEF Destroy, DestructorLock, NoteInv, NotifierOutside, NoteSleeping,
       NotificationAssumption
  <2>2. ASSUME NoteInv, UNCHANGED noteVars PROVE NoteInv'
    BY <2>2 DEF noteVars, NoteInv, NotifierOutside, NoteSleeping
  <2> QED BY <2>1, <2>2, NoteNotifierStep, NoteWaiterStep DEF NoteNext
<1>3. NoteInv => NotifierOutside /\ WaitsAreRight
  BY DEF NoteInv, WaitsAreRight
<1> QED BY <1>1, <1>2, <1>3, PTL DEF NoteSpec

-----------------------------------------------------------------------------

futureVars == <<completed, data, sem, spc, u_pc, got, expired>>
FuturePlaces ==
  {"idle", "ready", "wait", "timedwait", "waited", "returned", "asserted", "aborted"}
FutureSpec == FutureInit /\ [][FutureNext]_futureVars

\* The order of the three writes of set is what a getter relies on: the value
\* is there before the flag, and the flag before the post.
FutureInv ==
  /\ sem \in Nat
  /\ spc \in {"data", "flag", "post", "done"}
  /\ completed \in BOOLEAN /\ data \in BOOLEAN
  /\ u_pc \in [Getters -> FuturePlaces]
  /\ got \in [Getters -> BOOLEAN]
  /\ data <=> spc # "data"
  /\ completed <=> spc \in {"post", "done"}
  /\ sem > 0 => spc = "done"
  /\ \A g \in Getters : u_pc[g] \in {"ready", "waited"} => completed \/ g \in expired
  /\ ReturnsTheValue /\ AssertionHolds

\* The steps of set.
LEMMA FutureSetStep ==
  ASSUME FutureInv, FutureSet
  PROVE  FutureInv'
<1> USE DEF FutureInv, ReturnsTheValue, AssertionHolds, NextTurn, Turn, FuturePlaces
<1>1. CASE SetData
  BY <1>1 DEF SetData
<1>2. CASE SetCompleted
  BY <1>2 DEF SetCompleted
<1>3. CASE SetPost
  BY <1>3 DEF SetPost, Posted
<1> QED BY <1>1, <1>2, <1>3 DEF FutureSet

\* The steps of get.
LEMMA FutureGetStep ==
  ASSUME FutureInv, NEW g \in Getters, Getting(g)
  PROVE  FutureInv'
<1> USE DEF FutureInv, ReturnsTheValue, AssertionHolds, FutureGoto, FuturePlaces
<1>1. CASE Get(g)
  BY <1>1 DEF Get
<1>2. CASE FutureWait(g)
  BY <1>2 DEF FutureWait
<1>3. CASE Assert(g)
  BY <1>3 DEF Assert
<1>4. CASE FutureTimeout(g)
  BY <1>4 DEF FutureTimeout
<1> QED BY <1>1, <1>2, <1>3, <1>4 DEF Getting

\* get of FutureSem returns the value that was set, and its assertion fails
\* only after a wait with a time limit, although no lock is held: for any
\* number of getters.
THEOREM FutureSafe == FutureSpec => [](ReturnsTheValue /\ AssertionHolds)
<1>1. FutureInit => FutureInv
  <2> SUFFICES ASSUME FutureInit PROVE FutureInv
    OBVIOUS
  <2>1. /\ completed = FALSE /\ data = FALSE /\ sem = 0 /\ spc = "data"
        /\ u_pc \in [Getters -> FuturePlaces]
        /\ got \in [Getters -> BOOLEAN] /\ \A g \in Getters : u_pc[g] = "idle"
    BY DEF FutureInit, FuturePlaces
  <2>2. /\ completed \in BOOLEAN /\ data \in BOOLEAN
        /\ data <=> spc # "data"
        /\ completed <=> spc \in {"post", "done"}
    BY <2>1
  <2> QED BY <2>1, <2>2 DEF FutureInv, ReturnsTheValue, AssertionHolds
<1>2. FutureInv /\ [FutureNext]_futureVars => FutureInv'
  <2>1. ASSUME FutureInv, UNCHANGED futureVars PROVE FutureInv'
    BY <2>1 DEF futureVars, FutureInv, ReturnsTheValue, AssertionHolds
  <2> QED BY <2>1, FutureSetStep, FutureGetStep DEF FutureNext
<1>3. FutureInv => ReturnsTheValue /\ AssertionHolds
  BY DEF FutureInv
<1> QED BY <1>1, <1>2, <1>3, PTL DEF FutureSpec

=============================================================================
