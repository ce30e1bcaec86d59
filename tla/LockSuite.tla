----------------------------- MODULE LockSuite -------------------------------
(***************************************************************************)
(* The locks, semaphores, events and latches of util/locks_util.h.  They   *)
(* share nothing, so a behaviour picks one instance (focus) and only that  *)
(* instance steps.  RWSpinLock is extended, with its constant given by the *)
(* configuration; the others are instances of SyncObjects.  SyncSuite adds *)
(* what runs on threads and states the fairness.                           *)
(***************************************************************************)
EXTENDS RWSpinLock, Sequences

CONSTANT Parts  \* the instances to check

VARIABLES focus,
  \* LightSemaphore, CondVarSem, TCSemMutex
  m_count, m_sema, s_pc, max, toRelease, s_acquired, signals,
  value, fHaveGrant, g_pc, from,
  created, writers, readers, undoW, undoR, p_pc, wiped,
  \* AutoResetFreeEvent, ResetEvent, CountDownLatch, Notification, FutureSem
  m_status, available, acquired, f_pc, calls, returned,
  signaled, r_pc, r_timed, sets, released,
  count, l_pc, l_timed, woken,
  notified, mu, npc, n_pc, n_timed, result, alive,
  completed, data, sem, spc, u_pc, got, expired

-----------------------------------------------------------------------------
(* The instances.  Constants of the same name are given by definitions.    *)

Users == 1 .. 3

Initial == 1
MaxUnits == 2
MaxSignals == 3
Grants == 1 .. 4
Units == 2
None == 0
Processes == 1 .. 3

InitialStatus == 1
MaxCalls == 4
AutoReset == TRUE
MaxSets == 3
Latch == TRUE
Count == 3
Amounts == {1, 2}
Resets == {0, 2}
Wrap == 8
Waiters == {"v", "w"}
Owner == "v"
Nobody == "nobody"
Getters == 1 .. 3

\* A latch that is reset, one that is only counted down, and a counter.
Object == INSTANCE SyncObjects
ManualReset == INSTANCE SyncObjects WITH AutoReset <- FALSE, MaxSets <- 2
CountedDown == INSTANCE SyncObjects WITH Resets <- {}
Counter == INSTANCE SyncObjects WITH
  Latch <- FALSE, Count <- 2, Amounts <- {1}, Resets <- {1, 2}, Wrap <- 4

ASSUME LockSuiteAssumption ==
  /\ Object!LightSemaphoreAssumption /\ Object!GrantAssumption /\ Object!SemMutexAssumption
  /\ Object!FreeAssumption /\ Object!EventAssumption /\ ManualReset!EventAssumption
  /\ Object!LatchAssumption /\ CountedDown!LatchAssumption /\ Counter!LatchAssumption
  /\ Object!NotificationAssumption

-----------------------------------------------------------------------------

lightVars == <<m_count, m_sema, s_pc, max, toRelease, s_acquired, signals>>
grantVars == <<value, fHaveGrant, g_pc, from>>
semVars == <<created, writers, readers, undoW, undoR, p_pc, wiped>>
freeVars == <<m_status, available, acquired, f_pc, calls, returned>>
eventVars == <<signaled, r_pc, r_timed, sets, released>>
latchVars == <<count, l_pc, l_timed, woken>>
noteVars == <<notified, mu, npc, n_pc, n_timed, result, alive>>
futureVars == <<completed, data, sem, spc, u_pc, got, expired>>
lockVars ==
  <<focus, vars, lightVars, grantVars, semVars, freeVars, eventVars, latchVars, noteVars,
    futureVars>>

LockInit ==
  /\ focus \in Parts
  /\ Init /\ Object!LightInit /\ Object!GrantInit /\ Object!SemInit
  /\ Object!FreeInit /\ Object!EventInit /\ Object!NoteInit /\ Object!FutureInit
  /\ IF focus = "counter" THEN Counter!LatchInit ELSE Object!LatchInit

LockNext ==
  /\ UNCHANGED focus
  /\ IF focus = "rwlock" THEN Next ELSE UNCHANGED vars
  /\ IF focus = "light" THEN Object!LightNext ELSE UNCHANGED lightVars
  /\ IF focus = "grant" THEN Object!GrantNext ELSE UNCHANGED grantVars
  /\ IF focus = "semmutex" THEN Object!SemNext ELSE UNCHANGED semVars
  /\ IF focus = "free" THEN Object!FreeNext ELSE UNCHANGED freeVars
  /\ IF focus = "auto" THEN Object!EventNext
     ELSE IF focus = "manual" THEN ManualReset!EventNext ELSE UNCHANGED eventVars
  /\ IF focus = "latch" THEN Object!LatchNext
     ELSE IF focus = "counted" THEN CountedDown!LatchNext
     ELSE IF focus = "counter" THEN Counter!LatchNext ELSE UNCHANGED latchVars
  /\ IF focus = "note" THEN Object!NoteNext ELSE UNCHANGED noteVars
  /\ IF focus = "future" THEN Object!FutureNext ELSE UNCHANGED futureVars

LockSpec == LockInit /\ [][LockNext]_lockVars

-----------------------------------------------------------------------------
(* The components' properties, in the instances above, gathered by the     *)
(* promise they make; MutualExclusion, BitsExact and NoNewReaders are      *)
(* those of RWSpinLock.                                                    *)

\* The counters that decide who sleeps and who is released are exact between
\* any two atomic accesses, and no unit is left to threads that all sleep: a
\* negative count of LightSemaphore and AutoResetFreeEvent is the number of
\* threads whose release is not on its way; an automatic event lets one wait
\* succeed per set; nobody sleeps on a latch at zero; what is not in a
\* CondVarSem is held by one grant, and a free unit has a thread on its way;
\* the semaphores of a TCSemMutex count the processes that have the lock, also
\* after processes died with it, unless the process that created them has set
\* them to zero under a holder.
UnitsAccounted ==
  /\ Object!WaitersAccounted
  /\ Object!StatusExact /\ Object!OneReleasePerSignal
  /\ focus = "auto" => Object!OneReleasePerSet
  /\ IF focus = "auto" THEN Object!NobodyLeftBehind ELSE ManualReset!NobodyLeftBehind
  /\ Object!NobodySleepsAtZero
  /\ Object!UnitsConserved /\ Object!UnitsReachSleepers
  /\ Object!SemaphoresExact

\* What one thread hands to another is complete when it is used: nobody is
\* inside a call when the destructor of Notification returns, a wait reports a
\* notification only when there was one, get of FutureSem returns the value
\* that was set and its assertion holds, except after a timed wait, whose time
\* is over at once; and a writer has a TCSemMutex to itself, unless the
\* process that created the semaphores has set them to zero under a holder.
HandoversSafe ==
  /\ Object!NotifierOutside /\ Object!WaitsAreRight
  /\ Object!ReturnsTheValue /\ Object!AssertionHolds
  /\ Object!WriterExclusive

\* The two counters of LightSemaphore together are a counting semaphore.
LightImplementsSemaphore == Object!ImplementsSemaphore

Waits(i) ==
  CASE focus = "free" -> calls = i
    [] focus \in {"auto", "manual"} /\ i \in Users -> r_pc[i] # "idle" /\ signaled
    [] focus = "counted" /\ i \in Users -> l_pc[i] # "idle"
    [] focus = "note" /\ i \in 1 .. 2 -> notified /\ n_pc[<<"v", "w">>[i]] \in {"check", "sleep"}
    [] focus = "future" /\ i \in Users -> spc = "post" /\ u_pc[i] = "wait"
    [] OTHER -> FALSE
Returns(i) ==
  CASE focus = "free" -> returned >= InitialStatus + i - 1
    [] focus \in {"auto", "manual"} /\ i \in Users -> r_pc[i] = "idle" \/ ~signaled
    [] focus = "counted" /\ i \in Users -> l_pc[i] = "idle"
    [] focus = "note" /\ i \in 1 .. 2 -> n_pc[<<"v", "w">>[i]] = "returned"
    [] focus = "future" -> (\E g \in Getters \ expired : u_pc[g] = "waited") \/ ~Object!FutureAlive
    [] OTHER -> TRUE

\* Who waits for what has come returns: every signal of AutoResetFreeEvent but
\* the last makes a wait return, a signaled event releases unless it is reset
\* or taken, a latch that is counted down, a notification that has begun; of
\* those who wait when FutureSem::set comes to its post, one is released (one
\* only: set posts once and get does not pass the post on), unless a timed get
\* has ended the process.
WaitersReleased == \A i \in 1 .. 4 : Waits(i) ~> Returns(i)

=============================================================================
