-------------------------- MODULE SimpleThreadPool --------------------------
(***************************************************************************)
(* SimpleThreadPool and its SimpleEvent, util/threadpool_util.h: the       *)
(* constructor starts the threads, optionally waits until each has         *)
(* signalled its event, and the destructor joins them.                     *)
(*                                                                         *)
(* SimpleEvent::signal sets signaled_ before it locks mutex_ and notifies; *)
(* SimpleEvent::wait tests it with mutex_ held and, when it is false,      *)
(* blocks once: an if, not a loop, so that a spurious wakeup ends it too.  *)
(* The constructor's thread is modelled as "test" (holding nothing),       *)
(* "blocking" (holding the mutex_ of event at), "wait".                    *)
(***************************************************************************)
EXTENDS Integers

CONSTANTS
  N,     \* size
  Wait   \* the constructor's argument wait

SimplePoolAssumption == N \in Nat \ {0} /\ Wait \in BOOLEAN

Threads == 1 .. N

VARIABLES
  signaled,  \* signaled_ of each event
  pc,        \* what each worker thread does
  mpc,       \* what the thread that owns the pool does
  at,        \* the thread being started, event waited for or thread joined
  misled     \* history: the threads whose event's wait woke up spuriously

vars == <<signaled, pc, mpc, at, misled>>

Init ==
  /\ signaled = [w \in Threads |-> FALSE]
  /\ pc = [w \in Threads |-> "none"]
  /\ mpc = "start" /\ at = 1 /\ misled = {}

\* The constructor's loop; WaitForReady begins behind the last thread.
StartThread ==
  /\ mpc = "start"
  /\ pc' = [pc EXCEPT ![at] = "func"]
  /\ IF at < N THEN at' = at + 1 /\ mpc' = mpc
               ELSE at' = 1 /\ mpc' = IF Wait THEN "test" ELSE "ready"
  /\ UNCHANGED <<signaled, misled>>

EventHeld(w) == mpc = "blocking" /\ at = w

\* signal(): the atomic store, then lock and notify_all.
SignalSet(w) ==
  /\ pc[w] = "func"
  /\ signaled' = [signaled EXCEPT ![w] = TRUE]
  /\ pc' = [pc EXCEPT ![w] = "notify"]
  /\ UNCHANGED <<mpc, at, misled>>

NotifyLocked(w) == ~EventHeld(w)
SignalNotify(w) ==
  /\ pc[w] = "notify" /\ NotifyLocked(w)
  /\ mpc' = IF mpc = "wait" /\ at = w THEN "woken" ELSE mpc
  /\ pc' = [pc EXCEPT ![w] = "work"]
  /\ UNCHANGED <<signaled, at, misled>>

\* func goes on after it has signalled, and returns.
FuncReturns(w) ==
  /\ pc[w] = "work"
  /\ pc' = [pc EXCEPT ![w] = "exited"]
  /\ UNCHANGED <<signaled, mpc, at, misled>>

MoreEvents(i) == i < N
NextEvent == IF MoreEvents(at) THEN at' = at + 1 /\ mpc' = "test"
                               ELSE at' = 1 /\ mpc' = "ready"

\* wait(): lock and test.
EventTest ==
  /\ mpc = "test"
  /\ IF signaled[at] THEN NextEvent ELSE mpc' = "blocking" /\ at' = at
  /\ UNCHANGED <<signaled, pc, misled>>

EventBlock ==
  /\ mpc = "blocking"
  /\ mpc' = "wait"
  /\ UNCHANGED <<signaled, pc, at, misled>>

\* The wait has returned, and wait() with it.
EventWoken ==
  /\ mpc = "woken"
  /\ NextEvent
  /\ UNCHANGED <<signaled, pc, misled>>

\* condition_variable::wait may return without a notification.
SpuriousWakeup ==
  /\ mpc = "wait"
  /\ mpc' = "woken" /\ misled' = misled \cup {at}
  /\ UNCHANGED <<signaled, pc, at>>

\* The destructor joins the threads in order.
Destroy ==
  /\ mpc = "ready"
  /\ mpc' = "join" /\ at' = 1
  /\ UNCHANGED <<signaled, pc, misled>>

Join ==
  /\ mpc = "join" /\ pc[at] = "exited"
  /\ IF at < N THEN at' = at + 1 /\ mpc' = mpc ELSE at' = at /\ mpc' = "done"
  /\ UNCHANGED <<signaled, pc, misled>>

Worker(w) == SignalSet(w) \/ SignalNotify(w) \/ FuncReturns(w)
Owner == StartThread \/ EventTest \/ EventBlock \/ EventWoken \/ Join

Next == Owner \/ SpuriousWakeup \/ Destroy \/ \E w \in Threads : Worker(w)

Spec == Init /\ [][Next]_vars

\* Threads are scheduled, func signals its event and returns.
FairSpec == Spec /\ WF_vars(Owner) /\ \A w \in Threads : WF_vars(Worker(w))

-----------------------------------------------------------------------------
(* Properties.                                                             *)

TypeOK ==
  /\ signaled \in [Threads -> BOOLEAN]
  /\ pc \in [Threads -> {"none", "func", "notify", "work", "exited"}]
  /\ mpc \in {"start", "test", "blocking", "wait", "woken", "ready", "join", "done"}
  /\ at \in Threads /\ misled \subseteq Threads

\* The constructor gets out of WaitForReady: signal() cannot slip between the
\* test of signaled_ and the wait, because it locks mutex_ before notifying.
ReadyReached == mpc = "start" ~> mpc = "ready"

\* WaitForReady: "Wait for all started threads to signal that they're ready".
\* It has seen every thread but those whose wait woke up spuriously, which the
\* if around it does not notice.
AllReady ==
  Wait /\ mpc \in {"ready", "join", "done"}
    => \A w \in Threads : signaled[w] \/ w \in misled

=============================================================================
