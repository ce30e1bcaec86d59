----------------------------- MODULE RWSpinLock -----------------------------
(***************************************************************************)
(* RWSpinLock of util/locks_util.h: a reader-writer lock with upgradable   *)
(* readers in one atomic integer.  Each atomic access to bits_ is a step.  *)
(* A blocking operation is the repetition of its try form, and a try that  *)
(* fails without changing bits_ is a step that leaves everything as it is. *)
(***************************************************************************)
EXTENDS Integers, FiniteSets

CONSTANT Threads

ASSUME ThreadsAssumption == IsFiniteSet(Threads)

VARIABLES
  bits,  \* bits_
  pc     \* what each thread holds, or the step it is in the middle of

vars == <<bits, pc>>

READER == 4
UPGRADED == 2
WRITER == 1

\* value & (WRITER | UPGRADED)
MaskWriter(b) == b % 2                                                \* fault
Mask(b) == b % 4
Upgraded(b) == b % 4 >= UPGRADED

ClearWriterOnly(b) == b - (b % 2)                                     \* fault
Clear(b) == b - Mask(b)
Or(b) == IF Upgraded(b) THEN b ELSE b + UPGRADED

Init == bits = 0 /\ pc = [t \in Threads |-> "idle"]

Goto(t, l) == pc' = [pc EXCEPT ![t] = l]

\* lock and unlock
try_lock(t) ==
  /\ pc[t] = "idle" /\ bits = 0
  /\ bits' = WRITER
  /\ Goto(t, "writer")

unlock(t) ==
  /\ pc[t] = "writer"
  /\ bits' = Clear(bits)
  /\ Goto(t, "idle")

\* try_lock_shared adds READER first and takes it back when it has failed.
try_lock_shared(t) ==
  /\ pc[t] = "idle"
  /\ bits' = bits + READER
  /\ Goto(t, IF Mask(bits) # 0 THEN "backoff" ELSE "reader")

back_off(t) ==
  /\ pc[t] = "backoff"
  /\ bits' = bits - READER
  /\ Goto(t, "idle")

unlock_shared(t) ==
  /\ pc[t] = "reader"
  /\ bits' = bits - READER
  /\ Goto(t, "idle")

\* A writer becomes a reader in two steps.
unlock_and_lock_shared(t) ==
  /\ pc[t] = "writer"
  /\ bits' = bits + READER
  /\ Goto(t, "downgrading")

downgraded(t) ==
  /\ pc[t] = "downgrading"
  /\ bits' = Clear(bits)
  /\ Goto(t, "reader")

\* A failed attempt leaves the UPGRADED bit set.
try_lock_upgrade(t) ==
  /\ pc[t] = "idle"
  /\ bits' = Or(bits)
  /\ Goto(t, IF Mask(bits) = 0 THEN "upgrader" ELSE "idle")

unlock_upgrade(t) ==
  /\ pc[t] = "upgrader"
  /\ bits' = bits - UPGRADED
  /\ Goto(t, "idle")

\* unlock_upgrade_and_lock: decide to write, then try until it succeeds
unlock_upgrade_and_lock(t) ==
  /\ pc[t] = "upgrader"
  /\ Goto(t, "promoting")
  /\ bits' = bits

Promotable == bits = UPGRADED

try_unlock_upgrade_and_lock(t) ==
  /\ pc[t] \in {"upgrader", "promoting"} /\ Promotable
  /\ bits' = WRITER
  /\ Goto(t, "writer")

unlock_upgrade_and_lock_shared(t) ==
  /\ pc[t] = "upgrader"
  /\ bits' = bits + READER - UPGRADED
  /\ Goto(t, "reader")

\* A writer becomes an upgrader in two steps.
unlock_and_lock_upgrade(t) ==
  /\ pc[t] = "writer"
  /\ bits' = Or(bits)
  /\ Goto(t, "converting")

converted(t) ==
  /\ pc[t] = "converting"
  /\ bits' = bits - WRITER
  /\ Goto(t, "upgrader")

\* The steps that a thread in the middle of an operation still has to take.
Finish(t) == back_off(t) \/ downgraded(t) \/ converted(t)

Writer(t) ==
  try_lock(t) \/ unlock(t) \/ unlock_and_lock_shared(t) \/ unlock_and_lock_upgrade(t)
Reader(t) == try_lock_shared(t) \/ unlock_shared(t)
Upgrader(t) ==
  \/ try_lock_upgrade(t) \/ unlock_upgrade(t) \/ unlock_upgrade_and_lock(t)
  \/ try_unlock_upgrade_and_lock(t) \/ unlock_upgrade_and_lock_shared(t)

Next == \E t \in Threads : Writer(t) \/ Reader(t) \/ Upgrader(t) \/ Finish(t)

Spec == Init /\ [][Next]_vars

-----------------------------------------------------------------------------
(* Properties.                                                             *)

TypeOK ==
  /\ bits \in Nat
  /\ pc \in [Threads -> {"idle", "writer", "reader", "backoff", "downgrading",
                         "upgrader", "promoting", "converting"}]

Exclusive == {t \in Threads : pc[t] \in {"writer", "downgrading", "converting"}}
Upgrading == {t \in Threads : pc[t] \in {"upgrader", "promoting"}}
Counted == {t \in Threads : pc[t] \in {"reader", "backoff", "downgrading"}}

\* There is one writer or upgrader at most, and no reader beside a writer,
\* through all conversions between the three.
MutualExclusion ==
  /\ \A s, t \in Exclusive \cup Upgrading : s = t
  /\ \A s \in Exclusive, t \in Threads : pc[t] # "reader"

\* bits_ is the sum of what the threads hold.  The UPGRADED bit a failed
\* try_lock_upgrade leaves behind always belongs to a writer or an upgrader
\* that will clear it, so that a lock nobody holds is free.
BitsExact ==
  \E u, w \in {0, 1} :
    /\ bits = READER * Cardinality(Counted) + UPGRADED * u + WRITER * w
    /\ w = 1 <=> Exclusive # {}
    /\ u = 1 => Exclusive \cup Upgrading # {}
    /\ (\E t \in Threads : pc[t] \in {"upgrader", "promoting", "converting"}) => u = 1

\* "block any new readers while waiting for existing readers to finish": from
\* the moment a thread asks to be promoted, readers only leave.
NoNewReaders ==
  [][(\E t \in Threads : pc[t] = "promoting") =>
        \A t \in Threads : pc'[t] = "reader" => pc[t] = "reader"]_vars

=============================================================================
