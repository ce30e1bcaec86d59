-------------------------- MODULE CountingSemaphore --------------------------
(***************************************************************************)
(* What a counting semaphore promises: a number of units that signal adds  *)
(* to and wait takes from, and that never runs below zero.                 *)
(***************************************************************************)
EXTENDS Integers

CONSTANTS Initial, MaxUnits  \* initial units, and a bound on units in one call

VARIABLES
  available,  \* units that can be taken
  acquired    \* units taken so far

Init == available = Initial /\ acquired = 0

signal(n) == available' = available + n /\ acquired' = acquired

wait(n) ==
  /\ n <= available
  /\ available' = available - n /\ acquired' = acquired + n

Next == \E n \in 1 .. MaxUnits : signal(n) \/ wait(n)

Spec == Init /\ [][Next]_<<available, acquired>>

=============================================================================
