------------------------- MODULE DoublyBufferedData -------------------------
(***************************************************************************)
(* DoublyBufferedData of util/lock_free_util.h: two instances of the data, *)
(* a foreground that readers use under a mutex of their own thread, and a  *)
(* background that Modify changes.  Modify flips the two, passes through   *)
(* the mutex of every registered reader thread, and repeats its change on  *)
(* the new background.                                                     *)
(*                                                                         *)
(* A thread that only reads is in Readers, one that only modifies is in    *)
(* Modifiers.  An instance is represented by the number of changes applied *)
(* to it.  Modify locks and unlocks a reader's mutex in one step, so that  *)
(* only its reader can be seen to hold it.                                 *)
(***************************************************************************)
EXTENDS Integers, FiniteSets

CONSTANTS
  Readers, Modifiers,
  None,        \* no thread
  MaxChanges   \* bound on the number of modifications

ASSUME DoublyBufferedAssumption ==
  /\ Readers \cap Modifiers = {}
  /\ None \notin Readers \cup Modifiers
  /\ MaxChanges \in Nat

VARIABLES
  data,       \* _data
  index,      \* _index: the foreground instance
  wrappers,   \* _wrappers: the readers that have registered their wrapper
  wholder,    \* who holds _wrappers_mutex between two steps
  mholder,    \* who holds _modify_mutex
  pc,         \* what each thread does
  ptr,        \* the instance each reader got from Read
  todo,       \* the readers whose mutex Modify still has to pass through
  changes     \* history: number of modifications completed

vars == <<data, index, wrappers, wholder, mholder, pc, ptr, todo, changes>>

Threads == Readers \cup Modifiers
Background == 1 - index

Init ==
  /\ data = [i \in {0, 1} |-> 0] /\ index = 0
  /\ wrappers = {} /\ wholder = None /\ mholder = None
  /\ pc = [t \in Threads |-> "idle"]
  /\ ptr = [r \in Readers |-> 0]
  /\ todo = {} /\ changes = 0

Goto(t, l) == pc' = [pc EXCEPT ![t] = l]

-----------------------------------------------------------------------------
(* Readers.                                                                *)

\* A thread that reads for the first time registers its wrapper.
AddWrapper(r) ==
  /\ pc[r] = "idle" /\ r \notin wrappers /\ wholder = None
  /\ wrappers' = wrappers \cup {r}
  /\ UNCHANGED <<data, index, wholder, mholder, pc, ptr, todo, changes>>

\* Modify never holds a reader's mutex between two steps, so it is free.
BeginRead(r) ==
  /\ pc[r] = "idle" /\ r \in wrappers
  /\ Goto(r, "locked")
  /\ UNCHANGED <<data, index, wrappers, wholder, mholder, ptr, todo, changes>>

UnsafeRead(r) ==
  /\ pc[r] = "locked"
  /\ ptr' = [ptr EXCEPT ![r] = index]
  /\ Goto(r, "reading")
  /\ UNCHANGED <<data, index, wrappers, wholder, mholder, todo, changes>>

EndRead(r) ==
  /\ pc[r] = "reading"
  /\ Goto(r, "idle")
  /\ UNCHANGED <<data, index, wrappers, wholder, mholder, ptr, todo, changes>>

\* The thread ends and its wrapper is deleted.
RemoveWrapper(r) ==
  /\ pc[r] = "idle" /\ r \in wrappers /\ wholder = None
  /\ wrappers' = wrappers \ {r}
  /\ UNCHANGED <<data, index, wholder, mholder, pc, ptr, todo, changes>>

-----------------------------------------------------------------------------
(* Modify.                                                                 *)

Modify(m) ==
  /\ pc[m] = "idle" /\ mholder = None /\ changes < MaxChanges
  /\ mholder' = m
  /\ Goto(m, "first")
  /\ UNCHANGED <<data, index, wrappers, wholder, ptr, todo, changes>>

\* fn changes the background, or returns 0 and Modify returns.
FirstCall(m) ==
  /\ pc[m] = "first"
  /\ data' = [data EXCEPT ![Background] = @ + 1]
  /\ Goto(m, "flip")
  /\ UNCHANGED <<index, wrappers, wholder, mholder, ptr, todo, changes>>

FirstCallRefused(m) ==
  /\ pc[m] = "first"
  /\ mholder' = None
  /\ Goto(m, "idle")
  /\ UNCHANGED <<data, index, wrappers, wholder, ptr, todo, changes>>

Flipped == Background

\* Publish.
Flip(m) ==
  /\ pc[m] = "flip"
  /\ index' = Flipped
  /\ Goto(m, "flipped")
  /\ UNCHANGED <<data, wrappers, wholder, mholder, ptr, todo, changes>>

ScanNobody == {}                                                      \* fault
ToScan == wrappers

ScanBegin(m) ==
  /\ pc[m] = "flipped" /\ wholder = None
  /\ wholder' = m
  /\ todo' = ToScan
  /\ Goto(m, "scan")
  /\ UNCHANGED <<data, index, wrappers, mholder, ptr, changes>>

\* WaitReadDone gets the mutex only when its reader does not hold it.
MutexFree(r) == pc[r] = "idle"

WaitReadDone(m, r) ==
  /\ pc[m] = "scan" /\ r \in todo /\ MutexFree(r)
  /\ todo' = todo \ {r}
  /\ UNCHANGED <<data, index, wrappers, wholder, mholder, pc, ptr, changes>>

ScanUnlocks(m) == None

ScanEnd(m) ==
  /\ pc[m] = "scan" /\ todo = {}
  /\ wholder' = ScanUnlocks(m)
  /\ Goto(m, "second")
  /\ UNCHANGED <<data, index, wrappers, mholder, ptr, todo, changes>>

ChangeForeground == [data EXCEPT ![index] = @ + 1]                    \* fault
SecondChange == [data EXCEPT ![Background] = @ + 1]

SecondCall(m) ==
  /\ pc[m] = "second"
  /\ data' = SecondChange
  /\ mholder' = None
  /\ changes' = changes + 1
  /\ Goto(m, "idle")
  /\ UNCHANGED <<index, wrappers, wholder, ptr, todo>>

-----------------------------------------------------------------------------
Read(r) == BeginRead(r) \/ UnsafeRead(r) \/ EndRead(r)
Modifying(m) ==
  \/ FirstCall(m) \/ FirstCallRefused(m) \/ Flip(m) \/ ScanBegin(m)
  \/ (\E r \in Readers : WaitReadDone(m, r)) \/ ScanEnd(m) \/ SecondCall(m)

Next ==
  \/ \E r \in Readers : AddWrapper(r) \/ Read(r) \/ RemoveWrapper(r)
  \/ \E m \in Modifiers : Modify(m) \/ Modifying(m)

Spec == Init /\ [][Next]_vars

\* Reads end, and a thread that keeps trying gets a mutex that keeps becoming
\* free.
FairSpec ==
  /\ Spec
  /\ \A r \in Readers : WF_vars(UnsafeRead(r) \/ EndRead(r))
  /\ \A m \in Modifiers :
       /\ WF_vars(FirstCall(m) \/ Flip(m) \/ ScanEnd(m) \/ SecondCall(m))
       /\ SF_vars(ScanBegin(m) \/ \E r \in Readers : WaitReadDone(m, r))

-----------------------------------------------------------------------------
(* Properties.                                                             *)

TypeOK ==
  /\ data \in [{0, 1} -> Nat] /\ index \in {0, 1}
  /\ wrappers \subseteq Readers /\ todo \subseteq Readers
  /\ wholder \in Modifiers \cup {None} /\ mholder \in Modifiers \cup {None}
  /\ pc \in [Threads -> {"idle", "locked", "reading", "first", "flip",
                         "flipped", "scan", "second"}]
  /\ ptr \in [Readers -> {0, 1}]
  /\ changes \in Nat

Writing(m) == pc[m] \in {"first", "second"}

\* "The instance will not be changed until ptr is destructed": whoever calls
\* fn on an instance, no reader holds a pointer to it.
ReadersUndisturbed ==
  \A r \in Readers, m \in Modifiers :
    pc[r] = "reading" /\ Writing(m) => ptr[r] # Background

\* Between modifications both instances have all of them, and the foreground
\* is never behind: a Read that begins after a Modify has returned sees it.
InstancesAgree ==
  /\ mholder = None => data[0] = changes /\ data[1] = changes
  /\ data[index] >= changes

=============================================================================
