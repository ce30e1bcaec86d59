---------------------------- MODULE LockFreeSuite ----------------------------
(***************************************************************************)
(* The queues and readers of util/lock_free_util that take no lock.  They  *)
(* share nothing, so a behaviour picks one of them (focus) and only that   *)
(* one steps; StructureSuite adds the other structures nobody waits for.   *)
(* The queues have variables of their own; the classes of LockFree share   *)
(* lf_rep, the representation, and lf_model, what their clients have got.  *)
(***************************************************************************)
EXTENDS Integers

CONSTANTS
  Parts,                                        \* the instances to check
  Thieves, StealCapacity, StealItems,           \* WorkStealingQueue
  NodeProducers, NodeConsumers, NodeValues, NoValue, NodeCount,  \* MPMCBoundedQueue
  SpscSizes, SpscLimits, SpscItems,             \* SPSCRing
  Threads, LinkItems, ListItems, MaxWrites, MaxNest  \* LockFree

VARIABLES focus, lf_rep, lf_model,
  \* WorkStealingQueue
  bottom, top, buffer, opc, ob, ot, oval, tpc, tt, tval, pushed, popped, stolen,
  \* MPMCBoundedQueue
  head, tail, next, data, pc, seq, val, claimed,
  \* SPSCRing
  size, limit, writeIndex, readIndex, records, ppc, pguess, cpc, cguess, front, sent, received

lfVars == <<lf_rep, lf_model>>
stealVars == <<bottom, top, buffer, opc, ob, ot, oval, tpc, tt, tval, pushed, popped, stolen>>
nodeVars == <<head, tail, next, data, pc, seq, val, claimed>>
spscVars == <<size, limit, writeIndex, readIndex, records, ppc, pguess, cpc, cguess, front, sent, received>>
lockFreeVars == <<focus, lfVars, stealVars, nodeVars, spscVars>>

-----------------------------------------------------------------------------

Steal == INSTANCE WorkStealingQueue WITH Capacity <- StealCapacity, MaxItems <- StealItems
Nodes == INSTANCE MPMCBoundedQueue WITH
  Producers <- NodeProducers, Consumers <- NodeConsumers, Values <- NodeValues, Size <- NodeCount
Spsc == INSTANCE SPSCRing WITH Sizes <- SpscSizes, Limits <- SpscLimits, MaxItems <- SpscItems
LockFree == INSTANCE LockFree WITH Items <- LinkItems, rep <- lf_rep, model <- lf_model

ASSUME LockFreeSuiteAssumption ==
  /\ Steal!WorkStealingAssumption /\ Nodes!MPMCAssumption
  /\ Spsc!RingAssumption /\ LockFree!LockFreeAssumption

-----------------------------------------------------------------------------

LockFreeInit ==
  /\ focus \in Parts
  /\ Steal!Init /\ Nodes!Init /\ Spsc!Init
  /\ focus # "spsc" => limit = size /\ size = CHOOSE n \in SpscSizes : TRUE  \* one is at rest
  /\ CASE focus = "free" -> LockFree!FreeInit
       [] focus = "linked" -> LockFree!LinkedInit
       [] focus = "seqlock" -> LockFree!SeqInit
       [] focus = "hazard" -> LockFree!HazardInit
       [] focus = "rcu" -> LockFree!RcuInit
       [] OTHER -> lf_rep = <<>> /\ lf_model = <<>>

LockFreeNext ==
  /\ UNCHANGED focus
  /\ IF focus = "steal" THEN Steal!Next ELSE UNCHANGED stealVars
  /\ IF focus = "nodes" THEN Nodes!Next ELSE UNCHANGED nodeVars
  /\ IF focus = "spsc" THEN Spsc!Next ELSE UNCHANGED spscVars
  /\ CASE focus = "free" -> LockFree!FreeNext
       [] focus = "linked" -> LockFree!LinkedNext
       [] focus = "seqlock" -> LockFree!SeqNext
       [] focus = "hazard" -> LockFree!HazardNext
       [] focus = "rcu" -> LockFree!RcuNext
       [] OTHER -> UNCHANGED lfVars

LockFreeSpec == LockFreeInit /\ [][LockFreeNext]_lockFreeVars

-----------------------------------------------------------------------------
(* The components' properties, in the instances above, gathered by the     *)
(* promise they make.  Their own modules say what each of them means.      *)

\* Every item of a lock-free queue is handed out once, in order and complete:
\* WorkStealingQueue gives the last item, for which owner and thieves compete,
\* to one of them, keeps between _top and _bottom exactly the items nobody has
\* got and lets thieves take them in the order of push; MPMCBoundedQueue hands
\* values out in the order in which their positions were claimed; a
\* single-producer ring in the order of sending.  Nobody writes a slot another
\* thread works on, also when counters wrap; a single-producer ring is full
\* exactly when all usable slots are taken, and sizeGuess errs to the safe
\* side for either thread.
ItemsHandedOutOnce ==
  CASE focus = "steal" -> Steal!TakenOnce /\ Steal!NothingLost /\ Steal!StolenInOrder
    [] focus = "nodes" -> Nodes!HandsOutInOrder /\ Nodes!NodeExclusive
    [] focus = "spsc" -> Spsc!InOrder /\ Spsc!SlotExclusive /\ Spsc!RefusedWhenFull /\ Spsc!GuessBounds
    [] OTHER -> TRUE

\* A reader that takes no lock is protected from those that write and free
\* beside it: what a sequence lock returns was stored as a whole, nothing is
\* freed while a hazard pointer that was announced in time points to it, and
\* synchronize_rcu returns after every read section that began before it.
ReadersProtected ==
  CASE focus = "seqlock" -> LockFree!ReadsWhole
    [] focus = "hazard" -> LockFree!HazardsRespected
    [] focus = "rcu" -> LockFree!GracePeriod
    [] OTHER -> TRUE

\* A refusal is justified: a producer of MPMCBoundedQueue is refused only when
\* the ring is full or the value in its node is just being copied out, a
\* consumer only when its position is unclaimed or still being filled; and a
\* pop of WorkStealingQueue hands out the youngest item that is to be had.
RefusalsJustified ==
  /\ Nodes!RefusedOnlyWhenFull /\ Nodes!EmptyOnlyWhenUnfilled
  /\ Steal!OwnerTakesNewest

=============================================================================
