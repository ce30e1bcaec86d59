-------------------------- MODULE WorkStealingQueue -------------------------
(***************************************************************************)
(* WorkStealingQueue of util/lock_free_util.h: one owner pushes and pops   *)
(* at the bottom, thieves steal at the top.  Each access to _top and       *)
(* _bottom is a step of its own; accesses are sequentially consistent,     *)
(* which the code's fences and compare-exchanges establish where the order *)
(* of a store and a load of different variables matters.  The items are    *)
(* 1, 2, 3, ... in the order in which they are pushed.                     *)
(***************************************************************************)
EXTENDS Integers, Sequences, Functions

CONSTANTS
  Thieves,
  Capacity,  \* _capacity
  MaxItems   \* bound on the number of items pushed

WorkStealingAssumption == Capacity \in Nat \ {0} /\ MaxItems \in Nat

VARIABLES
  bottom, top,      \* _bottom, _top
  buffer,           \* _buffer
  opc, ob, ot, oval,  \* the owner: where it is, its b, t and *val
  tpc, tt, tval,    \* the thieves: where they are, their t and *val
  pushed,           \* history: number of items pushed
  popped, stolen    \* history: the items popped and stolen, in order

owner == <<opc, ob, ot, oval>>
thieves == <<tpc, tt, tval>>
vars == <<bottom, top, buffer, owner, thieves, pushed, popped, stolen>>

Slot(i) == i % Capacity

Full(b, t) == b >= t + Capacity

\* The last item is the one the owner has to compete for.
NeverLast(t, b) == FALSE                                              \* fault
IsLast(t, b) == t = b - 1

Restored(b) == b

PopSlot(b) == Slot(b - 1)

StealSlot(t) == Slot(t)

Init ==
  /\ bottom = 1 /\ top = 1
  /\ buffer = [i \in 0 .. Capacity - 1 |-> 0]
  /\ opc = "idle" /\ ob = 0 /\ ot = 0 /\ oval = 0
  /\ tpc = [h \in Thieves |-> "idle"] /\ tt = [h \in Thieves |-> 0]
  /\ tval = [h \in Thieves |-> 0]
  /\ pushed = 0 /\ popped = <<>> /\ stolen = <<>>

\* The owner or a thief goes on with new values of its locals; they die when
\* the call returns.
OwnerGoes(l, b, t, v) ==
  /\ opc' = l
  /\ IF l = "idle" THEN ob' = 0 /\ ot' = 0 /\ oval' = 0
                   ELSE ob' = b /\ ot' = t /\ oval' = v
ThiefGoes(h, l, t, v) ==
  /\ tpc' = [tpc EXCEPT ![h] = l]
  /\ tt' = [tt EXCEPT ![h] = IF l = "idle" THEN 0 ELSE t]
  /\ tval' = [tval EXCEPT ![h] = IF l = "idle" THEN 0 ELSE v]

\* push: load _top, and give up when the queue is full
PushLoad ==
  /\ opc = "idle" /\ pushed < MaxItems
  /\ OwnerGoes(IF Full(bottom, top) THEN "idle" ELSE "push_write", bottom, top, 0)
  /\ UNCHANGED <<bottom, top, buffer, thieves, pushed, popped, stolen>>

PushWrite ==
  /\ opc = "push_write"
  /\ buffer' = [buffer EXCEPT ![Slot(ob)] = pushed + 1]
  /\ OwnerGoes("push_publish", ob, ot, oval)
  /\ UNCHANGED <<bottom, top, thieves, pushed, popped, stolen>>

PushPublish ==
  /\ opc = "push_publish"
  /\ bottom' = ob + 1
  /\ pushed' = pushed + 1
  /\ OwnerGoes("idle", ob, ot, oval)
  /\ UNCHANGED <<top, buffer, thieves, popped, stolen>>

\* pop: the first look at _top
PopLoad ==
  /\ opc = "idle"
  /\ OwnerGoes(IF top >= bottom THEN "idle" ELSE "pop_decrement", bottom, top, 0)
  /\ UNCHANGED <<bottom, top, buffer, thieves, pushed, popped, stolen>>

PopDecrement ==
  /\ opc = "pop_decrement"
  /\ bottom' = ob - 1
  /\ OwnerGoes("pop_top", ob, ot, oval)
  /\ UNCHANGED <<top, buffer, thieves, pushed, popped, stolen>>

\* ... the second one, and the read of the item
PopTop ==
  /\ opc = "pop_top"
  /\ LET item == buffer[PopSlot(ob)]
     IN  \/ /\ top > ob - 1
            /\ OwnerGoes("pop_restore", ob, top, oval) /\ UNCHANGED popped
         \/ /\ top <= ob - 1 /\ IsLast(top, ob)
            /\ OwnerGoes("pop_compete", ob, top, item) /\ UNCHANGED popped
         \/ /\ top <= ob - 1 /\ ~IsLast(top, ob)
            /\ OwnerGoes("idle", ob, top, item) /\ popped' = Append(popped, item)
  /\ UNCHANGED <<bottom, top, buffer, thieves, pushed, stolen>>

PopCompete ==
  /\ opc = "pop_compete"
  /\ IF top = ot THEN top' = ot + 1 /\ popped' = Append(popped, oval)
                 ELSE UNCHANGED <<top, popped>>
  /\ OwnerGoes("pop_restore", ob, ot, oval)
  /\ UNCHANGED <<bottom, buffer, thieves, pushed, stolen>>

PopRestore ==
  /\ opc = "pop_restore"
  /\ bottom' = Restored(ob)
  /\ OwnerGoes("idle", ob, ot, oval)
  /\ UNCHANGED <<top, buffer, thieves, pushed, popped, stolen>>

\* steal: load _top, then look at _bottom
StealTop(h) ==
  /\ tpc[h] = "idle"
  /\ ThiefGoes(h, "look", top, 0)
  /\ UNCHANGED <<bottom, top, buffer, owner, pushed, popped, stolen>>

StealLook(h) ==
  /\ tpc[h] = "look"
  /\ ThiefGoes(h, IF tt[h] >= bottom THEN "idle" ELSE "bottom", tt[h], 0)
  /\ UNCHANGED <<bottom, top, buffer, owner, pushed, popped, stolen>>

\* The loop: load _bottom again, read the item, compete for it.
StealBottom(h) ==
  /\ tpc[h] = "bottom"
  /\ ThiefGoes(h, IF tt[h] >= bottom THEN "idle" ELSE "read", tt[h], 0)
  /\ UNCHANGED <<bottom, top, buffer, owner, pushed, popped, stolen>>

StealRead(h) ==
  /\ tpc[h] = "read"
  /\ ThiefGoes(h, "compete", tt[h], buffer[StealSlot(tt[h])])
  /\ UNCHANGED <<bottom, top, buffer, owner, pushed, popped, stolen>>

\* A failed compare-exchange leaves the current _top in t.
StealCompete(h) ==
  /\ tpc[h] = "compete"
  /\ \/ /\ top = tt[h]
        /\ top' = tt[h] + 1
        /\ stolen' = Append(stolen, tval[h])
        /\ ThiefGoes(h, "idle", tt[h], 0)
     \/ /\ top # tt[h]
        /\ ThiefGoes(h, "bottom", top, 0)
        /\ UNCHANGED <<top, stolen>>
  /\ UNCHANGED <<bottom, buffer, owner, pushed, popped>>

Push == PushLoad \/ PushWrite \/ PushPublish
Pop == PopLoad \/ PopDecrement \/ PopTop \/ PopCompete \/ PopRestore
Steal(h) == StealTop(h) \/ StealLook(h) \/ StealBottom(h) \/ StealRead(h) \/ StealCompete(h)

Next == Push \/ Pop \/ \E h \in Thieves : Steal(h)

Spec == Init /\ [][Next]_vars

-----------------------------------------------------------------------------
(* Properties.                                                             *)

Taken == Range(popped) \cup Range(stolen)
Live == {buffer[Slot(i)] : i \in top .. bottom - 1}

\* No item is handed out twice, not even the last one that owner and thieves
\* compete for, and nothing is handed out that was never pushed.
TakenOnce == IsInjective(popped \o stolen) /\ Taken \subseteq 1 .. pushed

\* Whenever the owner is outside push and pop, the slots between _top and
\* _bottom hold exactly the items nobody has got yet.
NothingLost == opc = "idle" => Live = (1 .. pushed) \ Taken

\* Thieves take the items in the order in which they were pushed.
StolenInOrder == \A i, j \in DOMAIN stolen : i < j => stolen[i] < stolen[j]

\* A pop hands out the youngest item that is still to be had.
OwnerTakesNewest ==
  [][popped' # popped => \A v \in (1 .. pushed) \ (Taken \cup Range(popped')) :
                            v < popped'[Len(popped')]]_vars

=============================================================================
