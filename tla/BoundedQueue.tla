---------------------------- MODULE BoundedQueue ----------------------------
(***************************************************************************)
(* BoundedQueue of util/blocking_queue.h: a ring of _cap slots whose items *)
(* are the _count slots from _start on.  Top is the end at _start, bottom  *)
(* the other one.  pop_bottom finds its slot without the reduction modulo  *)
(* _cap that all other operations apply; beyond the ring lies memory that  *)
(* does not belong to it, which is modelled as the value Foreign.          *)
(***************************************************************************)
EXTENDS Integers, Sequences

CONSTANTS
  Values, NoValue,
  Foreign,  \* what lies behind the last slot
  Cap       \* _cap

AllOps == {"push", "push_top", "elim_push", "pop", "pop_bottom", "clear"}

BoundedQueueAssumption ==
  Cap \in Nat \ {0} /\ NoValue \notin Values /\ Foreign \notin Values \cup {NoValue}

VARIABLES
  items,         \* _items
  start, count,  \* _start, _count
  out            \* the last operation, what it returned and handed out

vars == <<items, start, count, out>>

Result(op, ok, item) == [op |-> op, ok |-> ok, item |-> item]

Slots == 0 .. Cap - 1

\* _mod subtracts _cap until the offset is a slot; offsets are below 2 * _cap.
_mod(off) == IF off >= Cap THEN off - Cap ELSE off

Read(i) == IF i \in Slots THEN items[i] ELSE Foreign

Init ==
  /\ items = [i \in Slots |-> Foreign]
  /\ start = 0 /\ count = 0 /\ out = Result("none", FALSE, NoValue)

Fails(op) == out' = Result(op, FALSE, NoValue) /\ UNCHANGED <<items, start, count>>
Done(op) == out' = Result(op, TRUE, NoValue)

AppendItem(op, v) ==
  /\ items' = [items EXCEPT ![_mod(start + count)] = v]
  /\ count' = count + 1
  /\ start' = start /\ Done(op)

\* push(item), and push() with the item its caller constructs in place
push(v) ==
  IF count < Cap THEN AppendItem("push", v) ELSE Fails("push")

elim_push(v) ==
  IF count < Cap THEN AppendItem("elim_push", v)
  ELSE /\ items' = [items EXCEPT ![start] = v]
       /\ start' = _mod(start + 1)
       /\ count' = count /\ Done("elim_push")

TopSlot(s) == IF s = 0 THEN Cap - 1 ELSE s - 1

push_top(v) ==
  IF count < Cap
  THEN /\ start' = TopSlot(start)
       /\ items' = [items EXCEPT ![start'] = v]
       /\ count' = count + 1 /\ Done("push_top")
  ELSE Fails("push_top")

pop ==
  IF count = 0 THEN Fails("pop")
  ELSE /\ out' = Result("pop", TRUE, items[start])
       /\ start' = _mod(start + 1)
       /\ count' = count - 1 /\ items' = items

BottomSlotLate == start + count                                       \* fault
BottomSlot == start + count - 1

pop_bottom ==
  IF count = 0 THEN Fails("pop_bottom")
  ELSE /\ out' = Result("pop_bottom", TRUE, Read(BottomSlot))
       /\ count' = count - 1 /\ UNCHANGED <<items, start>>

clear ==
  count' = 0 /\ start' = 0 /\ items' = items /\ Done("clear")

Next ==
  \/ \E v \in Values : push(v) \/ elim_push(v) \/ push_top(v)
  \/ pop \/ pop_bottom \/ clear

Spec == Init /\ [][Next]_vars

-----------------------------------------------------------------------------
(* Properties.                                                             *)

TypeOK ==
  /\ items \in [Slots -> Values \cup {Foreign}]
  /\ start \in Slots /\ count \in 0 .. Cap
  /\ out \in [op : AllOps \cup {"none"}, ok : BOOLEAN, item : Values \cup {NoValue, Foreign}]

\* top(index) and bottom(index), for an index below _count
top(index) == items[_mod(start + index)]
bottom(index) == items[_mod(start + count - index - 1)]

Items == [k \in 1 .. count |-> top(k - 1)]

\* Each occupied slot holds an item that was pushed, and the two ways to reach
\* an item agree.
AccessorsAgree ==
  \A i \in 0 .. count - 1 : top(i) \in Values /\ bottom(count - 1 - i) = top(i)

Deque == INSTANCE BoundedDeque WITH deque <- Items

\* The bottom item lies behind the wrap, where pop_bottom does not look.
BottomWrapped == start + count > Cap

\* What pop_bottom does then: it takes the bottom item out of the queue, but
\* hands out what lies behind the last slot.
PopsForeign ==
  BottomWrapped /\ Deque!Gives("pop_bottom", Foreign, SubSeq(Items, 1, count - 1))

\* The ring behaves as a bounded double-ended queue: every operation returns
\* and hands out what the abstract one does, wherever the ring has wrapped,
\* with the one exception of pop_bottom when the bottom item has wrapped.
ImplementsDeque == Deque!Init /\ [][Deque!Next \/ PopsForeign]_<<Items, out>>

=============================================================================
