---------------------------- MODULE BoundedDeque ----------------------------
(***************************************************************************)
(* What the ring buffers of util/blocking_queue.h promise: a sequence of   *)
(* at most Cap items that can be changed at both ends.  The top is the     *)
(* first item, the bottom the last one.                                    *)
(***************************************************************************)
EXTENDS Naturals, Sequences

CONSTANTS
  Values,
  NoValue,  \* handed out by an operation that fails or returns no item
  Cap       \* the number of items that fit

VARIABLES
  deque,    \* the items
  out       \* the last operation, what it returned and the item it handed out

Result(op, ok, item) == [op |-> op, ok |-> ok, item |-> item]

Init == deque = <<>> /\ out = Result("none", FALSE, NoValue)

Becomes(op, q) == deque' = q /\ out' = Result(op, TRUE, NoValue)
Fails(op) == deque' = deque /\ out' = Result(op, FALSE, NoValue)
Gives(op, v, q) == deque' = q /\ out' = Result(op, TRUE, v)

Room == Len(deque) < Cap

PushBottom(v) == IF Room THEN Becomes("push", Append(deque, v)) ELSE Fails("push")
PushTop(v) == IF Room THEN Becomes("push_top", <<v>> \o deque) ELSE Fails("push_top")
\* Push at the bottom, at the cost of the top item when there is no room.
ElimPush(v) == Becomes("elim_push", Append(IF Room THEN deque ELSE Tail(deque), v))
\* Both or none.
PushTwo(v, w) ==
  IF Len(deque) + 2 <= Cap THEN Becomes("push_two", deque \o <<v, w>>)
  ELSE Fails("push_two")

PopTop ==
  IF deque = <<>> THEN Fails("pop") ELSE Gives("pop", Head(deque), Tail(deque))
PopBottom ==
  IF deque = <<>> THEN Fails("pop_bottom")
  ELSE Gives("pop_bottom", deque[Len(deque)], SubSeq(deque, 1, Len(deque) - 1))
Clear == Becomes("clear", <<>>)

Next ==
  \/ \E v \in Values : PushBottom(v) \/ PushTop(v) \/ ElimPush(v)
  \/ \E v, w \in Values : PushTwo(v, w)
  \/ PopTop \/ PopBottom \/ Clear

Spec == Init /\ [][Next]_<<deque, out>>
=============================================================================
