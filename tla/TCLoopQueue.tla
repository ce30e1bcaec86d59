----------------------------- MODULE TCLoopQueue ----------------------------
(***************************************************************************)
(* TCLoopQueue of util/blocking_queue.h: a ring with one slot more than    *)
(* its size, so that equal indices mean empty.  _iBegin is where the next  *)
(* item is written and _iEnd where the next one is read.                   *)
(***************************************************************************)
EXTENDS Integers, Sequences

CONSTANTS
  Values, NoValue,
  Raw,    \* the content of memory that malloc returns
  Size    \* iSize

LoopQueueAssumption ==
  Size \in Nat \ {0} /\ NoValue \notin Values /\ Raw \notin Values \cup {NoValue}

VARIABLES
  p,            \* _p
  begin, end,   \* _iBegin, _iEnd
  out,          \* the last operation, what it returned and handed out
  bEmpty        \* the output parameter of the last push_back that has it

vars == <<p, begin, end, out, bEmpty>>

Result(op, ok, item) == [op |-> op, ok |-> ok, item |-> item]

Places == Size + 1
Slots == 0 .. Size

\* The step of an index: _iCapacitySub is the last slot.
Step(i) == IF i = Size THEN 0 ELSE i + 1

size(b, e) == IF b < e THEN b + Places - e ELSE b - e

Init ==
  /\ p = [i \in Slots |-> Raw]
  /\ begin = 0 /\ end = 0 /\ out = Result("none", FALSE, NoValue) /\ bEmpty = FALSE

Fails(op) == out' = Result(op, FALSE, NoValue) /\ UNCHANGED <<p, begin, end>>

Full ==
  \/ end > begin /\ end - begin < 2
  \/ begin > end /\ begin - end > Places - 2

\* The three overloads for one item differ in what they report.
WasEmpty == end = begin \/ size(begin', end') = 1
push_back(v) ==
  IF Full THEN Fails("push") /\ bEmpty' = FALSE
  ELSE /\ p' = [p EXCEPT ![begin] = v]
       /\ begin' = Step(begin) /\ end' = end
       /\ bEmpty' = WasEmpty
       /\ out' = Result("push", TRUE, NoValue)

\* The overload for a vector, here of two items.
NoRoom(n) ==
  \/ n > Places - 1
  \/ end > begin /\ end - begin < n + 1
  \/ begin > end /\ begin - end > Places - n - 1
push_back_all(v, w) ==
  /\ bEmpty' = bEmpty
  /\ IF NoRoom(2) THEN Fails("push_two")
     ELSE /\ p' = [p EXCEPT ![begin] = v, ![Step(begin)] = w]
          /\ begin' = Step(Step(begin)) /\ end' = end
          /\ out' = Result("push_two", TRUE, NoValue)

\* pop_front(t); get_front and the other pop_front do part of it
pop_front ==
  /\ bEmpty' = bEmpty
  /\ IF end = begin THEN Fails("pop")
     ELSE /\ out' = Result("pop", TRUE, p[end])
          /\ end' = Step(end)
          /\ UNCHANGED <<p, begin>>

Next ==
  \/ \E v \in Values : push_back(v)
  \/ \E v, w \in Values : push_back_all(v, w)
  \/ pop_front

Spec == Init /\ [][Next]_vars

-----------------------------------------------------------------------------
(* Properties.                                                             *)

TypeOK ==
  /\ p \in [Slots -> Values \cup {Raw}]
  /\ begin \in Slots /\ end \in Slots
  /\ out \in [op : {"none", "push", "push_two", "pop"}, ok : BOOLEAN,
               item : Values \cup {NoValue, Raw}]
  /\ bEmpty \in BOOLEAN

Slot(k) == IF end + k > Size THEN end + k - Places ELSE end + k
Items == [k \in 1 .. size(begin, end) |-> p[Slot(k - 1)]]

Queue == INSTANCE BoundedDeque WITH deque <- Items, Cap <- Size

\* The ring behaves as a bounded queue of exactly Size items: no push is
\* refused early, and a vector goes in as a whole or not at all.
ImplementsQueue == Queue!Spec

\* push_back reports through bEmpty that its reader may be waiting exactly when
\* the queue was empty before.
ReportsEmpty ==
  [][(\E v \in Values : push_back(v)) => (bEmpty' <=> out'.ok /\ Items = <<>>)]_vars

=============================================================================
