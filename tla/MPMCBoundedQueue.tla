-------------------------- MODULE MPMCBoundedQueue --------------------------
(***************************************************************************)
(* MPMCBoundedQueue of util/lock_free_util.h: a ring of nodes, each with a *)
(* sequence number that tells whose turn the node is.  A client claims a   *)
(* position by a compare-exchange on head or tail and then has the node of *)
(* that position to itself until it stores the node's next number.         *)
(*                                                                         *)
(* produce stands for mp_produce: sp_produce names a member node_t does    *)
(* not have and cannot be instantiated.  Positions are bounded by the      *)
(* number of values and never wrap.                                        *)
(***************************************************************************)
EXTENDS Integers, Sequences, Functions

CONSTANTS
  Producers, Consumers, Values, NoValue,
  Size    \* size, a power of two

MPMCAssumption ==
  /\ Size \in Nat \ {0} /\ Producers \cap Consumers = {}
  /\ Values \subseteq Nat /\ NoValue \notin Values

Clients == Producers \cup Consumers

VARIABLES
  head, tail,
  next, data,  \* the two fields of the nodes
  pc,          \* what each client does
  seq,         \* headSequence or tailSequence of each client
  val,         \* input or output of each client
  claimed      \* history: the values in the order of their positions

vars == <<head, tail, next, data, pc, seq, val, claimed>>

Nodes == 0 .. Size - 1
Node(s) == s % Size

\* The number with which a producer and a consumer hand a node over.
Filled(s) == s + 1
FreedEarly(s) == s + Size - 1                                         \* fault
Freed(s) == s + Size

\* The counter a client competes for.
Counter(c) == IF c \in Producers THEN head ELSE tail
\* The difference that tells whose turn it is.
Turn(c) == next[Node(seq[c])] - (IF c \in Producers THEN seq[c] ELSE Filled(seq[c]))

Init ==
  /\ head = 0 /\ tail = 0
  /\ next = [n \in Nodes |-> n] /\ data = [n \in Nodes |-> NoValue]
  /\ pc = [c \in Clients |-> "idle"] /\ seq = [c \in Clients |-> 0]
  /\ val = [c \in Clients |-> NoValue]
  /\ claimed = <<>>

Goto(c, l) == pc' = [pc EXCEPT ![c] = l]
Return(c) ==
  /\ Goto(c, "idle")
  /\ seq' = [seq EXCEPT ![c] = 0] /\ val' = [val EXCEPT ![c] = NoValue]

\* Values do not matter, so a producer always takes the least unused one.
Unused == Values \ (Range(claimed) \cup {val[q] : q \in Producers})

\* The first load of the counter.
produce(p, v) ==
  /\ pc[p] = "idle" /\ v \in Unused /\ \A w \in Unused : v <= w
  /\ val' = [val EXCEPT ![p] = v]
  /\ seq' = [seq EXCEPT ![p] = head]
  /\ Goto(p, "node")
  /\ UNCHANGED <<head, tail, next, data, claimed>>

consume(c) ==
  /\ pc[c] = "idle"
  /\ seq' = [seq EXCEPT ![c] = tail]
  /\ Goto(c, "node")
  /\ UNCHANGED <<head, tail, next, data, val, claimed>>

\* The load of the node's number: go on, give up, or load the counter again.
MyTurn(c) ==
  /\ pc[c] = "node" /\ Turn(c) = 0
  /\ Goto(c, "claim")
  /\ UNCHANGED <<head, tail, next, data, seq, val, claimed>>

GiveUp(c) ==
  /\ pc[c] = "node" /\ Turn(c) < 0
  /\ Return(c)
  /\ UNCHANGED <<head, tail, next, data, claimed>>

Behind(c) ==
  /\ pc[c] = "node" /\ Turn(c) > 0
  /\ Goto(c, "reload")
  /\ UNCHANGED <<head, tail, next, data, seq, val, claimed>>

Reload(c) ==
  /\ pc[c] = "reload"
  /\ seq' = [seq EXCEPT ![c] = Counter(c)]
  /\ Goto(c, "node")
  /\ UNCHANGED <<head, tail, next, data, val, claimed>>

Unmoved(c) == Counter(c) = seq[c]

ClaimHead(p) ==
  /\ p \in Producers /\ pc[p] = "claim" /\ Unmoved(p)
  /\ head' = seq[p] + 1
  /\ claimed' = Append(claimed, val[p])
  /\ Goto(p, "write")
  /\ UNCHANGED <<tail, next, data, seq, val>>

ClaimTail(c) ==
  /\ c \in Consumers /\ pc[c] = "claim" /\ Unmoved(c)
  /\ tail' = seq[c] + 1
  /\ Goto(c, "read")
  /\ UNCHANGED <<head, next, data, seq, val, claimed>>

\* compare_exchange_weak may fail although the counter has not moved.
ClaimFails(c) ==
  /\ pc[c] = "claim"
  /\ seq' = [seq EXCEPT ![c] = Counter(c)]
  /\ Goto(c, "node")
  /\ UNCHANGED <<head, tail, next, data, val, claimed>>

Write(p) ==
  /\ pc[p] = "write"
  /\ data' = [data EXCEPT ![Node(seq[p])] = val[p]]
  /\ Goto(p, "publish")
  /\ UNCHANGED <<head, tail, next, seq, val, claimed>>

Publish(p) ==
  /\ pc[p] = "publish"
  /\ next' = [next EXCEPT ![Node(seq[p])] = Filled(seq[p])]
  /\ Return(p)
  /\ UNCHANGED <<head, tail, data, claimed>>

Read(c) ==
  /\ pc[c] = "read"
  /\ val' = [val EXCEPT ![c] = data[Node(seq[c])]]
  /\ Goto(c, "release")
  /\ UNCHANGED <<head, tail, next, data, seq, claimed>>

Release(c) ==
  /\ pc[c] = "release"
  /\ next' = [next EXCEPT ![Node(seq[c])] = Freed(seq[c])]
  /\ Return(c)
  /\ UNCHANGED <<head, tail, data, claimed>>

Inside(c) ==
  \/ MyTurn(c) \/ GiveUp(c) \/ Behind(c) \/ Reload(c) \/ ClaimFails(c)
  \/ ClaimHead(c) \/ ClaimTail(c) \/ Write(c) \/ Publish(c) \/ Read(c) \/ Release(c)

Next ==
  \/ \E p \in Producers, v \in Values : produce(p, v)
  \/ \E c \in Consumers : consume(c)
  \/ \E c \in Clients : Inside(c)

Spec == Init /\ [][Next]_vars

-----------------------------------------------------------------------------
(* Properties.                                                             *)

\* A consumer gets the value whose position it claimed: values come out in the
\* order in which producers claimed their places, and each only once.
HandsOutInOrder ==
  \A c \in Consumers : pc[c] = "release" => val[c] = claimed[seq[c] + 1]

Exclusive == {"write", "publish", "read", "release"}

\* Whoever works on a node has it to itself.
NodeExclusive ==
  \A c, d \in Clients :
    c # d /\ pc[c] \in Exclusive /\ pc[d] \in Exclusive => Node(seq[c]) # Node(seq[d])

\* A producer is refused only when Size values are in the queue or the one
\* that occupies its node is just being copied out.
RefusedOnlyWhenFull ==
  [][\A p \in Producers : pc[p] = "node" /\ pc'[p] = "idle" =>
       \/ head - tail >= Size
       \/ \E c \in Consumers : pc[c] \in {"read", "release"} /\ seq[c] = seq[p] - Size]_vars

\* A consumer is turned away only when nothing is claimed for its position or
\* the producer of that position has not finished.
EmptyOnlyWhenUnfilled ==
  [][\A c \in Consumers : pc[c] = "node" /\ pc'[c] = "idle" =>
       \/ seq[c] >= head
       \/ \E p \in Producers : pc[p] \in {"write", "publish"} /\ seq[p] = seq[c]]_vars

=============================================================================
