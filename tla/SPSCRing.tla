------------------------------ MODULE SPSCRing ------------------------------
(***************************************************************************)
(* The three array queues for one producer and one consumer of             *)
(* util/lock_free_util.h: ProducerConsumerFreeQueue and RingQueue, whose   *)
(* indices are slots (limit = size), and SPSCBoundedQueue, whose indices   *)
(* run free in 64 bits and are masked (limit a larger multiple of size).   *)
(* Each side stores only its own index; loads of the other side's index,   *)
(* accesses to a slot and stores of an index are steps of their own.  The  *)
(* items are 1, 2, 3, ... in the order in which they are sent.             *)
(***************************************************************************)
EXTENDS Integers

CONSTANTS
  Sizes,    \* the sizes a queue is constructed with
  Limits,   \* where masked indices may wrap
  MaxItems  \* bound on the number of items sent

RingAssumption ==
  /\ Sizes \subseteq Nat \ {0, 1} /\ Limits \subseteq Nat \ {0}
  /\ MaxItems \in Nat

VARIABLES
  size,         \* size_, bufferSize, size
  limit,        \* indices count modulo limit
  writeIndex, readIndex,
  records,
  ppc, pguess,  \* the producer, and its result of sizeGuess
  cpc, cguess,  \* the consumer, and its result of sizeGuess
  front,        \* the item the consumer got from read or looks at by frontPtr
  sent, received  \* history: number of items completely written and read

shape == <<size, limit>>
vars == <<shape, writeIndex, readIndex, records, ppc, pguess, cpc, cguess, front, sent, received>>

Slot(i) == i % size
Step(i) == (i + 1) % limit

FullLate == FALSE                                                     \* fault
Full == Slot(writeIndex + 1) = Slot(readIndex)
Empty == Slot(readIndex) = Slot(writeIndex)

\* sizeGuess and can_consume_size: a negative difference wraps.
Guess(w, r) == (w - r) % size

Init ==
  /\ size \in Sizes /\ limit \in {size} \cup {l \in Limits : l % size = 0}
  /\ writeIndex = 0 /\ readIndex = 0
  /\ records = [i \in 0 .. size - 1 |-> 0]
  /\ ppc = "idle" /\ pguess = 0 /\ cpc = "idle" /\ cguess = 0 /\ front = 0
  /\ sent = 0 /\ received = 0

\* write: load the consumer's index
WriteCheck ==
  /\ ppc = "idle" /\ sent < MaxItems
  /\ ppc' = IF Full THEN "idle" ELSE "write"
  /\ UNCHANGED <<writeIndex, readIndex, records, pguess, cpc, cguess, front, sent, received>>

WriteRecord ==
  /\ ppc = "write"
  /\ records' = [records EXCEPT ![Slot(writeIndex)] = sent + 1]
  /\ ppc' = "publish"
  /\ UNCHANGED <<writeIndex, readIndex, pguess, cpc, cguess, front, sent, received>>

WritePublish ==
  /\ ppc = "publish"
  /\ writeIndex' = Step(writeIndex)
  /\ sent' = sent + 1
  /\ ppc' = "idle"
  /\ UNCHANGED <<readIndex, records, pguess, cpc, cguess, front, received>>

\* read and frontPtr: load the producer's index
ReadCheck ==
  /\ cpc = "idle"
  /\ cpc' = IF Empty THEN "idle" ELSE "read"
  /\ UNCHANGED <<writeIndex, readIndex, records, ppc, pguess, cguess, front, sent, received>>

ReadRecord ==
  /\ cpc = "read"
  /\ front' = records[Slot(readIndex)]
  /\ cpc' = "release"
  /\ UNCHANGED <<writeIndex, readIndex, records, ppc, pguess, cguess, sent, received>>

\* the end of read, and popFront
ReadRelease ==
  /\ cpc = "release"
  /\ readIndex' = Step(readIndex)
  /\ received' = received + 1
  /\ cpc' = "idle"
  /\ UNCHANGED <<writeIndex, records, ppc, pguess, cguess, front, sent>>

\* sizeGuess loads the write index first and then the read index.
ProducerGuess ==
  /\ ppc = "idle"
  /\ pguess' = Guess(writeIndex, readIndex)
  /\ ppc' = "guessed"
  /\ UNCHANGED <<writeIndex, readIndex, records, cpc, cguess, front, sent, received>>

ProducerUsesGuess ==
  /\ ppc = "guessed"
  /\ ppc' = "idle"
  /\ UNCHANGED <<writeIndex, readIndex, records, pguess, cpc, cguess, front, sent, received>>

ConsumerGuess ==
  /\ cpc = "idle"
  /\ cguess' = Guess(writeIndex, readIndex)
  /\ cpc' = "guessed"
  /\ UNCHANGED <<writeIndex, readIndex, records, ppc, pguess, front, sent, received>>

ConsumerUsesGuess ==
  /\ cpc = "guessed"
  /\ cpc' = "idle"
  /\ UNCHANGED <<writeIndex, readIndex, records, ppc, pguess, cguess, front, sent, received>>

Producer == WriteCheck \/ WriteRecord \/ WritePublish \/ ProducerGuess \/ ProducerUsesGuess
Consumer == ReadCheck \/ ReadRecord \/ ReadRelease \/ ConsumerGuess \/ ConsumerUsesGuess

Next == (Producer \/ Consumer) /\ UNCHANGED shape

Spec == Init /\ [][Next]_vars

-----------------------------------------------------------------------------
(* Properties.                                                             *)

\* The item the consumer has is the next one in the order of sending, complete.
InOrder == cpc = "release" => front = received + 1

\* The producer never writes into the slot the consumer is looking at.
SlotExclusive ==
  ppc \in {"write", "publish"} /\ cpc \in {"read", "release"}
    => Slot(writeIndex) # Slot(readIndex)

\* A write is refused exactly when size - 1 items are in the queue, as the
\* comment on the constructor says of the usable slots, and a read exactly when
\* there is none.
RefusedWhenFull ==
  /\ ppc = "idle" => (Full <=> sent - received = size - 1)
  /\ cpc = "idle" => (Empty <=> sent = received)

\* "If called by consumer, then true size may be more", and if called by the
\* producer it may be less.
GuessBounds ==
  /\ ppc = "guessed" => pguess >= sent - received
  /\ cpc = "guessed" => cguess <= sent - received

=============================================================================
