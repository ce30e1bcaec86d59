------------------------------ MODULE QueueRing -----------------------------
(***************************************************************************)
(* QueueRing of util/blocking_queue.h: a ring of buckets, each a list with *)
(* a mutex and a condition variable.  An operation first takes the number  *)
(* of its bucket from an atomic counter and then works on that bucket.     *)
(* dequeue waits in an if and asserts that there is an element afterwards, *)
(* so that a spurious wakeup can end the process; enqueue signals only     *)
(* when it finds the bucket empty.                                         *)
(***************************************************************************)
EXTENDS Integers, Sequences, Functions

CONSTANTS
  Producers, Consumers, Values,
  N          \* num_buckets

QueueRingAssumption == N \in Nat \ {0} /\ Producers \cap Consumers = {}

RingClients == Producers \cup Consumers
Buckets == 0 .. N - 1

VARIABLES
  entries,     \* the list of each bucket
  cur_write, cur_read,  \* the counters, modulo N
  pc,          \* what each client does
  bucket,      \* the bucket of each client
  val,         \* the value each producer enqueues
  claimed,     \* history: the values in the order they got their buckets
  consumed,    \* history: the values dequeued, in order
  asserted     \* FALSE once the assertion of dequeue has failed and the process ended

vars == <<entries, cur_write, cur_read, pc, bucket, val, claimed, consumed, asserted>>

Waiting(p, b) == {c \in Consumers : p[c] = "wait" /\ bucket[c] = b}
Signal(p, b) ==
  IF Waiting(p, b) = {} THEN {p} ELSE {[p EXCEPT ![c] = "woken"] : c \in Waiting(p, b)}

SignalIfEmpty(p, b) == IF entries[b] = <<>> THEN Signal(p, b) ELSE {p}

PushBack(q, v) == Append(q, v)
PopKeep(q) == q                                                       \* fault
PopFront(q) == Tail(q)

NextBucket(i) == (i + 1) % N

Init ==
  /\ entries = [b \in Buckets |-> <<>>] /\ cur_write = 0 /\ cur_read = 0
  /\ pc = [c \in RingClients |-> "idle"] /\ bucket = [c \in RingClients |-> 0]
  /\ val = [p \in Producers |-> 0]
  /\ claimed = <<>> /\ consumed = <<>> /\ asserted = TRUE

\* ++cur_write_bucket % num_buckets
ClaimWrite(p, v) ==
  /\ pc[p] = "idle" /\ v \notin Range(claimed)
  /\ cur_write' = NextBucket(cur_write)
  /\ bucket' = [bucket EXCEPT ![p] = NextBucket(cur_write)]
  /\ val' = [val EXCEPT ![p] = v]
  /\ claimed' = Append(claimed, v)
  /\ pc' = [pc EXCEPT ![p] = "enqueue"]
  /\ UNCHANGED <<entries, cur_read, consumed, asserted>>

\* QueueBucket::enqueue
Enqueue(p) ==
  /\ pc[p] = "enqueue"
  /\ pc' \in SignalIfEmpty([pc EXCEPT ![p] = "idle"], bucket[p])
  /\ entries' = [entries EXCEPT ![bucket[p]] = PushBack(@, val[p])]
  /\ UNCHANGED <<cur_write, cur_read, bucket, val, claimed, consumed, asserted>>

\* ++cur_read_bucket % num_buckets
ClaimRead(c) ==
  /\ pc[c] = "idle"
  /\ cur_read' = (cur_read + 1) % N
  /\ bucket' = [bucket EXCEPT ![c] = cur_read']
  /\ pc' = [pc EXCEPT ![c] = "dequeue"]
  /\ UNCHANGED <<entries, cur_write, val, claimed, consumed, asserted>>

\* QueueBucket::dequeue, as far as the wait
DequeueWait(c) ==
  /\ pc[c] = "dequeue" /\ entries[bucket[c]] = <<>>
  /\ pc' = [pc EXCEPT ![c] = "wait"]
  /\ UNCHANGED <<entries, cur_write, cur_read, bucket, val, claimed, consumed, asserted>>

\* ... and without or after it
Dequeue(c) ==
  /\ pc[c] \in {"dequeue", "woken", "spurious"} /\ entries[bucket[c]] # <<>>
  /\ consumed' = Append(consumed, Head(entries[bucket[c]]))
  /\ entries' = [entries EXCEPT ![bucket[c]] = PopFront(@)]
  /\ pc' = [pc EXCEPT ![c] = "idle"]
  /\ UNCHANGED <<cur_write, cur_read, bucket, val, claimed, asserted>>

\* assert(!entries.empty()) after the wait: abort ends the process.
DequeueAssert(c) ==
  /\ pc[c] \in {"woken", "spurious"} /\ entries[bucket[c]] = <<>>
  /\ asserted' = FALSE
  /\ pc' = [pc EXCEPT ![c] = "aborted"]
  /\ UNCHANGED <<entries, cur_write, cur_read, bucket, val, claimed, consumed>>

\* CondVar::wait returns without a signal.
SpuriousWakeup(c) ==
  /\ pc[c] = "wait"
  /\ pc' = [pc EXCEPT ![c] = "spurious"]
  /\ UNCHANGED <<entries, cur_write, cur_read, bucket, val, claimed, consumed, asserted>>

Consumer(c) == ClaimRead(c) \/ DequeueWait(c) \/ Dequeue(c) \/ DequeueAssert(c)

Next ==
  /\ asserted
  /\ \/ \E p \in Producers : (\E v \in Values : ClaimWrite(p, v)) \/ Enqueue(p)
     \/ \E c \in Consumers : Consumer(c) \/ SpuriousWakeup(c)

Spec == Init /\ [][Next]_vars

\* Consumers keep dequeuing and an enqueue that has begun is finished.
FairSpec ==
  /\ Spec
  /\ \A p \in Producers : WF_vars(asserted /\ Enqueue(p))
  /\ \A c \in Consumers : WF_vars(asserted /\ Consumer(c))

-----------------------------------------------------------------------------
(* Properties.                                                             *)

\* What the assertion of QueueBucket::dequeue says, of a consumer that was
\* signalled: it finds an element.  One that woke up spuriously may not.
AssertionHolds == \A c \in Consumers : pc[c] = "woken" => entries[bucket[c]] # <<>>

\* Each value is dequeued at most once, and until then it is in a bucket or
\* in the hands of its producer, in whatever order buckets are filled.
NothingLost ==
  /\ IsInjective(consumed)
  /\ Range(claimed) = Range(consumed)
                        \cup (UNION {Range(entries[b]) : b \in Buckets})
                        \cup {val[p] : p \in {q \in Producers : pc[q] = "enqueue"}}

\* With one producer and one consumer the ring as a whole is a FIFO.
RingOrder ==
  Len(consumed) <= Len(claimed) /\ \A i \in 1 .. Len(consumed) : consumed[i] = claimed[i]

=============================================================================
