---------------------------- MODULE QueueProofs -----------------------------
(***************************************************************************)
(* Proofs about DoublyBufferedData, for any number of readers, modifiers   *)
(* and modifications, and about the queues of QueueSuite.  What is proved  *)
(* of each queue in BlockingQueues holds of the instances in the suite,    *)
(* because a step of the suite is a step of one instance and leaves the    *)
(* others alone.  QueueRing, BoundedQueue and TCLoopQueue are proved here: *)
(* that the ring of buckets loses and repeats nothing, that with one       *)
(* producer and one consumer it is first in first out, and that the two    *)
(* array queues implement BoundedDeque, wraparound included.               *)
(***************************************************************************)
EXTENDS QueueSuite, TLAPS

\* Readers and modifiers are at places of their own code, and a reader that
\* is inside Read or has its result is registered.
Places ==
  /\ \A r \in Readers : pc[r] \in {"idle", "locked", "reading"}
  /\ \A m \in Modifiers : pc[m] \in {"idle", "first", "flip", "flipped", "scan", "second"}
  /\ \A r \in Readers : pc[r] # "idle" => r \in wrappers

\* Who is inside Modify holds its mutex, and who scans holds the other one.
Mutexes ==
  /\ \A m \in Modifiers : pc[m] # "idle" <=> mholder = m
  /\ \A m \in Modifiers : pc[m] = "scan" <=> wholder = m

\* A reader with the old foreground is one that the running Modify has still
\* to wait for.
OldReadersAwaited ==
  \A r \in Readers :
    pc[r] = "reading" /\ ptr[r] # index =>
      /\ mholder \in Modifiers
      /\ pc[mholder] = "flipped" \/ (pc[mholder] = "scan" /\ r \in todo)

\* How far the instances are at each place of Modify.
Versions ==
  /\ mholder = None => data[index] = changes /\ data[1 - index] = changes
  /\ \A m \in Modifiers :
       /\ pc[m] = "first" => data[index] = changes /\ data[1 - index] = changes
       /\ pc[m] = "flip" => data[index] = changes /\ data[1 - index] = changes + 1
       /\ pc[m] \in {"flipped", "scan", "second"}
            => data[index] = changes + 1 /\ data[1 - index] = changes

IInv == TypeOK /\ Places /\ Mutexes /\ OldReadersAwaited /\ Versions

\* The constructor establishes the invariant.
LEMMA InitIInv == Init => IInv
BY DoublyBufferedAssumption
DEF Init, IInv, TypeOK, Places, Mutexes, OldReadersAwaited, Versions, Threads

\* Every step of a reader or a modifier preserves the types.
LEMMA TypeStep == IInv /\ [Next]_vars => TypeOK'
<1> SUFFICES ASSUME IInv, [Next]_vars PROVE TypeOK'
  OBVIOUS
<1> USE DoublyBufferedAssumption DEF IInv, TypeOK, Threads, Goto, Background
<1>1. ASSUME NEW r \in Readers, AddWrapper(r) PROVE TypeOK'
  BY <1>1 DEF AddWrapper
<1>2. ASSUME NEW r \in Readers, Read(r) PROVE TypeOK'
  BY <1>2 DEF Read, BeginRead, UnsafeRead, EndRead
<1>3. ASSUME NEW r \in Readers, RemoveWrapper(r) PROVE TypeOK'
  BY <1>3 DEF RemoveWrapper
<1>4. ASSUME NEW m \in Modifiers, Modify(m) PROVE TypeOK'
  BY <1>4 DEF Modify
<1>5. ASSUME NEW m \in Modifiers, FirstCall(m) PROVE TypeOK'
  BY <1>5 DEF FirstCall
<1>6. ASSUME NEW m \in Modifiers, FirstCallRefused(m) PROVE TypeOK'
  BY <1>6 DEF FirstCallRefused
<1>7. ASSUME NEW m \in Modifiers, Flip(m) PROVE TypeOK'
  BY <1>7 DEF Flip, Flipped
<1>8. ASSUME NEW m \in Modifiers, ScanBegin(m) PROVE TypeOK'
  BY <1>8 DEF ScanBegin, ToScan
<1>9. ASSUME NEW m \in Modifiers, NEW r \in Readers, WaitReadDone(m, r) PROVE TypeOK'
  BY <1>9 DEF WaitReadDone
<1>10. ASSUME NEW m \in Modifiers, ScanEnd(m) PROVE TypeOK'
  BY <1>10 DEF ScanEnd, ScanUnlocks
<1>11. ASSUME NEW m \in Modifiers, SecondCall(m) PROVE TypeOK'
  BY <1>11 DEF SecondCall, SecondChange
<1>12. CASE UNCHANGED vars
  BY <1>12 DEF vars
<1> QED
  BY <1>1, <1>2, <1>3, <1>4, <1>5, <1>6, <1>7, <1>8, <1>9, <1>10, <1>11, <1>12
  DEF Next, Modifying
\* No step takes a thread to a place of the other kind of thread or leaves a
\* reader unregistered.
LEMMA PlacesStep == IInv /\ [Next]_vars => Places'
<1> SUFFICES ASSUME IInv, [Next]_vars PROVE Places'
  OBVIOUS
<1> USE DoublyBufferedAssumption DEF IInv, TypeOK, Threads, Goto, Background,
      Places
<1>1. ASSUME NEW r \in Readers, AddWrapper(r) PROVE Places'
  BY <1>1 DEF AddWrapper
<1>2. ASSUME NEW r \in Readers, BeginRead(r) PROVE Places'
  BY <1>2 DEF BeginRead
<1>3. ASSUME NEW r \in Readers, UnsafeRead(r) PROVE Places'
  BY <1>3 DEF UnsafeRead
<1>4. ASSUME NEW r \in Readers, EndRead(r) PROVE Places'
  BY <1>4 DEF EndRead
<1>5. ASSUME NEW r \in Readers, RemoveWrapper(r) PROVE Places'
  BY <1>5 DEF RemoveWrapper
<1>6. ASSUME NEW m \in Modifiers, Modify(m) PROVE Places'
  BY <1>6 DEF Modify
<1>7. ASSUME NEW m \in Modifiers, FirstCall(m) PROVE Places'
  BY <1>7 DEF FirstCall
<1>8. ASSUME NEW m \in Modifiers, FirstCallRefused(m) PROVE Places'
  BY <1>8 DEF FirstCallRefused
<1>9. ASSUME NEW m \in Modifiers, Flip(m) PROVE Places'
  BY <1>9 DEF Flip, Flipped
<1>10. ASSUME NEW m \in Modifiers, ScanBegin(m) PROVE Places'
  BY <1>10 DEF ScanBegin, ToScan
<1>11. ASSUME NEW m \in Modifiers, NEW r \in Readers, WaitReadDone(m, r) PROVE Places'
  BY <1>11 DEF WaitReadDone, MutexFree
<1>12. ASSUME NEW m \in Modifiers, ScanEnd(m) PROVE Places'
  BY <1>12 DEF ScanEnd, ScanUnlocks
<1>13. ASSUME NEW m \in Modifiers, SecondCall(m) PROVE Places'
  BY <1>13 DEF SecondCall, SecondChange
<1>14. CASE UNCHANGED vars
  BY <1>14 DEF vars
<1> QED
  BY <1>1, <1>2, <1>3, <1>4, <1>5, <1>6, <1>7, <1>8, <1>9, <1>10, <1>11, <1>12, <1>13, <1>14
  DEF Next, Read, Modifying

\* No step breaks the correspondence of places and mutexes.
LEMMA MutexesStep == IInv /\ [Next]_vars => Mutexes'
<1> SUFFICES ASSUME IInv, [Next]_vars PROVE Mutexes'
  OBVIOUS
<1> USE DoublyBufferedAssumption DEF IInv, TypeOK, Threads, Goto, Background,
      Places, Mutexes
<1>1. ASSUME NEW r \in Readers, AddWrapper(r) PROVE Mutexes'
  BY <1>1 DEF AddWrapper
<1>2. ASSUME NEW r \in Readers, BeginRead(r) PROVE Mutexes'
  BY <1>2 DEF BeginRead
<1>3. ASSUME NEW r \in Readers, UnsafeRead(r) PROVE Mutexes'
  BY <1>3 DEF UnsafeRead
<1>4. ASSUME NEW r \in Readers, EndRead(r) PROVE Mutexes'
  BY <1>4 DEF EndRead
<1>5. ASSUME NEW r \in Readers, RemoveWrapper(r) PROVE Mutexes'
  BY <1>5 DEF RemoveWrapper
<1>6. ASSUME NEW m \in Modifiers, Modify(m) PROVE Mutexes'
  BY <1>6 DEF Modify
<1>7. ASSUME NEW m \in Modifiers, FirstCall(m) PROVE Mutexes'
  BY <1>7 DEF FirstCall
<1>8. ASSUME NEW m \in Modifiers, FirstCallRefused(m) PROVE Mutexes'
  BY <1>8 DEF FirstCallRefused
<1>9. ASSUME NEW m \in Modifiers, Flip(m) PROVE Mutexes'
  BY <1>9 DEF Flip, Flipped
<1>10. ASSUME NEW m \in Modifiers, ScanBegin(m) PROVE Mutexes'
  BY <1>10 DEF ScanBegin, ToScan
<1>11. ASSUME NEW m \in Modifiers, NEW r \in Readers, WaitReadDone(m, r) PROVE Mutexes'
  BY <1>11 DEF WaitReadDone, MutexFree
<1>12. ASSUME NEW m \in Modifiers, ScanEnd(m) PROVE Mutexes'
  BY <1>12 DEF ScanEnd, ScanUnlocks
<1>13. ASSUME NEW m \in Modifiers, SecondCall(m) PROVE Mutexes'
  BY <1>13 DEF SecondCall, SecondChange
<1>14. CASE UNCHANGED vars
  BY <1>14 DEF vars
<1> QED
  BY <1>1, <1>2, <1>3, <1>4, <1>5, <1>6, <1>7, <1>8, <1>9, <1>10, <1>11, <1>12, <1>13, <1>14
  DEF Next, Read, Modifying

\* No step lets Modify forget a reader that still has the old foreground.
LEMMA OldReadersStep == IInv /\ [Next]_vars => OldReadersAwaited'
<1> SUFFICES ASSUME IInv, [Next]_vars PROVE OldReadersAwaited'
  OBVIOUS
<1> USE DoublyBufferedAssumption DEF IInv, TypeOK, Threads, Goto, Background,
      Places, Mutexes, OldReadersAwaited
<1>1. ASSUME NEW r \in Readers, AddWrapper(r) PROVE OldReadersAwaited'
  BY <1>1 DEF AddWrapper
<1>2. ASSUME NEW r \in Readers, BeginRead(r) PROVE OldReadersAwaited'
  BY <1>2 DEF BeginRead
<1>3. ASSUME NEW r \in Readers, UnsafeRead(r) PROVE OldReadersAwaited'
  BY <1>3 DEF UnsafeRead
<1>4. ASSUME NEW r \in Readers, EndRead(r) PROVE OldReadersAwaited'
  BY <1>4 DEF EndRead
<1>5. ASSUME NEW r \in Readers, RemoveWrapper(r) PROVE OldReadersAwaited'
  BY <1>5 DEF RemoveWrapper
<1>6. ASSUME NEW m \in Modifiers, Modify(m) PROVE OldReadersAwaited'
  BY <1>6 DEF Modify
<1>7. ASSUME NEW m \in Modifiers, FirstCall(m) PROVE OldReadersAwaited'
  BY <1>7 DEF FirstCall
<1>8. ASSUME NEW m \in Modifiers, FirstCallRefused(m) PROVE OldReadersAwaited'
  BY <1>8 DEF FirstCallRefused
<1>9. ASSUME NEW m \in Modifiers, Flip(m) PROVE OldReadersAwaited'
  BY <1>9 DEF Flip, Flipped
<1>10. ASSUME NEW m \in Modifiers, ScanBegin(m) PROVE OldReadersAwaited'
  BY <1>10 DEF ScanBegin, ToScan
<1>11. ASSUME NEW m \in Modifiers, NEW r \in Readers, WaitReadDone(m, r) PROVE OldReadersAwaited'
  BY <1>11 DEF WaitReadDone, MutexFree
<1>12. ASSUME NEW m \in Modifiers, ScanEnd(m) PROVE OldReadersAwaited'
  BY <1>12 DEF ScanEnd, ScanUnlocks
<1>13. ASSUME NEW m \in Modifiers, SecondCall(m) PROVE OldReadersAwaited'
  BY <1>13 DEF SecondCall, SecondChange
<1>14. CASE UNCHANGED vars
  BY <1>14 DEF vars
<1> QED
  BY <1>1, <1>2, <1>3, <1>4, <1>5, <1>6, <1>7, <1>8, <1>9, <1>10, <1>11, <1>12, <1>13, <1>14
  DEF Next, Read, Modifying

\* No step takes the instances apart in any other way than Modify intends.
LEMMA VersionsStep == IInv /\ [Next]_vars => Versions'
<1> SUFFICES ASSUME IInv, [Next]_vars PROVE Versions'
  OBVIOUS
<1> USE DoublyBufferedAssumption DEF IInv, TypeOK, Threads, Goto, Background,
      Mutexes, Versions
<1>1. ASSUME NEW r \in Readers, AddWrapper(r) PROVE Versions'
  BY <1>1 DEF AddWrapper
<1>2. ASSUME NEW r \in Readers, BeginRead(r) PROVE Versions'
  BY <1>2 DEF BeginRead
<1>3. ASSUME NEW r \in Readers, UnsafeRead(r) PROVE Versions'
  BY <1>3 DEF UnsafeRead
<1>4. ASSUME NEW r \in Readers, EndRead(r) PROVE Versions'
  BY <1>4 DEF EndRead
<1>5. ASSUME NEW r \in Readers, RemoveWrapper(r) PROVE Versions'
  BY <1>5 DEF RemoveWrapper
<1>6. ASSUME NEW m \in Modifiers, Modify(m) PROVE Versions'
  BY <1>6 DEF Modify
<1>7. ASSUME NEW m \in Modifiers, FirstCall(m) PROVE Versions'
  BY <1>7 DEF FirstCall
<1>8. ASSUME NEW m \in Modifiers, FirstCallRefused(m) PROVE Versions'
  BY <1>8 DEF FirstCallRefused
<1>9. ASSUME NEW m \in Modifiers, Flip(m) PROVE Versions'
  BY <1>9 DEF Flip, Flipped
<1>10. ASSUME NEW m \in Modifiers, ScanBegin(m) PROVE Versions'
  BY <1>10 DEF ScanBegin, ToScan
<1>11. ASSUME NEW m \in Modifiers, NEW r \in Readers, WaitReadDone(m, r) PROVE Versions'
  BY <1>11 DEF WaitReadDone, MutexFree
<1>12. ASSUME NEW m \in Modifiers, ScanEnd(m) PROVE Versions'
  BY <1>12 DEF ScanEnd, ScanUnlocks
<1>13. ASSUME NEW m \in Modifiers, SecondCall(m) PROVE Versions'
  BY <1>13 DEF SecondCall, SecondChange
<1>14. CASE UNCHANGED vars
  BY <1>14 DEF vars
<1> QED
  BY <1>1, <1>2, <1>3, <1>4, <1>5, <1>6, <1>7, <1>8, <1>9, <1>10, <1>11, <1>12, <1>13, <1>14
  DEF Next, Read, Modifying

\* The invariant holds in every behaviour.
THEOREM Invariant == Spec => []IInv
<1>1. IInv /\ [Next]_vars => IInv'
  BY TypeStep, PlacesStep, MutexesStep, OldReadersStep, VersionsStep DEF IInv
<1> QED
  BY InitIInv, <1>1, PTL DEF Spec

\* No reader's instance is changed while it holds a pointer to it.
THEOREM ReadersAreUndisturbed == Spec => []ReadersUndisturbed
<1>1. IInv => ReadersUndisturbed
  <2> SUFFICES ASSUME IInv, NEW r \in Readers, NEW m \in Modifiers,
                      pc[r] = "reading", Writing(m)
               PROVE  ptr[r] # Background
    BY DEF ReadersUndisturbed
  <2>1. mholder = m /\ pc[m] \in {"first", "second"}
    BY DEF IInv, Mutexes, Writing
  <2>2. ptr[r] = index
    BY <2>1 DEF IInv, OldReadersAwaited
  <2> QED
    BY <2>2 DEF IInv, TypeOK, Background
<1> QED
  BY Invariant, <1>1, PTL

\* The instances agree between modifications, and the foreground is current.
THEOREM InstancesDoAgree == Spec => []InstancesAgree
<1>1. IInv => InstancesAgree
  <2> SUFFICES ASSUME IInv PROVE InstancesAgree
    OBVIOUS
  <2>1. CASE mholder = None
    BY <2>1 DEF IInv, TypeOK, Versions, InstancesAgree
  <2>2. CASE mholder # None
    <3>1. mholder \in Modifiers /\ pc[mholder] # "idle"
      BY <2>2 DEF IInv, TypeOK, Mutexes
    <3>2. data[index] = changes \/ data[index] = changes + 1
      BY <3>1 DEF IInv, Places, Versions
    <3> QED
      BY <2>2, <3>2 DEF IInv, TypeOK, InstancesAgree
  <2> QED
    BY <2>1, <2>2
<1> QED
  BY Invariant, <1>1, PTL

-----------------------------------------------------------------------------
(* Sequences by their elements, and the numbers of the buckets of a ring.  *)

Elems(s) == {s[j] : j \in 1 .. Len(s)}
Distinct(s) == \A j, k \in 1 .. Len(s) : s[j] = s[k] => j = k

\* Append adds one element at the end, Tail takes away the first one.
LEMMA ElemsAppend ==
  ASSUME NEW S, NEW s \in Seq(S), NEW x \in S
  PROVE  /\ Append(s, x) \in Seq(S) /\ Len(Append(s, x)) = Len(s) + 1
         /\ Append(s, x)[Len(s) + 1] = x /\ \A j \in 1 .. Len(s) : Append(s, x)[j] = s[j]
         /\ Elems(Append(s, x)) = Elems(s) \cup {x}
         /\ Distinct(s) /\ x \notin Elems(s) => Distinct(Append(s, x))
<1>1. /\ Append(s, x) \in Seq(S) /\ Len(Append(s, x)) = Len(s) + 1 /\ Len(s) \in Nat
      /\ Append(s, x)[Len(s) + 1] = x /\ \A j \in 1 .. Len(s) : Append(s, x)[j] = s[j]
  OBVIOUS
<1>2. Elems(Append(s, x)) = Elems(s) \cup {x}
  BY <1>1 DEF Elems
<1>3. Distinct(s) /\ x \notin Elems(s) => Distinct(Append(s, x))
  BY <1>1 DEF Distinct, Elems
<1> QED BY <1>1, <1>2, <1>3

\* What taking the first element does to a sequence of distinct ones.
LEMMA ElemsTail ==
  ASSUME NEW S, NEW s \in Seq(S), s # <<>>
  PROVE  /\ Head(s) \in S /\ Head(s) = s[1] /\ 1 \in 1 .. Len(s)
         /\ Tail(s) \in Seq(S) /\ Len(Tail(s)) = Len(s) - 1
         /\ \A j \in 1 .. Len(s) - 1 : Tail(s)[j] = s[j + 1]
         /\ Distinct(s) => Distinct(Tail(s)) /\ Elems(Tail(s)) = Elems(s) \ {Head(s)}
<1>1. /\ Head(s) \in S /\ Head(s) = s[1] /\ Len(s) \in Nat /\ Len(s) >= 1
      /\ Tail(s) \in Seq(S) /\ Len(Tail(s)) = Len(s) - 1
  OBVIOUS
<1>2. \A j \in 1 .. Len(s) - 1 : Tail(s)[j] = s[j + 1]
  OBVIOUS
<1> DEFINE r == Tail(s)
<1> HIDE DEF r
<1>3. ASSUME Distinct(s) PROVE Distinct(r)
  <2> SUFFICES ASSUME NEW j \in 1 .. Len(r), NEW k \in 1 .. Len(r), r[j] = r[k] PROVE j = k
    BY DEF Distinct
  <2>1. /\ j + 1 \in 1 .. Len(s) /\ k + 1 \in 1 .. Len(s) /\ s[j + 1] = s[k + 1]
        /\ j \in Int /\ k \in Int
    BY <1>1, <1>2 DEF r
  <2>2. j + 1 = k + 1
    BY <1>3, <2>1 DEF Distinct
  <2> QED BY <2>1, <2>2
<1>4. ASSUME Distinct(s) PROVE Elems(r) = Elems(s) \ {s[1]}
  <2>1. ASSUME NEW e \in Elems(r) PROVE e \in Elems(s) \ {s[1]}
    <3>1. PICK j \in 1 .. Len(r) : e = r[j]
      BY DEF Elems
    <3>2. j + 1 \in 1 .. Len(s) /\ j + 1 # 1 /\ 1 \in 1 .. Len(s) /\ e = s[j + 1]
      BY <1>1, <1>2, <3>1 DEF r
    <3> QED BY <1>4, <3>2 DEF Elems, Distinct
  <2>2. ASSUME NEW e \in Elems(s) \ {s[1]} PROVE e \in Elems(r)
    <3>1. PICK j \in 1 .. Len(s) : e = s[j] /\ j # 1
      BY DEF Elems
    <3>2. j - 1 \in 1 .. Len(r) /\ r[j - 1] = s[(j - 1) + 1] /\ (j - 1) + 1 = j
      BY <1>1, <1>2, <3>1 DEF r
    <3> QED BY <3>1, <3>2 DEF Elems
  <2> QED BY <2>1, <2>2
<1> QED BY <1>1, <1>2, <1>3, <1>4 DEF r

\* A counter modulo n steps through the residues.
LEMMA Quotient ==
  ASSUME NEW n \in Nat \ {0}, NEW k \in Nat
  PROVE  \E q \in Nat, r \in 0 .. n - 1 : k = q * n + r /\ r = k % n
<1>1. k \div n \in Int /\ k % n \in 0 .. n - 1
  OBVIOUS
<1>2. k = (k \div n) * n + (k % n)
  BY <1>1
<1>3. ASSUME k \div n < 0 PROVE FALSE
  <2> DEFINE q == k \div n
             r == k % n
  <2>1. q \in Int /\ q < 0 /\ r < n /\ k = q * n + r /\ r \in Int
    BY <1>1, <1>2, <1>3
  <2> HIDE DEF q, r
  <2>2. q * n <= (-1) * n
    BY <2>1
  <2> QED BY <2>1, <2>2
<1>4. k \div n \in Nat
  BY <1>1, <1>3
<1> QED BY <1>1, <1>2, <1>4

\* The remainder of a quotient and a remainder is the remainder.
LEMMA Residue ==
  ASSUME NEW n \in Nat \ {0}, NEW q \in Nat, NEW r \in 0 .. n - 1
  PROVE  (q * n + r) % n = r
  OBVIOUS

\* Stepping a counter and taking the remainder may be done in either order.
LEMMA Residues ==
  ASSUME NEW n \in Nat \ {0}, NEW k \in Nat
  PROVE  k % n \in 0 .. n - 1 /\ ((k % n) + 1) % n = (k + 1) % n
<1>1. PICK q \in Nat, r \in 0 .. n - 1 : k = q * n + r /\ r = k % n
  BY Quotient
<1>2. CASE r + 1 < n
  <2>1. r + 1 \in 0 .. n - 1 /\ 0 * n + (r + 1) = r + 1 /\ k + 1 = q * n + (r + 1)
    BY <1>1, <1>2
  <2>2. (q * n + (r + 1)) % n = r + 1 /\ (0 * n + (r + 1)) % n = r + 1
    BY <2>1, Residue
  <2> QED BY <1>1, <2>1, <2>2
<1>3. CASE r + 1 = n
  <2>1. 0 \in 0 .. n - 1 /\ q + 1 \in Nat /\ 1 * n + 0 = r + 1 /\ k + 1 = (q + 1) * n + 0
    BY <1>1, <1>3
  <2>2. ((q + 1) * n + 0) % n = 0 /\ (1 * n + 0) % n = 0
    BY <2>1, Residue
  <2> QED BY <1>1, <2>1, <2>2
<1> QED BY <1>1, <1>2, <1>3

-----------------------------------------------------------------------------
(* QueueRing with any number of clients: a value that was claimed is with  *)
(* its producer, in one bucket or dequeued.                                *)

\* Where a client of QueueRing is.
RingPcs == {"idle", "enqueue", "dequeue", "wait", "woken", "spurious", "aborted"}
\* What the variables of QueueRing hold.
RingTypeOK ==
  /\ entries \in [Ring!Buckets -> Seq(RingValues)]
  /\ cur_write \in Ring!Buckets /\ cur_read \in Ring!Buckets
  /\ r_pc \in [Ring!RingClients -> RingPcs] /\ bucket \in [Ring!RingClients -> Ring!Buckets]
  /\ r_val \in [RingProducers -> RingValues \cup {0}]
  /\ claimed \in Seq(RingValues) /\ r_consumed \in Seq(RingValues)

\* The values in a bucket.
Held(b) == Elems(entries[b])
\* The producers that have claimed a place and have not yet put their value there.
Busy == {w \in RingProducers : r_pc[w] = "enqueue"}
\* No value is in two places: with a producer, in a bucket or dequeued.
RingPlaces ==
  /\ Distinct(r_consumed)
  /\ \A b \in Ring!Buckets :
       /\ Distinct(entries[b]) /\ Held(b) \cap Elems(r_consumed) = {}
       /\ \A a \in Ring!Buckets : a # b => Held(a) \cap Held(b) = {}
  /\ \A w \in Busy :
       /\ r_val[w] \in RingValues /\ r_val[w] \notin Elems(r_consumed)
       /\ \A b \in Ring!Buckets : r_val[w] \notin Held(b)
       /\ \A q \in Busy : r_val[q] = r_val[w] => q = w
\* The values claimed are those in these places.
RingClaimed ==
  \A v : v \in Elems(claimed) <=>
           \/ v \in Elems(r_consumed)
           \/ \E b \in Ring!Buckets : v \in Held(b)
           \/ \E w \in Busy : v = r_val[w]

\* The inductive invariant of QueueRing, for any number of clients.
RingInv == RingTypeOK /\ RingPlaces /\ RingClaimed

\* The buckets are numbered from 0, and no client produces and consumes.
LEMMA RingConstants ==
  /\ RingSize \in Nat \ {0} /\ Ring!Buckets = 0 .. RingSize - 1 /\ RingOne!Buckets = 0 .. RingSize - 1
  /\ Ring!RingClients = RingProducers \cup RingConsumers /\ RingProducers \cap RingConsumers = {}
  BY QueueSuiteAssumption
  DEF QueueSuiteAssumption, Ring!QueueRingAssumption, Ring!Buckets, RingOne!Buckets, Ring!RingClients

\* At first every bucket is empty and no value was claimed.
LEMMA RingBegins == Ring!Init => RingInv
<1> SUFFICES ASSUME Ring!Init PROVE RingInv
  OBVIOUS
<1>1. RingTypeOK
  BY RingConstants DEF RingTypeOK, Ring!Init, RingPcs
<1>2. Elems(claimed) = {} /\ Elems(r_consumed) = {} /\ \A b \in Ring!Buckets : Held(b) = {} /\ entries[b] = <<>>
  BY DEF Ring!Init, Elems, Held
<1>3. Busy = {}
  BY RingConstants DEF Ring!Init, Busy
<1>4. RingPlaces /\ RingClaimed
  BY <1>2, <1>3 DEF RingPlaces, RingClaimed, Distinct, Ring!Init
<1> QED BY <1>1, <1>4 DEF RingInv

\* A value enters the ring with a number of its own.
LEMMA RingClaims ==
  ASSUME RingInv, NEW w \in RingProducers, NEW v \in RingValues, Ring!ClaimWrite(w, v)
  PROVE  RingInv'
<1>0. RingTypeOK /\ RingPlaces /\ RingClaimed
  BY DEF RingInv
<1>1. /\ v \notin Elems(claimed) /\ r_pc[w] = "idle"
      /\ Elems(claimed') = Elems(claimed) \cup {v} /\ claimed' \in Seq(RingValues)
  <2>1. claimed \in Seq(RingValues) /\ DOMAIN claimed = 1 .. Len(claimed)
    BY <1>0 DEF RingTypeOK
  <2> QED BY <2>1, ElemsAppend DEF Ring!ClaimWrite, Ring!Range, Elems
<1>2. /\ r_pc' = [r_pc EXCEPT ![w] = "enqueue"] /\ r_val' = [r_val EXCEPT ![w] = v]
      /\ entries' = entries /\ r_consumed' = r_consumed
      /\ cur_write' = Ring!NextBucket(cur_write) /\ cur_read' = cur_read
      /\ bucket' = [bucket EXCEPT ![w] = Ring!NextBucket(cur_write)]
  BY DEF Ring!ClaimWrite
<1>3. Ring!NextBucket(cur_write) \in Ring!Buckets
  <2>1. cur_write \in Nat
    BY <1>0, RingConstants DEF RingTypeOK
  <2> QED BY <2>1, RingConstants, Residues DEF Ring!NextBucket
<1>4. RingTypeOK'
  BY <1>0, <1>1, <1>2, <1>3 DEF RingTypeOK, RingPcs
<1>5. /\ Busy' = Busy \cup {w} /\ w \notin Busy /\ r_val'[w] = v
      /\ \A q \in Busy : r_val'[q] = r_val[q]
  BY <1>0, <1>1, <1>2, RingConstants DEF RingTypeOK, Busy
<1>6. Elems(r_consumed') = Elems(r_consumed) /\ \A b \in Ring!Buckets : Held(b)' = Held(b)
  BY <1>2 DEF Held
<1>7. /\ v \notin Elems(r_consumed) /\ \A b \in Ring!Buckets : v \notin Held(b)
      /\ \A q \in Busy : r_val[q] # v
  BY <1>0, <1>1 DEF RingClaimed
<1>8. RingPlaces'
  BY <1>0, <1>2, <1>5, <1>6, <1>7 DEF RingPlaces
<1>9. RingClaimed'
  BY <1>0, <1>1, <1>5, <1>6 DEF RingClaimed
<1> QED BY <1>4, <1>8, <1>9 DEF RingInv

\* A signal wakes consumers only.
LEMMA RingSignals ==
  ASSUME RingTypeOK, NEW w \in RingProducers, Ring!Enqueue(w)
  PROVE  r_pc' \in [Ring!RingClients -> RingPcs] /\ Busy' = Busy \ {w} /\ w \in Busy
<1> DEFINE f == [r_pc EXCEPT ![w] = "idle"]
<1>1. /\ f \in [Ring!RingClients -> RingPcs] /\ r_pc[w] = "enqueue"
      /\ {q \in RingProducers : f[q] = "enqueue"} = Busy \ {w}
  BY RingConstants DEF RingTypeOK, RingPcs, Busy, Ring!Enqueue
<1>2. r_pc' \in Ring!SignalIfEmpty(f, bucket[w])
  BY DEF Ring!Enqueue
<1> HIDE DEF f
<1>3. r_pc' = f \/ \E c \in RingConsumers : r_pc' = [f EXCEPT ![c] = "woken"]
  BY <1>2 DEF Ring!SignalIfEmpty, Ring!Signal, Ring!Waiting
<1>4. CASE r_pc' = f
  BY <1>1, <1>4 DEF Busy
<1>5. CASE \E c \in RingConsumers : r_pc' = [f EXCEPT ![c] = "woken"]
  BY <1>1, <1>5, RingConstants DEF Busy, RingPcs
<1> QED BY <1>3, <1>4, <1>5

\* The value of a producer goes into its bucket.
LEMMA RingEnqueues ==
  ASSUME RingInv, NEW w \in RingProducers, Ring!Enqueue(w)
  PROVE  RingInv'
<1>0. RingTypeOK /\ RingPlaces /\ RingClaimed
  BY DEF RingInv
<1>1. r_pc' \in [Ring!RingClients -> RingPcs] /\ Busy' = Busy \ {w} /\ w \in Busy
  BY <1>0, RingSignals
<1> DEFINE b == bucket[w]
           x == r_val[w]
           e == Append(entries[b], x)
<1>2. /\ b \in Ring!Buckets /\ entries[b] \in Seq(RingValues) /\ x \in RingValues
      /\ x \notin Held(b) /\ Distinct(entries[b])
  BY <1>0, <1>1, RingConstants DEF RingTypeOK, RingPlaces
<1>3. e \in Seq(RingValues) /\ Elems(e) = Held(b) \cup {x} /\ Distinct(e)
  BY <1>2, ElemsAppend DEF Held
<1>4. /\ entries' = [entries EXCEPT ![b] = e]
      /\ r_val' = r_val /\ r_consumed' = r_consumed /\ claimed' = claimed
      /\ cur_write' = cur_write /\ cur_read' = cur_read /\ bucket' = bucket
  BY DEF Ring!Enqueue, Ring!PushBack
<1> HIDE DEF b, x, e
<1>5. RingTypeOK'
  BY <1>0, <1>1, <1>2, <1>3, <1>4 DEF RingTypeOK
<1>6. entries'[b] = e /\ \A a \in Ring!Buckets : a # b => entries'[a] = entries[a]
  BY <1>0, <1>2, <1>4 DEF RingTypeOK
<1>7. \A a \in Ring!Buckets : Held(a)' = IF a = b THEN Held(a) \cup {x} ELSE Held(a)
  BY <1>3, <1>6 DEF Held
<1>8. /\ x \notin Elems(r_consumed) /\ \A a \in Ring!Buckets : x \notin Held(a)
      /\ \A q \in Busy : q # w => r_val[q] # x
  BY <1>0, <1>1 DEF RingPlaces, x
<1>9. RingPlaces'
  <2>1. Distinct(r_consumed)'
    BY <1>0, <1>4 DEF RingPlaces
  <2>2. ASSUME NEW a \in Ring!Buckets
        PROVE  /\ Distinct(entries'[a]) /\ Held(a)' \cap Elems(r_consumed') = {}
               /\ \A d \in Ring!Buckets : d # a => Held(d)' \cap Held(a)' = {}
    BY <1>0, <1>3, <1>4, <1>6, <1>7, <1>8 DEF RingPlaces
  <2>3. ASSUME NEW q \in Busy'
        PROVE  /\ r_val'[q] \in RingValues /\ r_val'[q] \notin Elems(r_consumed')
               /\ \A a \in Ring!Buckets : r_val'[q] \notin Held(a)'
               /\ \A z \in Busy' : r_val'[z] = r_val'[q] => z = q
    BY <1>0, <1>1, <1>4, <1>7, <1>8 DEF RingPlaces
  <2> QED BY <2>1, <2>2, <2>3 DEF RingPlaces
<1>10. RingClaimed'
  <2> SUFFICES ASSUME NEW v
               PROVE  v \in Elems(claimed') <=>
                        \/ v \in Elems(r_consumed')
                        \/ \E a \in Ring!Buckets : v \in Held(a)'
                        \/ \E q \in Busy' : v = r_val'[q]
    BY DEF RingClaimed
  <2>1. v \in Elems(claimed) <=>
          \/ v \in Elems(r_consumed)
          \/ \E a \in Ring!Buckets : v \in Held(a)
          \/ \E q \in Busy : v = r_val[q]
    BY <1>0 DEF RingClaimed
  <2>2. (\E a \in Ring!Buckets : v \in Held(a)') <=> v = x \/ \E a \in Ring!Buckets : v \in Held(a)
    BY <1>2, <1>7
  <2>3. (\E q \in Busy : v = r_val[q]) <=> v = x \/ \E q \in Busy' : v = r_val'[q]
    BY <1>1, <1>4 DEF x
  <2> QED BY <1>4, <2>1, <2>2, <2>3
<1> QED BY <1>5, <1>9, <1>10 DEF RingInv

\* A consumer takes the first value of its bucket.
LEMMA RingDequeues ==
  ASSUME RingInv, NEW c \in RingConsumers, Ring!Dequeue(c)
  PROVE  RingInv'
<1>0. RingTypeOK /\ RingPlaces /\ RingClaimed
  BY DEF RingInv
<1> DEFINE b == bucket[c]
           x == Head(entries[b])
           e == Tail(entries[b])
<1>2. /\ b \in Ring!Buckets /\ entries[b] \in Seq(RingValues) /\ entries[b] # <<>> /\ Distinct(entries[b])
      /\ r_consumed \in Seq(RingValues) /\ Distinct(r_consumed)
  BY <1>0, RingConstants DEF RingTypeOK, RingPlaces, Ring!Dequeue
<1>3. e \in Seq(RingValues) /\ Elems(e) = Held(b) \ {x} /\ Distinct(e) /\ x \in RingValues /\ x \in Held(b)
  BY <1>2, ElemsTail DEF Held, Elems
<1>4. /\ entries' = [entries EXCEPT ![b] = e]
      /\ r_val' = r_val /\ r_consumed' = Append(r_consumed, x) /\ claimed' = claimed
      /\ cur_write' = cur_write /\ cur_read' = cur_read /\ bucket' = bucket
      /\ r_pc' = [r_pc EXCEPT ![c] = "idle"] /\ r_pc[c] # "enqueue"
  BY DEF Ring!Dequeue, Ring!PopFront
<1> HIDE DEF b, x, e
<1>5. x \notin Elems(r_consumed) /\ \A a \in Ring!Buckets : a # b => x \notin Held(a)
  BY <1>0, <1>2, <1>3 DEF RingPlaces
<1>6. /\ r_consumed' \in Seq(RingValues) /\ Elems(r_consumed') = Elems(r_consumed) \cup {x}
      /\ Distinct(r_consumed')
  BY <1>2, <1>3, <1>4, <1>5, ElemsAppend
<1>7. RingTypeOK'
  BY <1>0, <1>2, <1>3, <1>4, <1>6 DEF RingTypeOK, RingPcs
<1>8. entries'[b] = e /\ \A a \in Ring!Buckets : a # b => entries'[a] = entries[a]
  BY <1>0, <1>2, <1>4 DEF RingTypeOK
<1>9. \A a \in Ring!Buckets : Held(a)' = IF a = b THEN Held(a) \ {x} ELSE Held(a)
  BY <1>3, <1>8 DEF Held
<1>10. Busy' = Busy /\ \A w \in Busy : r_val[w] # x
  BY <1>0, <1>2, <1>3, <1>4, RingConstants DEF RingTypeOK, Busy, RingPlaces
<1>11. RingPlaces'
  <2>1. ASSUME NEW a \in Ring!Buckets
        PROVE  /\ Distinct(entries'[a]) /\ Held(a)' \cap Elems(r_consumed') = {}
               /\ \A d \in Ring!Buckets : d # a => Held(d)' \cap Held(a)' = {}
    BY <1>0, <1>3, <1>5, <1>6, <1>8, <1>9 DEF RingPlaces
  <2>2. ASSUME NEW q \in Busy'
        PROVE  /\ r_val'[q] \in RingValues /\ r_val'[q] \notin Elems(r_consumed')
               /\ \A a \in Ring!Buckets : r_val'[q] \notin Held(a)'
               /\ \A z \in Busy' : r_val'[z] = r_val'[q] => z = q
    BY <1>0, <1>4, <1>6, <1>9, <1>10 DEF RingPlaces
  <2> QED BY <1>6, <2>1, <2>2 DEF RingPlaces
<1>12. RingClaimed'
  <2> SUFFICES ASSUME NEW v
               PROVE  v \in Elems(claimed') <=>
                        \/ v \in Elems(r_consumed')
                        \/ \E a \in Ring!Buckets : v \in Held(a)'
                        \/ \E q \in Busy' : v = r_val'[q]
    BY DEF RingClaimed
  <2>1. v \in Elems(claimed) <=>
          \/ v \in Elems(r_consumed)
          \/ \E a \in Ring!Buckets : v \in Held(a)
          \/ \E q \in Busy : v = r_val[q]
    BY <1>0 DEF RingClaimed
  <2>2. (\E a \in Ring!Buckets : v \in Held(a)) <=> v = x \/ \E a \in Ring!Buckets : v \in Held(a)'
    BY <1>2, <1>3, <1>9
  <2> QED BY <1>4, <1>6, <1>10, <2>1, <2>2
<1> QED BY <1>7, <1>11, <1>12 DEF RingInv

\* The other steps of a consumer leave the values where they are.
LEMMA RingOthers ==
  ASSUME RingInv, NEW c \in RingConsumers,
         Ring!ClaimRead(c) \/ Ring!DequeueWait(c) \/ Ring!DequeueAssert(c) \/ Ring!SpuriousWakeup(c)
  PROVE  RingInv'
<1>0. RingTypeOK /\ RingPlaces /\ RingClaimed
  BY DEF RingInv
<1>1. /\ entries' = entries /\ r_val' = r_val /\ r_consumed' = r_consumed /\ claimed' = claimed
      /\ cur_write' = cur_write
      /\ \E l \in RingPcs \ {"enqueue"} : r_pc' = [r_pc EXCEPT ![c] = l]
      /\ r_pc[c] # "enqueue"
  BY DEF RingPcs, Ring!ClaimRead, Ring!DequeueWait, Ring!DequeueAssert, Ring!SpuriousWakeup
<1>2. cur_read' \in Ring!Buckets /\ bucket' \in [Ring!RingClients -> Ring!Buckets]
  <2>1. cur_read \in Nat
    BY <1>0, RingConstants DEF RingTypeOK
  <2>2. (cur_read + 1) % RingSize \in Ring!Buckets
    BY <2>1, RingConstants, Residues
  <2> QED BY <1>0, <2>2
    DEF RingTypeOK, Ring!ClaimRead, Ring!DequeueWait, Ring!DequeueAssert, Ring!SpuriousWakeup
<1>3. RingTypeOK'
  BY <1>0, <1>1, <1>2 DEF RingTypeOK
<1>4. Busy' = Busy
  BY <1>0, <1>1, RingConstants DEF RingTypeOK, Busy
<1>5. \A b \in Ring!Buckets : Held(b)' = Held(b)
  BY <1>1 DEF Held
<1>6. RingPlaces' /\ RingClaimed'
  BY <1>0, <1>1, <1>4, <1>5 DEF RingPlaces, RingClaimed
<1> QED BY <1>3, <1>6 DEF RingInv

\* Every step of QueueRing preserves its invariant.
LEMMA RingInductive == RingInv /\ [Ring!Next]_ringVars => RingInv'
<1> SUFFICES ASSUME RingInv, [Ring!Next]_ringVars PROVE RingInv'
  OBVIOUS
<1>1. CASE UNCHANGED ringVars
  BY <1>1 DEF ringVars, RingInv, RingTypeOK, RingPlaces, RingClaimed, Held, Busy
<1>2. CASE Ring!Next
  BY <1>2, RingClaims, RingEnqueues, RingDequeues, RingOthers DEF Ring!Next, Ring!Consumer
<1> QED BY <1>1, <1>2

\* Every value claimed is with its producer, in one bucket or dequeued, and dequeued once.
LEMMA RingMeaning == RingInv => Ring!NothingLost
<1> SUFFICES ASSUME RingInv PROVE Ring!NothingLost
  OBVIOUS
<1>1. ASSUME NEW S, NEW s \in Seq(S) PROVE Ring!Range(s) = Elems(s) /\ DOMAIN s = 1 .. Len(s)
  <2>1. DOMAIN s = 1 .. Len(s)
    OBVIOUS
  <2> QED BY <2>1 DEF Ring!Range, Elems
<1>2. /\ claimed \in Seq(RingValues) /\ r_consumed \in Seq(RingValues)
      /\ \A b \in Ring!Buckets : entries[b] \in Seq(RingValues)
  BY DEF RingInv, RingTypeOK
<1>3. /\ Ring!Range(claimed) = Elems(claimed) /\ Ring!Range(r_consumed) = Elems(r_consumed)
      /\ \A b \in Ring!Buckets : Ring!Range(entries[b]) = Held(b)
  BY <1>1, <1>2 DEF Held
<1>4. Ring!IsInjective(r_consumed)
  <2>1. DOMAIN r_consumed = 1 .. Len(r_consumed)
    BY <1>1, <1>2
  <2> QED BY <2>1 DEF RingInv, RingPlaces, Ring!IsInjective, Distinct
<1>5. UNION {Ring!Range(entries[b]) : b \in Ring!Buckets} = UNION {Held(b) : b \in Ring!Buckets}
  BY <1>3
<1> DEFINE U == UNION {Held(b) : b \in Ring!Buckets}
           P == {r_val[q] : q \in Busy}
<1>6. \A v : (v \in U <=> \E b \in Ring!Buckets : v \in Held(b)) /\ (v \in P <=> \E q \in Busy : v = r_val[q])
  OBVIOUS
<1> HIDE DEF U, P
<1>7. Elems(claimed) = Elems(r_consumed) \cup U \cup P
  BY <1>6 DEF RingInv, RingClaimed
<1>8. P = {r_val[q] : q \in {z \in RingProducers : r_pc[z] = "enqueue"}}
  BY DEF P, Busy
<1>9. U = UNION {Ring!Range(entries[b]) : b \in Ring!Buckets}
  BY <1>5 DEF U
<1> QED BY <1>3, <1>4, <1>7, <1>8, <1>9 DEF Ring!NothingLost
-----------------------------------------------------------------------------
(* QueueRing with one producer and one consumer.  The k-th value belongs   *)
(* to bucket k modulo the size: a bucket holds those of its values that    *)
(* were enqueued and not yet dequeued, in the order of their numbers.      *)

\* The bucket of the k-th claim, of a producer or of a consumer.
Home(k) == k % RingSize

\* q is what bucket b holds of the values numbered c + 1 to f of s.
Chain(q, s, c, f, b) ==
  /\ \A j \in 1 .. Len(q) : \E k \in c + 1 .. f : Home(k) = b /\ q[j] = s[k]
  /\ \A k \in c + 1 .. f : Home(k) = b => \E j \in 1 .. Len(q) : q[j] = s[k]
  /\ \A i, j \in 1 .. Len(q) : \A k, l \in c + 1 .. f :
       i < j /\ Home(k) = b /\ Home(l) = b /\ q[i] = s[k] /\ q[j] = s[l] => k < l

\* The next value goes to the end of its bucket.
LEMMA ChainPush ==
  ASSUME NEW V, NEW s \in Seq(V), Distinct(s), NEW q \in Seq(V), NEW b,
         NEW c \in Nat, NEW f \in Nat, f + 1 <= Len(s), Home(f + 1) = b, Chain(q, s, c, f, b), c <= f
  PROVE  Chain(Append(q, s[f + 1]), s, c, f + 1, b)
<1> DEFINE x == s[f + 1]
           r == Append(q, x)
           n == Len(q)
<1>1. x \in V /\ f + 1 \in 1 .. Len(s) /\ Len(s) \in Nat
  OBVIOUS
<1>2. /\ Len(r) = n + 1 /\ r[n + 1] = x /\ \A j \in 1 .. n : r[j] = q[j]
      /\ n \in Nat
  BY <1>1
<1> HIDE DEF x, r, n
<1>3. \A k \in 1 .. f : s[k] # x
  BY <1>1 DEF Distinct, x
<1>4. \A j \in 1 .. Len(r) : j \in 1 .. n \/ j = n + 1
  BY <1>2
<1>5. \A k \in c + 1 .. f + 1 : (k \in c + 1 .. f /\ k \in 1 .. f) \/ k = f + 1
  OBVIOUS
<1>a. /\ f + 1 \in c + 1 .. f + 1 /\ Home(f + 1) = b /\ x = s[f + 1]
      /\ \A k \in c + 1 .. f : k \in c + 1 .. f + 1 /\ k \in 1 .. f
  BY DEF x
<1>6. ASSUME NEW j \in 1 .. Len(r) PROVE \E k \in c + 1 .. f + 1 : Home(k) = b /\ r[j] = s[k]
  <2>1. CASE j = n + 1
    BY <1>2, <1>a, <2>1
  <2>2. CASE j \in 1 .. n
    <3>1. PICK k \in c + 1 .. f : Home(k) = b /\ q[j] = s[k]
      BY <2>2 DEF Chain, n
    <3> QED BY <1>2, <1>a, <2>2, <3>1
  <2> QED BY <1>4, <2>1, <2>2
<1>7. ASSUME NEW k \in c + 1 .. f + 1, Home(k) = b PROVE \E j \in 1 .. Len(r) : r[j] = s[k]
  <2>1. CASE k = f + 1
    <3>1. n + 1 \in 1 .. Len(r)
      BY <1>2
    <3> QED BY <1>2, <1>a, <2>1, <3>1
  <2>2. CASE k \in c + 1 .. f
    <3>1. PICK j \in 1 .. n : q[j] = s[k]
      BY <1>7, <2>2 DEF Chain, n
    <3>2. j \in 1 .. Len(r)
      BY <1>2
    <3> QED BY <1>2, <3>1, <3>2
  <2> QED BY <1>5, <2>1, <2>2
<1>8. ASSUME NEW i \in 1 .. Len(r), NEW j \in 1 .. Len(r), NEW k \in c + 1 .. f + 1, NEW l \in c + 1 .. f + 1,
             i < j, Home(k) = b, Home(l) = b, r[i] = s[k], r[j] = s[l]
      PROVE  k < l
  <2>1. i \in 1 .. n /\ r[i] = q[i]
    BY <1>2, <1>8
  <2>2. k \in c + 1 .. f
    <3>1. PICK h \in c + 1 .. f : q[i] = s[h]
      BY <2>1 DEF Chain, n
    <3>2. k # f + 1
      BY <1>3, <1>8, <1>a, <2>1, <3>1
    <3> QED BY <1>5, <3>2
  <2>3. CASE j = n + 1
    BY <1>2, <1>3, <1>5, <1>8, <2>2, <2>3
  <2>4. CASE j \in 1 .. n
    <3>1. PICK h \in c + 1 .. f : q[j] = s[h]
      BY <2>4 DEF Chain, n
    <3>2. l # f + 1
      BY <1>2, <1>3, <1>8, <1>a, <2>4, <3>1
    <3>3. l \in c + 1 .. f
      BY <1>5, <3>2
    <3>4. q[i] = s[k] /\ q[j] = s[l]
      BY <1>2, <1>8, <2>1, <2>4
    <3> QED BY <1>8, <2>1, <2>2, <2>4, <3>3, <3>4 DEF Chain, n
  <2> QED BY <1>4, <2>3, <2>4
<1>9. Chain(r, s, c, f + 1, b)
  BY <1>6, <1>7, <1>8 DEF Chain
<1> QED BY <1>9 DEF r, x

\* The other buckets do not change with it, nor when a value is claimed.
LEMMA ChainOther ==
  ASSUME NEW q, NEW s, NEW b, NEW c \in Nat, NEW f \in Nat, Chain(q, s, c, f, b), c <= f
  PROVE  /\ Home(f + 1) # b => Chain(q, s, c, f + 1, b)
         /\ Home(c + 1) # b => Chain(q, s, c + 1, f, b)
         /\ \A t : (\A k \in 1 .. f : t[k] = s[k]) => Chain(q, t, c, f, b)
<1> DEFINE n == Len(q)
<1>0. /\ \A j \in 1 .. n : \E k \in c + 1 .. f : Home(k) = b /\ q[j] = s[k]
      /\ \A k \in c + 1 .. f : Home(k) = b => \E j \in 1 .. n : q[j] = s[k]
      /\ \A i, j \in 1 .. n : \A k, l \in c + 1 .. f :
           i < j /\ Home(k) = b /\ Home(l) = b /\ q[i] = s[k] /\ q[j] = s[l] => k < l
  BY DEF Chain
<1> HIDE DEF n
<1>1. ASSUME Home(f + 1) # b PROVE Chain(q, s, c, f + 1, b)
  <2>1. \A k \in c + 1 .. f + 1 : Home(k) = b => k \in c + 1 .. f
    BY <1>1
  <2>2. \A k \in c + 1 .. f : k \in c + 1 .. f + 1
    OBVIOUS
  <2> QED BY <1>0, <2>1, <2>2 DEF Chain, n
<1>2. ASSUME Home(c + 1) # b PROVE Chain(q, s, c + 1, f, b)
  <2>1. \A k \in c + 1 .. f : Home(k) = b => k \in (c + 1) + 1 .. f
    BY <1>2
  <2>2. \A k \in (c + 1) + 1 .. f : k \in c + 1 .. f
    OBVIOUS
  <2> QED BY <1>0, <2>1, <2>2 DEF Chain, n
<1>3. ASSUME NEW t, \A k \in 1 .. f : t[k] = s[k] PROVE Chain(q, t, c, f, b)
  <2>1. \A k \in c + 1 .. f : t[k] = s[k]
    BY <1>3
  <2>2. \A j \in 1 .. n : \E k \in c + 1 .. f : Home(k) = b /\ q[j] = t[k]
    BY <1>0, <2>1
  <2>3. \A k \in c + 1 .. f : Home(k) = b => \E j \in 1 .. n : q[j] = t[k]
    BY <1>0, <2>1
  <2>4. \A i, j \in 1 .. n : \A k, l \in c + 1 .. f :
           i < j /\ Home(k) = b /\ Home(l) = b /\ q[i] = t[k] /\ q[j] = t[l] => k < l
    BY <1>0, <2>1
  <2> QED BY <2>2, <2>3, <2>4 DEF Chain, n
<1> QED BY <1>1, <1>2, <1>3

\* The first value of a bucket is the one with the least number, and what
\* follows are the others.
LEMMA ChainPop ==
  ASSUME NEW V, NEW s \in Seq(V), Distinct(s), NEW q \in Seq(V), q # <<>>, NEW b,
         NEW c \in Nat, NEW f \in Nat, f <= Len(s), Home(c + 1) = b, Chain(q, s, c, f, b)
  PROVE  c + 1 <= f /\ Head(q) = s[c + 1] /\ Chain(Tail(q), s, c + 1, f, b)
<1> DEFINE n == Len(q)
           r == Tail(q)
<1>0. /\ \A j \in 1 .. n : \E k \in c + 1 .. f : Home(k) = b /\ q[j] = s[k]
      /\ \A k \in c + 1 .. f : Home(k) = b => \E j \in 1 .. n : q[j] = s[k]
  BY DEF Chain
<1>o. ASSUME NEW i \in 1 .. n, NEW j \in 1 .. n, NEW k \in c + 1 .. f, NEW l \in c + 1 .. f,
             i < j, Home(k) = b, Home(l) = b, q[i] = s[k], q[j] = s[l]
      PROVE  k < l
  BY <1>o DEF Chain
<1>1. /\ Head(q) = q[1] /\ 1 \in 1 .. n /\ n \in Nat /\ Len(r) = n - 1
      /\ \A j \in 1 .. n - 1 : r[j] = q[j + 1]
  BY ElemsTail
<1>d. \A j, k \in c + 1 .. f : s[j] = s[k] => j = k
  BY DEF Distinct
<1> HIDE DEF n, r
<1>2. c + 1 \in c + 1 .. f
  BY <1>0, <1>1
<1>3. q[1] = s[c + 1]
  <2>1. PICK k \in c + 1 .. f : Home(k) = b /\ q[1] = s[k]
    BY <1>0, <1>1
  <2>2. PICK j \in 1 .. n : q[j] = s[c + 1]
    BY <1>0, <1>2
  <2>3. CASE 1 < j
    <3>1. k < c + 1
      BY <1>1, <1>2, <1>o, <2>1, <2>2, <2>3
    <3> QED BY <3>1
  <2>4. CASE j = 1
    BY <2>2, <2>4
  <2> QED BY <2>3, <2>4
<1>4. \A j \in 1 .. Len(r) : j + 1 \in 1 .. n /\ 1 < j + 1 /\ r[j] = q[j + 1]
  BY <1>1
<1>5. ASSUME NEW j \in 1 .. Len(r) PROVE \E k \in (c + 1) + 1 .. f : Home(k) = b /\ r[j] = s[k]
  <2>1. PICK k \in c + 1 .. f : Home(k) = b /\ q[j + 1] = s[k]
    BY <1>0, <1>4
  <2>2. c + 1 < k
    BY <1>1, <1>2, <1>3, <1>4, <1>o, <2>1
  <2>3. k \in (c + 1) + 1 .. f
    BY <2>2
  <2> QED BY <1>4, <2>1, <2>3
<1>6. \A k \in (c + 1) + 1 .. f : k \in c + 1 .. f /\ k # c + 1
  OBVIOUS
<1>7. ASSUME NEW k \in (c + 1) + 1 .. f, Home(k) = b PROVE \E j \in 1 .. Len(r) : r[j] = s[k]
  <2>1. PICK j \in 1 .. n : q[j] = s[k]
    BY <1>0, <1>6, <1>7
  <2>2. j # 1
    BY <1>2, <1>3, <1>6, <1>d, <2>1
  <2>3. j - 1 \in 1 .. Len(r) /\ (j - 1) + 1 = j
    BY <1>1, <2>2
  <2> QED BY <1>4, <2>1, <2>3
<1>8. ASSUME NEW i \in 1 .. Len(r), NEW j \in 1 .. Len(r),
             NEW k \in (c + 1) + 1 .. f, NEW l \in (c + 1) + 1 .. f,
             i < j, Home(k) = b, Home(l) = b, r[i] = s[k], r[j] = s[l]
      PROVE  k < l
  <2>1. i + 1 < j + 1 /\ i + 1 \in 1 .. n /\ j + 1 \in 1 .. n /\ q[i + 1] = s[k] /\ q[j + 1] = s[l]
    BY <1>4, <1>8
  <2> QED BY <1>6, <1>8, <1>o, <2>1
<1>9. Chain(r, s, c + 1, f, b)
  BY <1>5, <1>7, <1>8 DEF Chain
<1> QED BY <1>1, <1>2, <1>3, <1>9 DEF r

\* How many values of the one producer have reached their buckets.
Filled == IF r_pc[OneProducer] = "enqueue" THEN Len(claimed) - 1 ELSE Len(claimed)
\* What the variables of QueueRing hold with one producer and one consumer.
OneTypeOK ==
  /\ entries \in [RingOne!Buckets -> Seq(OneValues)]
  /\ r_pc \in [{OneProducer, OneConsumer} -> RingPcs]
  /\ r_pc[OneProducer] \in {"idle", "enqueue"} /\ r_pc[OneConsumer] \in RingPcs \ {"enqueue"}
  /\ bucket \in [{OneProducer, OneConsumer} -> RingOne!Buckets]
  /\ r_val \in [{OneProducer} -> OneValues \cup {0}]
  /\ claimed \in Seq(OneValues) /\ r_consumed \in Seq(OneValues)

\* The counters, and the bucket and the value in a client's hands.
OneCounters ==
  /\ cur_write = Home(Len(claimed))
  /\ cur_read = Home(IF r_pc[OneConsumer] = "idle" THEN Len(r_consumed) ELSE Len(r_consumed) + 1)
  /\ r_pc[OneProducer] = "enqueue" => /\ Len(claimed) >= 1 /\ r_val[OneProducer] = claimed[Len(claimed)]
                              /\ bucket[OneProducer] = Home(Len(claimed))
  /\ r_pc[OneConsumer] # "idle" => bucket[OneConsumer] = Home(Len(r_consumed) + 1)

\* Values were consumed in the order of their claims, and the buckets hold the rest in that order.
OneOrder ==
  /\ Distinct(claimed) /\ Len(r_consumed) <= Filled
  /\ \A i \in 1 .. Len(r_consumed) : r_consumed[i] = claimed[i]
  /\ \A b \in RingOne!Buckets : Chain(entries[b], claimed, Len(r_consumed), Filled, b)

\* The consumer sleeps on an empty bucket and is woken to a value, unless it
\* wakes up spuriously.
OneAwake ==
  /\ r_pc[OneConsumer] = "wait" => entries[bucket[OneConsumer]] = <<>>
  /\ r_pc[OneConsumer] = "woken" => entries[bucket[OneConsumer]] # <<>>

\* The inductive invariant of QueueRing with one producer and one consumer.
OneInv == OneTypeOK /\ OneCounters /\ OneOrder /\ OneAwake

\* The producer is not the consumer.
LEMMA OneClients ==
  OneProducer # OneConsumer /\ RingOne!RingClients = {OneProducer, OneConsumer}
  BY QueueSuiteAssumption DEF QueueSuiteAssumption, RingOne!QueueRingAssumption, RingOne!RingClients

\* The next claim goes to the next bucket.
LEMMA HomeFacts ==
  ASSUME NEW k \in Nat
  PROVE  Home(k) \in RingOne!Buckets /\ (Home(k) + 1) % RingSize = Home(k + 1)
  BY RingConstants, Residues DEF Home

\* At first nothing was claimed, filled or consumed.
LEMMA OneBegins == RingOne!Init => OneInv
<1> SUFFICES ASSUME RingOne!Init PROVE OneInv
  OBVIOUS
<1>1. /\ Len(claimed) = 0 /\ Len(r_consumed) = 0 /\ claimed = <<>> /\ r_consumed = <<>>
      /\ r_pc[OneProducer] = "idle" /\ r_pc[OneConsumer] = "idle" /\ Filled = 0
      /\ \A b \in RingOne!Buckets : entries[b] = <<>>
  BY OneClients DEF RingOne!Init, Filled
<1>2. OneTypeOK
  BY <1>1, RingConstants, OneClients DEF OneTypeOK, RingOne!Init, RingPcs
<1>3. OneCounters
  <2>1. Home(0) = 0
    BY RingConstants DEF Home
  <2> QED BY <1>1, <2>1 DEF OneCounters, RingOne!Init
<1>4. \A b : Chain(<<>>, <<>>, 0, 0, b)
  BY DEF Chain
<1>5. OneOrder
  BY <1>1, <1>4 DEF OneOrder, Distinct
<1>6. OneAwake
  BY <1>1 DEF OneAwake, RingOne!Init
<1> QED BY <1>2, <1>3, <1>5, <1>6 DEF OneInv

\* What the steps use of the invariant: consumed, filled and claimed come in this order.
LEMMA OneFacts ==
  ASSUME OneInv
  PROVE  /\ OneTypeOK /\ OneCounters /\ OneOrder /\ OneAwake
         /\ Len(claimed) \in Nat /\ Len(r_consumed) \in Nat /\ Filled \in Nat
         /\ claimed \in Seq(OneValues) /\ r_consumed \in Seq(OneValues) /\ Distinct(claimed)
         /\ Len(r_consumed) <= Filled /\ Filled <= Len(claimed)
<1>1. OneTypeOK /\ OneCounters /\ OneOrder /\ OneAwake
  BY DEF OneInv
<1>2. Len(claimed) \in Nat /\ Len(r_consumed) \in Nat
  BY <1>1 DEF OneTypeOK
<1> QED BY <1>1, <1>2 DEF OneTypeOK, OneCounters, OneOrder, Filled

\* The producer takes the next number.
LEMMA OneClaims ==
  ASSUME OneInv, NEW v \in OneValues, RingOne!ClaimWrite(OneProducer, v)
  PROVE  OneInv'
<1> USE OneClients
<1>0. /\ OneTypeOK /\ OneCounters /\ OneOrder /\ OneAwake
      /\ Len(claimed) \in Nat /\ claimed \in Seq(OneValues) /\ Distinct(claimed)
      /\ Len(r_consumed) \in Nat /\ Filled \in Nat /\ Len(r_consumed) <= Filled
  BY OneFacts
<1>1. /\ r_pc[OneProducer] = "idle" /\ claimed' = Append(claimed, v) /\ v \notin Elems(claimed)
      /\ r_pc' = [r_pc EXCEPT ![OneProducer] = "enqueue"] /\ r_val' = [r_val EXCEPT ![OneProducer] = v]
      /\ entries' = entries /\ r_consumed' = r_consumed /\ cur_read' = cur_read /\ asserted' = asserted
      /\ cur_write' = (cur_write + 1) % RingSize
      /\ bucket' = [bucket EXCEPT ![OneProducer] = (cur_write + 1) % RingSize]
  <2>1. DOMAIN claimed = 1 .. Len(claimed)
    BY <1>0
  <2> QED BY <2>1 DEF RingOne!ClaimWrite, RingOne!NextBucket, RingOne!Range, Elems
<1>2. /\ claimed' \in Seq(OneValues) /\ Len(claimed') = Len(claimed) + 1 /\ Distinct(claimed')
      /\ claimed'[Len(claimed) + 1] = v /\ \A j \in 1 .. Len(claimed) : claimed'[j] = claimed[j]
  BY <1>0, <1>1, ElemsAppend
<1>3. (cur_write + 1) % RingSize = Home(Len(claimed')) /\ Home(Len(claimed')) \in RingOne!Buckets
  BY <1>0, <1>2, HomeFacts DEF OneCounters
<1>4. OneTypeOK'
  BY <1>0, <1>1, <1>2, <1>3 DEF OneTypeOK, RingPcs
<1>5. /\ r_pc'[OneProducer] = "enqueue" /\ r_pc'[OneConsumer] = r_pc[OneConsumer] /\ r_val'[OneProducer] = v
      /\ bucket'[OneProducer] = Home(Len(claimed')) /\ bucket'[OneConsumer] = bucket[OneConsumer]
  BY <1>0, <1>1, <1>3 DEF OneTypeOK
<1>6. Filled' = Filled /\ Filled = Len(claimed)
  BY <1>0, <1>1, <1>2, <1>5 DEF Filled
<1>7. OneCounters'
  BY <1>0, <1>1, <1>2, <1>3, <1>5 DEF OneCounters
<1>8. OneOrder'
  <2>1. ASSUME NEW b \in RingOne!Buckets PROVE Chain(entries[b], claimed', Len(r_consumed), Filled, b)
    <3>1. Chain(entries[b], claimed, Len(r_consumed), Filled, b)
      BY <1>0 DEF OneOrder
    <3> QED BY <1>0, <1>2, <1>6, <3>1, ChainOther
  <2>2. \A i \in 1 .. Len(r_consumed) : r_consumed[i] = claimed'[i]
    BY <1>0, <1>2, <1>6 DEF OneOrder
  <2> QED BY <1>0, <1>1, <1>2, <1>6, <2>1, <2>2 DEF OneOrder
<1>9. OneAwake'
  BY <1>0, <1>1, <1>5 DEF OneAwake
<1> QED BY <1>4, <1>7, <1>8, <1>9 DEF OneInv

\* The value goes to the end of the bucket of its number, and wakes the
\* consumer that sleeps on the bucket.
LEMMA OneEnqueues ==
  ASSUME OneInv, RingOne!Enqueue(OneProducer)
  PROVE  OneInv'
<1> USE OneClients
<1>0. /\ OneTypeOK /\ OneCounters /\ OneOrder /\ OneAwake
      /\ Len(claimed) \in Nat /\ claimed \in Seq(OneValues) /\ Distinct(claimed)
      /\ Len(r_consumed) \in Nat /\ Filled \in Nat /\ Len(r_consumed) <= Filled
  BY OneFacts
<1>1. r_pc[OneProducer] = "enqueue" /\ bucket[OneProducer] \in RingOne!Buckets /\ r_val[OneProducer] = claimed[Len(claimed)]
      /\ Home(Len(claimed)) = bucket[OneProducer] /\ Filled + 1 = Len(claimed)
  BY <1>0 DEF RingOne!Enqueue, OneTypeOK, OneCounters, Filled
<1> DEFINE a == bucket[OneProducer]
           x == claimed[Filled + 1]
           e == Append(entries[a], x)
           f == [r_pc EXCEPT ![OneProducer] = "idle"]
<1>2. /\ entries' = [entries EXCEPT ![a] = e] /\ r_pc' \in RingOne!SignalIfEmpty(f, a)
      /\ r_val' = r_val /\ r_consumed' = r_consumed /\ claimed' = claimed
      /\ cur_write' = cur_write /\ cur_read' = cur_read /\ bucket' = bucket /\ asserted' = asserted
  BY <1>1 DEF RingOne!Enqueue, RingOne!PushBack
<1>3. x \in OneValues /\ entries[a] \in Seq(OneValues) /\ e \in Seq(OneValues) /\ e # <<>> /\ a \in RingOne!Buckets
  <2>1. x \in OneValues /\ entries[a] \in Seq(OneValues) /\ a \in RingOne!Buckets
    BY <1>0, <1>1 DEF OneTypeOK
  <2> HIDE DEF x, a
  <2> QED BY <2>1
<1>4. /\ f \in [{OneProducer, OneConsumer} -> RingPcs] /\ f[OneProducer] = "idle" /\ f[OneConsumer] = r_pc[OneConsumer]
  BY <1>0 DEF OneTypeOK, RingPcs
<1> HIDE DEF e, f
<1>5. /\ r_pc' \in [{OneProducer, OneConsumer} -> RingPcs] /\ r_pc'[OneProducer] = "idle"
      /\ \/ r_pc'[OneConsumer] = r_pc[OneConsumer] /\ ~(r_pc[OneConsumer] = "wait" /\ bucket[OneConsumer] = a /\ entries[a] = <<>>)
         \/ r_pc[OneConsumer] = "wait" /\ bucket[OneConsumer] = a /\ r_pc'[OneConsumer] = "woken"
  <2>1. r_pc' = f \/ (r_pc' = [f EXCEPT ![OneConsumer] = "woken"] /\ f[OneConsumer] = "wait" /\ bucket[OneConsumer] = a)
    <3>1. r_pc' = f \/ \E c \in RingOne!Waiting(f, a) : r_pc' = [f EXCEPT ![c] = "woken"]
      BY <1>2 DEF RingOne!SignalIfEmpty, RingOne!Signal
    <3>2. \A c \in RingOne!Waiting(f, a) : c = OneConsumer /\ f[c] = "wait" /\ bucket[c] = a
      BY DEF RingOne!Waiting
    <3>3. ASSUME NEW c \in RingOne!Waiting(f, a), r_pc' = [f EXCEPT ![c] = "woken"]
          PROVE  r_pc' = [f EXCEPT ![OneConsumer] = "woken"] /\ f[OneConsumer] = "wait" /\ bucket[OneConsumer] = a
      <4>1. c = OneConsumer
        BY <3>2
      <4>2. f[OneConsumer] = "wait" /\ bucket[OneConsumer] = a
        BY <3>2, <4>1, Zenon
      <4>3. [f EXCEPT ![c] = "woken"] = [f EXCEPT ![OneConsumer] = "woken"]
        BY <4>1, Zenon
      <4> QED BY <3>3, <4>2, <4>3, Zenon
    <3> QED BY <3>1, <3>3
  <2>2. r_pc' = f => ~(f[OneConsumer] = "wait" /\ bucket[OneConsumer] = a /\ entries[a] = <<>>)
    <3> SUFFICES ASSUME r_pc' = f, f[OneConsumer] = "wait", bucket[OneConsumer] = a, entries[a] = <<>> PROVE FALSE
      OBVIOUS
    <3>1. RingOne!Waiting(f, a) = {OneConsumer}
      BY DEF RingOne!Waiting
    <3>2. r_pc' = [f EXCEPT ![OneConsumer] = "woken"]
      BY <1>2, <3>1 DEF RingOne!SignalIfEmpty, RingOne!Signal
    <3> QED BY <1>4, <3>2
  <2> QED BY <1>4, <2>1, <2>2 DEF RingPcs
<1>6. entries'[a] = e /\ \A b \in RingOne!Buckets : b # a => entries'[b] = entries[b]
  BY <1>0, <1>2, <1>3 DEF OneTypeOK
<1>7. OneTypeOK'
  BY <1>0, <1>2, <1>3, <1>5 DEF OneTypeOK
<1>8. Filled' = Filled + 1
  BY <1>1, <1>2, <1>5 DEF Filled
<1>9. OneCounters'
  BY <1>0, <1>2, <1>5 DEF OneCounters
<1>10. OneOrder'
  <2>1. ASSUME NEW b \in RingOne!Buckets
        PROVE  Chain(entries'[b], claimed, Len(r_consumed), Filled + 1, b)
    <3>1. Chain(entries[b], claimed, Len(r_consumed), Filled, b)
      BY <1>0 DEF OneOrder
    <3>2. CASE b = a
      <4>1. Home(Filled + 1) = b /\ Filled + 1 <= Len(claimed) /\ entries[b] \in Seq(OneValues)
        BY <1>0, <1>1, <1>3, <3>2
      <4>2. Chain(Append(entries[b], claimed[Filled + 1]), claimed, Len(r_consumed), Filled + 1, b)
        BY <1>0, <3>1, <4>1, ChainPush
      <4> QED BY <1>6, <3>2, <4>2 DEF e
    <3>3. CASE b # a
      <4>1. Home(Filled + 1) # b
        BY <1>1, <3>3
      <4>2. Chain(entries[b], claimed, Len(r_consumed), Filled + 1, b)
        BY <1>0, <3>1, <4>1, ChainOther
      <4> QED BY <1>6, <3>3, <4>2
    <3> QED BY <3>2, <3>3
  <2> QED BY <1>0, <1>2, <1>8, <2>1 DEF OneOrder
<1>11. OneAwake'
  <2>1. r_pc[OneConsumer] # "idle" => bucket[OneConsumer] \in RingOne!Buckets
    BY <1>0 DEF OneTypeOK
  <2> QED BY <1>0, <1>2, <1>3, <1>5, <1>6, <2>1 DEF OneAwake
<1> QED BY <1>7, <1>9, <1>10, <1>11 DEF OneInv

\* The consumer takes the value with the next number.
LEMMA OneDequeues ==
  ASSUME OneInv, RingOne!Dequeue(OneConsumer)
  PROVE  OneInv'
<1> USE OneClients
<1>0. /\ OneTypeOK /\ OneCounters /\ OneOrder /\ OneAwake
      /\ Len(claimed) \in Nat /\ claimed \in Seq(OneValues) /\ Distinct(claimed)
      /\ Len(r_consumed) \in Nat /\ r_consumed \in Seq(OneValues)
      /\ Filled \in Nat /\ Len(r_consumed) <= Filled /\ Filled <= Len(claimed)
  BY OneFacts
<1>1. /\ r_pc[OneConsumer] # "idle" /\ bucket[OneConsumer] \in RingOne!Buckets /\ entries[bucket[OneConsumer]] \in Seq(OneValues)
      /\ entries[bucket[OneConsumer]] # <<>> /\ Home(Len(r_consumed) + 1) = bucket[OneConsumer]
  BY <1>0 DEF RingOne!Dequeue, OneTypeOK, OneCounters
<1> DEFINE a == bucket[OneConsumer]
           x == Head(entries[a])
           e == Tail(entries[a])
<1>2. /\ entries' = [entries EXCEPT ![a] = e] /\ r_pc' = [r_pc EXCEPT ![OneConsumer] = "idle"]
      /\ r_val' = r_val /\ r_consumed' = Append(r_consumed, x) /\ claimed' = claimed
      /\ cur_write' = cur_write /\ cur_read' = cur_read /\ bucket' = bucket /\ asserted' = asserted
  BY DEF RingOne!Dequeue, RingOne!PopFront
<1>3. /\ Len(r_consumed) + 1 <= Filled /\ x = claimed[Len(r_consumed) + 1]
      /\ Chain(e, claimed, Len(r_consumed) + 1, Filled, a)
  <2>1. Chain(entries[a], claimed, Len(r_consumed), Filled, a)
    BY <1>0, <1>1 DEF OneOrder
  <2> HIDE DEF a
  <2>2. Home(Len(r_consumed) + 1) = a /\ entries[a] \in Seq(OneValues) /\ entries[a] # <<>>
    BY <1>1 DEF a
  <2> QED BY <1>0, <2>1, <2>2, ChainPop
<1>4. a \in RingOne!Buckets /\ x \in OneValues /\ e \in Seq(OneValues)
  BY <1>1, ElemsTail
<1> HIDE DEF x, e
<1>5. /\ r_consumed' \in Seq(OneValues) /\ Len(r_consumed') = Len(r_consumed) + 1
      /\ r_consumed'[Len(r_consumed) + 1] = x
      /\ \A j \in 1 .. Len(r_consumed) : r_consumed'[j] = r_consumed[j]
  BY <1>0, <1>2, <1>4, ElemsAppend
<1>6. r_pc'[OneProducer] = r_pc[OneProducer] /\ r_pc'[OneConsumer] = "idle" /\ r_pc' \in [{OneProducer, OneConsumer} -> RingPcs]
  BY <1>0, <1>2 DEF OneTypeOK, RingPcs
<1>7. entries'[a] = e /\ \A b \in RingOne!Buckets : b # a => entries'[b] = entries[b]
  BY <1>0, <1>2, <1>4 DEF OneTypeOK
<1>8. OneTypeOK'
  BY <1>0, <1>2, <1>4, <1>5, <1>6 DEF OneTypeOK
<1>9. Filled' = Filled
  BY <1>2, <1>6 DEF Filled
<1>10. OneCounters'
  BY <1>0, <1>1, <1>2, <1>5, <1>6 DEF OneCounters
<1>11. OneOrder'
  <2>1. ASSUME NEW b \in RingOne!Buckets
        PROVE  Chain(entries'[b], claimed, Len(r_consumed) + 1, Filled, b)
    <3>1. Chain(entries[b], claimed, Len(r_consumed), Filled, b)
      BY <1>0 DEF OneOrder
    <3>2. CASE b = a
      BY <1>3, <1>7, <3>2
    <3>3. CASE b # a
      <4>1. Chain(entries[b], claimed, Len(r_consumed) + 1, Filled, b)
        BY <1>0, <1>1, <3>1, <3>3, ChainOther
      <4> QED BY <1>7, <3>3, <4>1
    <3> QED BY <3>2, <3>3
  <2>2. ASSUME NEW i \in 1 .. Len(r_consumed) + 1 PROVE r_consumed'[i] = claimed[i]
    <3>1. i \in 1 .. Len(r_consumed) \/ i = Len(r_consumed) + 1
      BY <1>0
    <3> QED BY <1>0, <1>3, <1>5, <3>1 DEF OneOrder
  <2> QED BY <1>0, <1>2, <1>3, <1>5, <1>9, <2>1, <2>2 DEF OneOrder
<1>12. OneAwake'
  BY <1>0, <1>2, <1>6 DEF OneAwake
<1> QED BY <1>8, <1>10, <1>11, <1>12 DEF OneInv

\* The consumer takes its number, sleeps only on an empty bucket, wakes up
\* spuriously or fails the assertion of dequeue.
LEMMA OneOthers ==
  ASSUME OneInv, RingOne!ClaimRead(OneConsumer) \/ RingOne!DequeueWait(OneConsumer) \/ RingOne!DequeueAssert(OneConsumer)
                   \/ RingOne!SpuriousWakeup(OneConsumer)
  PROVE  OneInv'
<1> USE OneClients
<1>0. /\ OneTypeOK /\ OneCounters /\ OneOrder /\ OneAwake
      /\ Len(r_consumed) \in Nat
  BY OneFacts
<1>1. CASE RingOne!ClaimRead(OneConsumer)
  <2>1. /\ r_pc[OneConsumer] = "idle" /\ cur_read' = (cur_read + 1) % RingSize
        /\ bucket' = [bucket EXCEPT ![OneConsumer] = cur_read'] /\ r_pc' = [r_pc EXCEPT ![OneConsumer] = "dequeue"]
        /\ UNCHANGED <<entries, cur_write, r_val, claimed, r_consumed, asserted>>
    BY <1>1 DEF RingOne!ClaimRead
  <2>2. cur_read' = Home(Len(r_consumed) + 1) /\ cur_read' \in RingOne!Buckets
    BY <1>0, <2>1, HomeFacts DEF OneCounters
  <2>3. /\ r_pc'[OneProducer] = r_pc[OneProducer] /\ r_pc'[OneConsumer] = "dequeue" /\ r_pc' \in [{OneProducer, OneConsumer} -> RingPcs]
        /\ bucket'[OneProducer] = bucket[OneProducer] /\ bucket'[OneConsumer] = cur_read' /\ bucket' \in [{OneProducer, OneConsumer} -> RingOne!Buckets]
    BY <1>0, <2>1, <2>2 DEF OneTypeOK, RingPcs
  <2>4. Filled' = Filled
    BY <2>1, <2>3 DEF Filled
  <2>5. OneTypeOK' /\ OneCounters' /\ OneAwake'
    BY <1>0, <2>1, <2>2, <2>3 DEF OneTypeOK, OneCounters, OneAwake
  <2>6. OneOrder'
    BY <1>0, <2>1, <2>4 DEF OneOrder
  <2> QED BY <2>5, <2>6 DEF OneInv
<1>2. CASE RingOne!DequeueWait(OneConsumer)
  <2>1. /\ r_pc[OneConsumer] = "dequeue" /\ entries[bucket[OneConsumer]] = <<>> /\ r_pc' = [r_pc EXCEPT ![OneConsumer] = "wait"]
        /\ UNCHANGED <<entries, cur_write, cur_read, bucket, r_val, claimed, r_consumed, asserted>>
    BY <1>2 DEF RingOne!DequeueWait
  <2>2. r_pc'[OneProducer] = r_pc[OneProducer] /\ r_pc'[OneConsumer] = "wait" /\ r_pc' \in [{OneProducer, OneConsumer} -> RingPcs]
    BY <1>0, <2>1 DEF OneTypeOK, RingPcs
  <2>3. Filled' = Filled
    BY <2>1, <2>2 DEF Filled
  <2>4. OneTypeOK' /\ OneCounters' /\ OneAwake'
    BY <1>0, <2>1, <2>2 DEF OneTypeOK, OneCounters, OneAwake
  <2>5. OneOrder'
    BY <1>0, <2>1, <2>3 DEF OneOrder
  <2> QED BY <2>4, <2>5 DEF OneInv
<1>3. CASE RingOne!DequeueAssert(OneConsumer) \/ RingOne!SpuriousWakeup(OneConsumer)
  <2>1. PICK l \in {"spurious", "aborted"} : r_pc' = [r_pc EXCEPT ![OneConsumer] = l]
    BY <1>3 DEF RingOne!DequeueAssert, RingOne!SpuriousWakeup
  <2>2. /\ r_pc[OneConsumer] # "idle"
        /\ UNCHANGED <<entries, cur_write, cur_read, bucket, r_val, claimed, r_consumed>>
    BY <1>3 DEF RingOne!DequeueAssert, RingOne!SpuriousWakeup
  <2>3. /\ r_pc'[OneProducer] = r_pc[OneProducer] /\ r_pc'[OneConsumer] = l
        /\ r_pc' \in [{OneProducer, OneConsumer} -> RingPcs]
    BY <1>0, <2>1 DEF OneTypeOK, RingPcs
  <2>4. Filled' = Filled
    BY <2>2, <2>3 DEF Filled
  <2>5. OneTypeOK' /\ OneCounters' /\ OneAwake'
    BY <1>0, <2>1, <2>2, <2>3 DEF OneTypeOK, OneCounters, OneAwake, RingPcs
  <2>6. OneOrder'
    BY <1>0, <2>2, <2>4 DEF OneOrder
  <2> QED BY <2>5, <2>6 DEF OneInv
<1> QED BY <1>1, <1>2, <1>3

\* Every step of QueueRing with one producer and one consumer preserves its invariant.
LEMMA OneInductive == OneInv /\ [RingOne!Next]_ringVars => OneInv'
<1> SUFFICES ASSUME OneInv, [RingOne!Next]_ringVars PROVE OneInv'
  OBVIOUS
<1>1. CASE UNCHANGED ringVars
  BY <1>1 DEF ringVars, OneInv, OneTypeOK, OneCounters, OneOrder, OneAwake, Filled
<1>2. CASE RingOne!Next
  BY <1>2, OneClaims, OneEnqueues, OneDequeues, OneOthers DEF RingOne!Next, RingOne!Consumer
<1> QED BY <1>1, <1>2

\* With one producer and one consumer values come out in the order of their
\* claims, and the assertion in dequeue holds for a signalled consumer.
LEMMA OneMeaning == OneInv => RingOne!RingOrder /\ RingOne!AssertionHolds
<1> SUFFICES ASSUME OneInv PROVE RingOne!RingOrder /\ RingOne!AssertionHolds
  OBVIOUS
<1>1. Len(r_consumed) <= Len(claimed) /\ OneOrder /\ OneAwake
  BY OneFacts
<1> QED BY <1>1 DEF OneOrder, OneAwake, RingOne!RingOrder, RingOne!AssertionHolds
-----------------------------------------------------------------------------
(* BoundedQueue and TCLoopQueue: what an operation does to the slots is    *)
(* what the abstract queue's operation does to its sequence of items.      *)

\* Sequences of the same length with the same elements are equal.
LEMMA SeqEqual ==
  ASSUME NEW V, NEW s \in Seq(V), NEW t \in Seq(V), Len(s) = Len(t),
         \A i \in 1 .. Len(s) : s[i] = t[i]
  PROVE  s = t
  OBVIOUS

\* The sizes of the array queues are not zero, and the marks for raw slots are no elements.
LEMMA LoopConstants ==
  /\ DequeCap \in Nat \ {0} /\ Deque!Slots = 0 .. DequeCap - 1 
  /\ "foreign" \notin DequeValues /\ NoValue \notin DequeValues /\ "foreign" # NoValue
  /\ LoopSize \in Nat \ {0} /\ Loop!Slots = 0 .. LoopSize /\ Loop!Places = LoopSize + 1
  /\ "raw" \notin LoopValues /\ NoValue \notin LoopValues
  BY QueueSuiteAssumption
  DEF QueueSuiteAssumption, Deque!BoundedQueueAssumption, Loop!LoopQueueAssumption, NoValue,
      Deque!Slots, Loop!Slots, Loop!Places

\* The items of a BoundedQueue with n of them from slot s on.
Place(s, k) == Deque!_mod(s + k - 1)
\* The n elements from slot s on.
Contents(t, s, n) == [k \in 1 .. n |-> t[Place(s, k)]]
\* Those slots hold elements.
AllValues(t, s, n) == \A k \in 1 .. n : t[Place(s, k)] \in DequeValues

\* Different items are in different slots.
LEMMA PlaceFacts ==
  ASSUME NEW s \in Deque!Slots
  PROVE  /\ \A k \in 1 .. DequeCap : Place(s, k) \in Deque!Slots
         /\ \A j, k \in 1 .. DequeCap : Place(s, j) = Place(s, k) => j = k
         /\ Place(s, 1) = s
         /\ Deque!_mod(s + 1) \in Deque!Slots
         /\ \A k \in 1 .. DequeCap - 1 : Place(Deque!_mod(s + 1), k) = Place(s, k + 1)
         /\ Place(Deque!_mod(s + 1), DequeCap) = s
         /\ Deque!TopSlot(s) \in Deque!Slots
         /\ Place(Deque!TopSlot(s), 1) = Deque!TopSlot(s)
         /\ \A k \in 1 .. DequeCap - 1 : Place(Deque!TopSlot(s), k + 1) = Place(s, k)
  BY LoopConstants DEF Place, Deque!_mod, Deque!TopSlot

\* The contents are a sequence of n elements.
LEMMA ContentsType ==
  ASSUME NEW t, NEW s, NEW n \in Nat, AllValues(t, s, n)
  PROVE  /\ Contents(t, s, n) \in Seq(DequeValues) /\ Len(Contents(t, s, n)) = n
         /\ \A k \in 1 .. n : Contents(t, s, n)[k] = t[Place(s, k)]
<1>1. Contents(t, s, n) \in [1 .. n -> DequeValues]
  BY DEF Contents, AllValues
<1>2. \A k \in 1 .. n : Contents(t, s, n)[k] = t[Place(s, k)]
  BY DEF Contents
<1> HIDE DEF Contents
<1> QED BY <1>1, <1>2

\* push and elim_push with room: the slot behind the last item is filled.
LEMMA PushBack ==
  ASSUME NEW t \in [Deque!Slots -> DequeValues \cup {"foreign"}], NEW s \in Deque!Slots,
         NEW n \in 0 .. DequeCap - 1, AllValues(t, s, n), NEW v \in DequeValues,
         NEW u, u[Deque!_mod(s + n)] = v, \A i \in Deque!Slots : i # Deque!_mod(s + n) => u[i] = t[i]
  PROVE  AllValues(u, s, n + 1) /\ Contents(u, s, n + 1) = Append(Contents(t, s, n), v)
<1>1. /\ n \in Nat /\ n + 1 \in Nat /\ n + 1 \in 1 .. DequeCap /\ Deque!_mod(s + n) = Place(s, n + 1)
      /\ \A k \in 1 .. n : k \in 1 .. DequeCap /\ k # n + 1
      /\ \A k \in 1 .. n + 1 : k \in 1 .. n \/ k = n + 1
  <2>1. s \in Int /\ n \in Int /\ (s + (n + 1)) - 1 = s + n
    BY LoopConstants
  <2> QED BY <2>1, LoopConstants DEF Place
<1>2. u[Place(s, n + 1)] = v /\ \A k \in 1 .. n : u[Place(s, k)] = t[Place(s, k)]
  <2>1. Place(s, n + 1) \in Deque!Slots
    BY <1>1, PlaceFacts
  <2>2. \A k \in 1 .. n : Place(s, k) \in Deque!Slots /\ Place(s, k) # Place(s, n + 1)
    BY <1>1, PlaceFacts
  <2>3. u[Place(s, n + 1)] = v /\ \A i \in Deque!Slots : i # Place(s, n + 1) => u[i] = t[i]
    BY <1>1
  <2> QED BY <2>1, <2>2, <2>3
<1>3. AllValues(u, s, n + 1)
  BY <1>1, <1>2 DEF AllValues
<1> DEFINE q == Contents(t, s, n)
           r == Contents(u, s, n + 1)
<1>4. /\ q \in Seq(DequeValues) /\ Len(q) = n /\ \A k \in 1 .. n : q[k] = t[Place(s, k)]
      /\ r \in Seq(DequeValues) /\ Len(r) = n + 1 /\ \A k \in 1 .. n + 1 : r[k] = u[Place(s, k)]
  BY <1>1, <1>3, ContentsType
<1> HIDE DEF q, r
<1>5. /\ Append(q, v) \in Seq(DequeValues) /\ Len(Append(q, v)) = n + 1
      /\ Append(q, v)[n + 1] = v /\ \A j \in 1 .. n : Append(q, v)[j] = q[j]
  BY <1>4, ElemsAppend
<1>6. \A k \in 1 .. n + 1 : r[k] = Append(q, v)[k]
  BY <1>1, <1>2, <1>4, <1>5
<1>7. r = Append(q, v)
  BY <1>4, <1>5, <1>6, SeqEqual
<1> QED BY <1>3, <1>7 DEF q, r

\* pop, and the first half of elim_push without room: the first item leaves.
LEMMA PopFront ==
  ASSUME NEW t, NEW s \in Deque!Slots, NEW n \in 1 .. DequeCap, AllValues(t, s, n)
  PROVE  /\ AllValues(t, Deque!_mod(s + 1), n - 1)
         /\ Contents(t, Deque!_mod(s + 1), n - 1) = Tail(Contents(t, s, n))
         /\ Contents(t, s, n) # <<>> /\ Head(Contents(t, s, n)) = t[s]
<1> DEFINE m == Deque!_mod(s + 1)
<1>1. /\ n \in Nat /\ n - 1 \in Nat /\ 1 \in 1 .. n /\ Place(s, 1) = s
      /\ \A k \in 1 .. n - 1 : k + 1 \in 1 .. n /\ Place(m, k) = Place(s, k + 1)
  BY PlaceFacts, LoopConstants
<1> HIDE DEF m
<1>2. AllValues(t, m, n - 1)
  BY <1>1 DEF AllValues
<1> DEFINE q == Contents(t, s, n)
           r == Contents(t, m, n - 1)
<1>3. /\ q \in Seq(DequeValues) /\ Len(q) = n /\ \A k \in 1 .. n : q[k] = t[Place(s, k)]
      /\ r \in Seq(DequeValues) /\ Len(r) = n - 1 /\ \A k \in 1 .. n - 1 : r[k] = t[Place(m, k)]
  BY <1>1, <1>2, ContentsType
<1> HIDE DEF q, r
<1>4. q # <<>>
  BY <1>3
<1>5. /\ Head(q) = q[1] /\ Tail(q) \in Seq(DequeValues) /\ Len(Tail(q)) = n - 1
      /\ \A j \in 1 .. n - 1 : Tail(q)[j] = q[j + 1]
  BY <1>3, <1>4, ElemsTail
<1>6. \A k \in 1 .. n - 1 : r[k] = Tail(q)[k]
  BY <1>1, <1>3, <1>5
<1>7. r = Tail(q)
  BY <1>3, <1>5, <1>6, SeqEqual
<1>8. Head(q) = t[s]
  BY <1>1, <1>3, <1>5
<1> QED BY <1>2, <1>4, <1>7, <1>8 DEF q, r, m

\* push_top: the slot before the first item is filled.
LEMMA PushFront ==
  ASSUME NEW t \in [Deque!Slots -> DequeValues \cup {"foreign"}], NEW s \in Deque!Slots,
         NEW n \in 0 .. DequeCap - 1, AllValues(t, s, n), NEW v \in DequeValues,
         NEW u, u[Deque!TopSlot(s)] = v, \A i \in Deque!Slots : i # Deque!TopSlot(s) => u[i] = t[i]
  PROVE  /\ AllValues(u, Deque!TopSlot(s), n + 1)
         /\ Contents(u, Deque!TopSlot(s), n + 1) = <<v>> \o Contents(t, s, n)
<1> DEFINE m == Deque!TopSlot(s)
<1>1. /\ n \in Nat /\ n + 1 \in Nat /\ n + 1 \in 1 .. DequeCap /\ m \in Deque!Slots /\ Place(m, 1) = m
      /\ \A k \in 1 .. n : k + 1 \in 1 .. DequeCap /\ k + 1 # 1 /\ Place(m, k + 1) = Place(s, k)
      /\ 1 \in 1 .. DequeCap
  BY PlaceFacts, LoopConstants
<1>2. u[m] = v /\ \A k \in 1 .. n : u[Place(m, k + 1)] = t[Place(s, k)]
  <2> HIDE DEF m
  <2>0. /\ \A k \in 1 .. DequeCap : Place(m, k) \in Deque!Slots
        /\ \A j, k \in 1 .. DequeCap : Place(m, j) = Place(m, k) => j = k
    BY <1>1, PlaceFacts
  <2>1. \A k \in 1 .. n : Place(m, k + 1) \in Deque!Slots /\ Place(m, k + 1) # m
    BY <1>1, <2>0
  <2>2. u[m] = v /\ \A k \in 1 .. n : u[Place(m, k + 1)] = t[Place(m, k + 1)]
    BY <1>1, <2>1 DEF m
  <2> QED BY <1>1, <2>2
<1> HIDE DEF m
<1>a. \A k \in 1 .. n + 1 : k = 1 \/ (k - 1 \in 1 .. n /\ (k - 1) + 1 = k)
  BY <1>1
<1>3. AllValues(u, m, n + 1)
  <2> SUFFICES ASSUME NEW k \in 1 .. n + 1 PROVE u[Place(m, k)] \in DequeValues
    BY DEF AllValues
  <2>1. CASE k = 1
    BY <1>1, <1>2, <2>1
  <2>2. CASE k - 1 \in 1 .. n /\ (k - 1) + 1 = k
    BY <1>2, <2>2 DEF AllValues
  <2> QED BY <1>a, <2>1, <2>2
<1> DEFINE q == Contents(t, s, n)
           r == Contents(u, m, n + 1)
<1>4. /\ q \in Seq(DequeValues) /\ Len(q) = n /\ \A k \in 1 .. n : q[k] = t[Place(s, k)]
      /\ r \in Seq(DequeValues) /\ Len(r) = n + 1 /\ \A k \in 1 .. n + 1 : r[k] = u[Place(m, k)]
  BY <1>1, <1>3, ContentsType
<1> HIDE DEF q, r
<1>5. /\ <<v>> \o q \in Seq(DequeValues) /\ Len(<<v>> \o q) = n + 1
      /\ (<<v>> \o q)[1] = v /\ \A j \in 1 .. n : (<<v>> \o q)[j + 1] = q[j]
  BY <1>1, <1>4
<1>6. ASSUME NEW k \in 1 .. n + 1 PROVE r[k] = (<<v>> \o q)[k]
  <2>1. CASE k = 1
    BY <1>1, <1>2, <1>4, <1>5, <2>1
  <2>2. CASE k - 1 \in 1 .. n /\ (k - 1) + 1 = k
    <3>1. r[(k - 1) + 1] = u[Place(m, (k - 1) + 1)]
      BY <1>4, <2>2
    <3> QED BY <1>2, <1>4, <1>5, <2>2, <3>1
  <2> QED BY <1>a, <2>1, <2>2
<1>7. r = <<v>> \o q
  BY <1>4, <1>5, <1>6, SeqEqual
<1> QED BY <1>3, <1>7 DEF q, r, m

\* elim_push without room: the first item leaves, and its slot becomes the
\* last one.
LEMMA ElimBack ==
  ASSUME NEW t \in [Deque!Slots -> DequeValues \cup {"foreign"}], NEW s \in Deque!Slots,
         AllValues(t, s, DequeCap), NEW v \in DequeValues,
         NEW u, u[s] = v, \A i \in Deque!Slots : i # s => u[i] = t[i]
  PROVE  /\ AllValues(u, Deque!_mod(s + 1), DequeCap)
         /\ Contents(u, Deque!_mod(s + 1), DequeCap) = Append(Tail(Contents(t, s, DequeCap)), v)
<1> DEFINE m == Deque!_mod(s + 1)
           n == DequeCap - 1
<1>1. n \in 0 .. DequeCap - 1 /\ DequeCap \in 1 .. DequeCap /\ n + 1 = DequeCap /\ m \in Deque!Slots
  BY PlaceFacts, LoopConstants
<1>2. AllValues(t, m, n) /\ Contents(t, m, n) = Tail(Contents(t, s, DequeCap))
  BY <1>1, PopFront
<1>3. Deque!_mod(m + n) = s
  BY LoopConstants DEF Deque!_mod
<1> HIDE DEF m, n
<1>4. AllValues(u, m, n + 1) /\ Contents(u, m, n + 1) = Append(Contents(t, m, n), v)
  <2>1. u[Deque!_mod(m + n)] = v /\ \A i \in Deque!Slots : i # Deque!_mod(m + n) => u[i] = t[i]
    BY <1>3
  <2>2. m \in Deque!Slots /\ n \in 0 .. DequeCap - 1 /\ AllValues(t, m, n)
    BY <1>1, <1>2
  <2> QED BY <2>1, <2>2, PushBack
<1> QED BY <1>1, <1>2, <1>4 DEF m

\* pop_bottom takes the last item out.  It finds its slot only when that lies
\* before the end of the ring.
LEMMA PopBack ==
  ASSUME NEW t, NEW s \in Deque!Slots, NEW n \in 1 .. DequeCap, AllValues(t, s, n)
  PROVE  /\ AllValues(t, s, n - 1)
         /\ Contents(t, s, n - 1) = SubSeq(Contents(t, s, n), 1, n - 1)
         /\ Contents(t, s, n) # <<>>
         /\ s + n - 1 \in Deque!Slots => Contents(t, s, n)[n] = t[s + n - 1]
         /\ s + n - 1 \notin Deque!Slots => s + n > DequeCap
<1>1. /\ n \in Nat /\ n - 1 \in Nat /\ n \in 1 .. n
      /\ \A k \in 1 .. n - 1 : k \in 1 .. n
      /\ s + n - 1 \in Deque!Slots => Place(s, n) = s + n - 1
      /\ s + n - 1 \notin Deque!Slots => s + n > DequeCap
  BY LoopConstants DEF Place, Deque!_mod
<1>2. AllValues(t, s, n - 1)
  BY <1>1 DEF AllValues
<1> DEFINE q == Contents(t, s, n)
           r == Contents(t, s, n - 1)
<1>3. /\ q \in Seq(DequeValues) /\ Len(q) = n /\ \A k \in 1 .. n : q[k] = t[Place(s, k)]
      /\ r \in Seq(DequeValues) /\ Len(r) = n - 1 /\ \A k \in 1 .. n - 1 : r[k] = t[Place(s, k)]
  BY <1>1, <1>2, ContentsType
<1> HIDE DEF q, r
<1>4. q # <<>> /\ (s + n - 1 \in Deque!Slots => q[n] = t[s + n - 1])
  BY <1>1, <1>3
<1>5. /\ SubSeq(q, 1, n - 1) \in Seq(DequeValues) /\ Len(SubSeq(q, 1, n - 1)) = n - 1
      /\ \A k \in 1 .. n - 1 : SubSeq(q, 1, n - 1)[k] = q[k]
  BY <1>1, <1>3
<1>6. r = SubSeq(q, 1, n - 1)
  BY <1>1, <1>3, <1>5, SeqEqual
<1> QED BY <1>1, <1>2, <1>4, <1>6 DEF q, r

\* The slots in use hold values.
DequeInv == Deque!TypeOK /\ AllValues(items, start, count)

\* What an operation of BoundedQueue may return.
DequeOut == [op : Deque!AllOps \cup {"none"}, ok : BOOLEAN, item : DequeValues \cup {NoValue, "foreign"}]

\* What the steps use of the invariant.
LEMMA DequeFacts ==
  ASSUME DequeInv
  PROVE  /\ items \in [Deque!Slots -> DequeValues \cup {"foreign"}]
         /\ start \in Deque!Slots /\ count \in 0 .. DequeCap /\ AllValues(items, start, count)
         /\ count \in Nat /\ Deque!Items = Contents(items, start, count)
         /\ Deque!Items \in Seq(DequeValues) /\ Len(Deque!Items) = count
<1>1. /\ items \in [Deque!Slots -> DequeValues \cup {"foreign"}]
      /\ start \in Deque!Slots /\ count \in 0 .. DequeCap /\ AllValues(items, start, count)
  BY DEF DequeInv, Deque!TypeOK
<1>2. Deque!Items = Contents(items, start, count)
  <2>1. \A k \in 1 .. count : start + (k - 1) = (start + k) - 1
    BY <1>1, LoopConstants
  <2> QED BY <2>1 DEF Deque!Items, Deque!top, Contents, Place
<1>3. count \in Nat
  BY <1>1, LoopConstants
<1> QED BY <1>1, <1>2, <1>3, ContentsType

\* An empty BoundedQueue is an empty BoundedDeque.
LEMMA DequeBegins == Deque!Init => DequeInv /\ Deque!Deque!Init
<1> SUFFICES ASSUME Deque!Init PROVE DequeInv /\ Deque!Deque!Init
  OBVIOUS
<1>1. /\ items = [i \in Deque!Slots |-> "foreign"] /\ start = 0 /\ count = 0
      /\ out = Deque!Result("none", FALSE, NoValue)
  BY DEF Deque!Init
<1>2. Deque!TypeOK
  BY <1>1, LoopConstants DEF Deque!TypeOK, Deque!Result
<1>3. AllValues(items, start, count)
  BY <1>1 DEF AllValues
<1>4. DequeInv
  BY <1>1, <1>2, <1>3 DEF DequeInv
<1>5. Deque!Items = <<>>
  <2>1. Deque!Items \in Seq(DequeValues) /\ Len(Deque!Items) = 0
    BY <1>1, <1>4, DequeFacts
  <2> QED BY <2>1
<1> QED BY <1>1, <1>4, <1>5 DEF Deque!Deque!Init, Deque!Deque!Result, Deque!Result

\* The invariant after a step, from the new values of the variables.
LEMMA DequeAfter ==
  ASSUME items' \in [Deque!Slots -> DequeValues \cup {"foreign"}], start' \in Deque!Slots,
         count' \in 0 .. DequeCap, AllValues(items', start', count'), out' \in DequeOut
  PROVE  DequeInv' /\ (Deque!Items)' = Contents(items', start', count')
<1>1. DequeInv'
  BY DEF DequeInv, Deque!TypeOK, DequeOut
<1>2. \A k \in 1 .. count' : start' + (k - 1) = (start' + k) - 1
  BY LoopConstants
<1> QED BY <1>1, <1>2 DEF Deque!Items, Deque!top, Contents, Place

\* The results of the two specifications are the same records.
LEMMA DequeOuts ==
  ASSUME NEW o \in Deque!AllOps
  PROVE  /\ Deque!Result(o, TRUE, NoValue) \in DequeOut /\ Deque!Result(o, FALSE, NoValue) \in DequeOut
         /\ \A v \in DequeValues \cup {"foreign"} : Deque!Result(o, TRUE, v) \in DequeOut
         /\ \A r, v : Deque!Deque!Result(o, r, v) = Deque!Result(o, r, v)
  BY DEF DequeOut, Deque!Result, Deque!Deque!Result

\* An operation that fails changes nothing.
LEMMA DequeFails ==
  ASSUME DequeInv, NEW o \in Deque!AllOps, Deque!Fails(o)
  PROVE  DequeInv' /\ Deque!Deque!Fails(o)
<1>1. items' = items /\ start' = start /\ count' = count /\ out' = Deque!Result(o, FALSE, NoValue)
  BY DEF Deque!Fails
<1>2. (Deque!Items)' = Deque!Items
  BY <1>1 DEF Deque!Items, Deque!top
<1>3. out' \in DequeOut /\ out' = Deque!Deque!Result(o, FALSE, NoValue)
  BY <1>1, DequeOuts
<1>4. DequeInv'
  BY <1>1, <1>3, DequeFacts, DequeAfter DEF DequeInv
<1> QED BY <1>2, <1>3, <1>4 DEF Deque!Deque!Fails

\* An element written behind the last one is appended to the deque.
LEMMA DequeAppends ==
  ASSUME DequeInv, NEW o \in Deque!AllOps, NEW v \in DequeValues,
         count < DequeCap, Deque!AppendItem(o, v)
  PROVE  DequeInv' /\ Deque!Deque!Becomes(o, Append(Deque!Items, v))
<1>0. /\ items \in [Deque!Slots -> DequeValues \cup {"foreign"}] /\ start \in Deque!Slots
      /\ count \in 0 .. DequeCap - 1 /\ count + 1 \in 0 .. DequeCap /\ AllValues(items, start, count)
      /\ Deque!Items = Contents(items, start, count)
  <2>1. count \in 0 .. DequeCap /\ DequeCap \in Nat
    BY DequeFacts, LoopConstants
  <2>2. count \in 0 .. DequeCap - 1 /\ count + 1 \in 0 .. DequeCap
    BY <2>1
  <2> QED BY <2>2, DequeFacts
<1> DEFINE i == Deque!_mod(start + count)
<1>1. /\ items' = [items EXCEPT ![i] = v] /\ start' = start /\ count' = count + 1
      /\ out' = Deque!Result(o, TRUE, NoValue)
  BY DEF Deque!AppendItem, Deque!Done
<1>2. i \in Deque!Slots
  BY <1>0, LoopConstants DEF Deque!_mod
<1> HIDE DEF i
<1>3. /\ items' \in [Deque!Slots -> DequeValues \cup {"foreign"}]
      /\ items'[i] = v /\ \A j \in Deque!Slots : j # i => items'[j] = items[j]
  BY <1>0, <1>1, <1>2
<1>4. /\ AllValues(items', start, count + 1)
      /\ Contents(items', start, count + 1) = Append(Contents(items, start, count), v)
  BY <1>0, <1>3, PushBack DEF i
<1>5. out' \in DequeOut /\ out' = Deque!Deque!Result(o, TRUE, NoValue)
  BY <1>1, DequeOuts
<1>6. DequeInv' /\ (Deque!Items)' = Contents(items', start', count')
  BY <1>0, <1>1, <1>3, <1>4, <1>5, DequeAfter DEF DequeInv
<1> QED BY <1>0, <1>1, <1>4, <1>5, <1>6 DEF Deque!Deque!Becomes

\* push is PushBottom: it appends, or refuses when full.
LEMMA DequePushes ==
  ASSUME DequeInv, NEW v \in DequeValues, Deque!push(v)
  PROVE  DequeInv' /\ Deque!Deque!PushBottom(v)
<1>0. Deque!Deque!Room <=> count < DequeCap
  BY DequeFacts DEF Deque!Deque!Room
<1>1. CASE count < DequeCap
  <2>1. Deque!AppendItem("push", v) /\ "push" \in Deque!AllOps
    BY <1>1 DEF Deque!push, Deque!AllOps
  <2>2. DequeInv' /\ Deque!Deque!Becomes("push", Append(Deque!Items, v))
    BY <1>1, <2>1, DequeAppends
  <2> QED BY <1>0, <1>1, <2>2 DEF Deque!Deque!PushBottom
<1>2. CASE ~(count < DequeCap)
  <2>1. Deque!Fails("push") /\ "push" \in Deque!AllOps
    BY <1>2 DEF Deque!push, Deque!AllOps
  <2> QED BY <1>0, <1>2, <2>1, DequeFails DEF Deque!Deque!PushBottom
<1> QED BY <1>1, <1>2

\* elim_push is ElimPush: when full it drops the oldest element, in the slot it then writes.
LEMMA DequeEliminates ==
  ASSUME DequeInv, NEW v \in DequeValues, Deque!elim_push(v)
  PROVE  DequeInv' /\ Deque!Deque!ElimPush(v)
<1>0. Deque!Deque!Room <=> count < DequeCap
  BY DequeFacts DEF Deque!Deque!Room
<1>o. "elim_push" \in Deque!AllOps
  BY DEF Deque!AllOps
<1>1. CASE count < DequeCap
  <2>1. Deque!AppendItem("elim_push", v)
    BY <1>1 DEF Deque!elim_push
  <2>2. DequeInv' /\ Deque!Deque!Becomes("elim_push", Append(Deque!Items, v))
    BY <1>1, <1>o, <2>1, DequeAppends
  <2> QED BY <1>0, <1>1, <2>2 DEF Deque!Deque!ElimPush
<1>2. CASE ~(count < DequeCap)
  <2> DEFINE m == Deque!_mod(start + 1)
  <2>0. /\ items \in [Deque!Slots -> DequeValues \cup {"foreign"}] /\ start \in Deque!Slots
        /\ count = DequeCap /\ AllValues(items, start, DequeCap) /\ DequeCap \in 0 .. DequeCap
        /\ Deque!Items = Contents(items, start, DequeCap)
    <3>1. count \in 0 .. DequeCap /\ DequeCap \in Nat
      BY DequeFacts, LoopConstants
    <3>2. count = DequeCap /\ DequeCap \in 0 .. DequeCap
      BY <1>2, <3>1
    <3> QED BY <3>2, DequeFacts
  <2>1. /\ items' = [items EXCEPT ![start] = v] /\ start' = m /\ count' = DequeCap
        /\ out' = Deque!Result("elim_push", TRUE, NoValue)
    BY <1>2, <2>0 DEF Deque!elim_push, Deque!Done
  <2>2. m \in Deque!Slots
    BY <2>0, PlaceFacts
  <2> HIDE DEF m
  <2>3. /\ items' \in [Deque!Slots -> DequeValues \cup {"foreign"}]
        /\ items'[start] = v /\ \A j \in Deque!Slots : j # start => items'[j] = items[j]
    BY <2>0, <2>1
  <2>4. /\ AllValues(items', m, DequeCap)
        /\ Contents(items', m, DequeCap) = Append(Tail(Contents(items, start, DequeCap)), v)
    BY <2>0, <2>3, ElimBack DEF m
  <2>5. out' \in DequeOut /\ out' = Deque!Deque!Result("elim_push", TRUE, NoValue)
    BY <1>o, <2>1, DequeOuts
  <2>6. DequeInv' /\ (Deque!Items)' = Contents(items', start', count')
    BY <2>0, <2>1, <2>2, <2>3, <2>4, <2>5, DequeAfter
  <2> QED BY <1>0, <1>2, <2>0, <2>1, <2>4, <2>5, <2>6 DEF Deque!Deque!ElimPush, Deque!Deque!Becomes
<1> QED BY <1>1, <1>2

\* push_top is PushTop.
LEMMA DequePushesTop ==
  ASSUME DequeInv, NEW v \in DequeValues, Deque!push_top(v)
  PROVE  DequeInv' /\ Deque!Deque!PushTop(v)
<1>0. Deque!Deque!Room <=> count < DequeCap
  BY DequeFacts DEF Deque!Deque!Room
<1>o. "push_top" \in Deque!AllOps
  BY DEF Deque!AllOps
<1>1. CASE count < DequeCap
  <2> DEFINE m == Deque!TopSlot(start)
  <2>0. /\ items \in [Deque!Slots -> DequeValues \cup {"foreign"}] /\ start \in Deque!Slots
        /\ count \in 0 .. DequeCap - 1 /\ count + 1 \in 0 .. DequeCap /\ AllValues(items, start, count)
        /\ Deque!Items = Contents(items, start, count)
    <3>1. count \in 0 .. DequeCap /\ DequeCap \in Nat
      BY DequeFacts, LoopConstants
    <3>2. count \in 0 .. DequeCap - 1 /\ count + 1 \in 0 .. DequeCap
      BY <1>1, <3>1
    <3> QED BY <3>2, DequeFacts
  <2>1. /\ items' = [items EXCEPT ![m] = v] /\ start' = m /\ count' = count + 1
        /\ out' = Deque!Result("push_top", TRUE, NoValue)
    BY <1>1 DEF Deque!push_top, Deque!Done
  <2>2. m \in Deque!Slots
    BY <2>0, PlaceFacts
  <2> HIDE DEF m
  <2>3. /\ items' \in [Deque!Slots -> DequeValues \cup {"foreign"}]
        /\ items'[m] = v /\ \A j \in Deque!Slots : j # m => items'[j] = items[j]
    BY <2>0, <2>1, <2>2
  <2>4. /\ AllValues(items', m, count + 1)
        /\ Contents(items', m, count + 1) = <<v>> \o Contents(items, start, count)
    BY <2>0, <2>3, PushFront DEF m
  <2>5. out' \in DequeOut /\ out' = Deque!Deque!Result("push_top", TRUE, NoValue)
    BY <1>o, <2>1, DequeOuts
  <2>6. DequeInv' /\ (Deque!Items)' = Contents(items', start', count')
    BY <2>0, <2>1, <2>2, <2>3, <2>4, <2>5, DequeAfter
  <2> QED BY <1>0, <1>1, <2>0, <2>1, <2>4, <2>5, <2>6 DEF Deque!Deque!PushTop, Deque!Deque!Becomes
<1>2. CASE ~(count < DequeCap)
  <2>1. Deque!Fails("push_top")
    BY <1>2 DEF Deque!push_top
  <2> QED BY <1>0, <1>2, <1>o, <2>1, DequeFails DEF Deque!Deque!PushTop
<1> QED BY <1>1, <1>2

\* pop is PopTop.
LEMMA DequePops ==
  ASSUME DequeInv, Deque!pop
  PROVE  DequeInv' /\ Deque!Deque!PopTop
<1>0. Deque!Items \in Seq(DequeValues) /\ Len(Deque!Items) = count /\ count \in 0 .. DequeCap /\ DequeCap \in Nat
  BY DequeFacts, LoopConstants
<1>o. "pop" \in Deque!AllOps
  BY DEF Deque!AllOps
<1>1. CASE count = 0
  <2>1. Deque!Fails("pop") /\ Deque!Items = <<>>
    BY <1>0, <1>1 DEF Deque!pop
  <2> QED BY <1>o, <2>1, DequeFails DEF Deque!Deque!PopTop
<1>2. CASE count # 0
  <2> DEFINE m == Deque!_mod(start + 1)
             x == items[start]
  <2>0. /\ items \in [Deque!Slots -> DequeValues \cup {"foreign"}] /\ start \in Deque!Slots
        /\ count \in 1 .. DequeCap /\ count - 1 \in 0 .. DequeCap /\ AllValues(items, start, count)
        /\ Deque!Items = Contents(items, start, count)
    <3>1. count \in 1 .. DequeCap /\ count - 1 \in 0 .. DequeCap
      BY <1>0, <1>2
    <3> QED BY <3>1, DequeFacts
  <2>1. /\ items' = items /\ start' = m /\ count' = count - 1
        /\ out' = Deque!Result("pop", TRUE, x)
    BY <1>2 DEF Deque!pop
  <2>2. m \in Deque!Slots
    BY <2>0, PlaceFacts
  <2>3. /\ AllValues(items, m, count - 1)
        /\ Contents(items, m, count - 1) = Tail(Contents(items, start, count))
        /\ Contents(items, start, count) # <<>> /\ Head(Contents(items, start, count)) = x
    BY <2>0, PopFront
  <2>4. x \in DequeValues
    BY <1>0, <2>0, <2>3
  <2> HIDE DEF m, x
  <2>5. out' \in DequeOut /\ out' = Deque!Deque!Result("pop", TRUE, x)
    BY <1>o, <2>1, <2>4, DequeOuts
  <2>6. DequeInv' /\ (Deque!Items)' = Contents(items', start', count')
    BY <2>0, <2>1, <2>2, <2>3, <2>5, DequeAfter
  <2> QED BY <2>0, <2>1, <2>3, <2>5, <2>6 DEF Deque!Deque!PopTop, Deque!Deque!Gives
<1> QED BY <1>1, <1>2

\* clear is Clear.
LEMMA DequeClears ==
  ASSUME DequeInv, Deque!clear
  PROVE  DequeInv' /\ Deque!Deque!Clear
<1>1. /\ items' = items /\ start' = 0 /\ count' = 0 /\ out' = Deque!Result("clear", TRUE, NoValue)
  BY DEF Deque!clear, Deque!Done
<1>2. "clear" \in Deque!AllOps
  BY DEF Deque!AllOps
<1>3. out' \in DequeOut /\ out' = Deque!Deque!Result("clear", TRUE, NoValue)
  BY <1>1, <1>2, DequeOuts
<1>4. AllValues(items', 0, 0) /\ Contents(items', 0, 0) = <<>>
  BY DEF AllValues, Contents
<1>5. 0 \in Deque!Slots /\ 0 \in 0 .. DequeCap
  BY LoopConstants
<1>6. DequeInv' /\ (Deque!Items)' = Contents(items', start', count')
  BY <1>1, <1>3, <1>4, <1>5, DequeFacts, DequeAfter
<1> QED BY <1>1, <1>3, <1>4, <1>6 DEF Deque!Deque!Clear, Deque!Deque!Becomes

\* pop_bottom is PopBottom, unless the bottom item has wrapped.
LEMMA DequePopsBottom ==
  ASSUME DequeInv, Deque!pop_bottom
  PROVE  DequeInv' /\ (Deque!Deque!PopBottom \/ Deque!PopsForeign)
<1>0. Deque!Items \in Seq(DequeValues) /\ Len(Deque!Items) = count /\ count \in 0 .. DequeCap
      /\ DequeCap \in Nat
  BY DequeFacts, LoopConstants
<1>o. "pop_bottom" \in Deque!AllOps
  BY DEF Deque!AllOps
<1>1. CASE count = 0
  <2>1. Deque!Fails("pop_bottom") /\ Deque!Items = <<>>
    BY <1>0, <1>1 DEF Deque!pop_bottom
  <2> QED BY <1>o, <2>1, DequeFails DEF Deque!Deque!PopBottom
<1>2. CASE count # 0
  <2> DEFINE x == Deque!Read(start + count - 1)
             q == Contents(items, start, count)
             z == start + count - 1
  <2>0. /\ items \in [Deque!Slots -> DequeValues \cup {"foreign"}] /\ start \in Deque!Slots
        /\ count \in 1 .. DequeCap /\ count - 1 \in 0 .. DequeCap /\ AllValues(items, start, count)
        /\ Deque!Items = Contents(items, start, count)
    <3>1. count \in 1 .. DequeCap /\ count - 1 \in 0 .. DequeCap
      BY <1>0, <1>2
    <3> QED BY <3>1, DequeFacts
  <2>3. /\ AllValues(items, start, count - 1)
        /\ Contents(items, start, count - 1) = SubSeq(q, 1, count - 1)
        /\ q # <<>>
        /\ z \in Deque!Slots => q[count] = items[z]
        /\ z \notin Deque!Slots => start + count > DequeCap
    BY <2>0, PopBack
  <2>1. /\ items' = items /\ start' = start /\ count' = count - 1
        /\ out' = Deque!Result("pop_bottom", TRUE, x)
    BY <1>2 DEF Deque!pop_bottom, Deque!BottomSlot
  <2>q. q \in Seq(DequeValues) /\ Len(q) = count /\ q = Deque!Items
    BY <1>0, <2>0
  <2> HIDE DEF x, q, z
  <2>4. x = (IF z \in Deque!Slots THEN q[count] ELSE "foreign")
    BY <2>3 DEF x, z, Deque!Read
  <2>5. z \in Deque!Slots => x \in DequeValues
    <3>1. count \in 1 .. Len(q)
      BY <2>0, <2>q
    <3> QED BY <2>4, <2>q, <3>1
  <2>6. out' \in DequeOut /\ out' = Deque!Deque!Result("pop_bottom", TRUE, x)
    <3>1. x \in DequeValues \cup {"foreign"}
      BY <2>4, <2>5
    <3> QED BY <1>o, <2>1, <3>1, DequeOuts
  <2>7. DequeInv' /\ (Deque!Items)' = Contents(items', start', count')
    BY <2>0, <2>1, <2>3, <2>6, DequeAfter
  <2>8. (Deque!Items)' = SubSeq(q, 1, count - 1)
    BY <2>1, <2>3, <2>7
  <2>9. CASE z \in Deque!Slots
    <3>1. x = q[count]
      BY <2>4, <2>9
    <3> QED BY <2>3, <2>6, <2>7, <2>8, <2>q, <3>1 DEF Deque!Deque!PopBottom, Deque!Deque!Gives
  <2>10. CASE z \notin Deque!Slots
    <3>1. x = "foreign" /\ start + count > DequeCap
      BY <2>3, <2>4, <2>10
    <3> QED BY <2>6, <2>7, <2>8, <2>q, <3>1 DEF Deque!PopsForeign, Deque!BottomWrapped, Deque!Deque!Gives
  <2> QED BY <2>9, <2>10
<1> QED BY <1>1, <1>2

\* Every step is a step of the abstract double-ended queue, or a pop_bottom
\* whose item has wrapped.
LEMMA DequeStep ==
  DequeInv /\ [SuiteNext]_suiteVars
    => DequeInv' /\ [Deque!Deque!Next \/ Deque!PopsForeign]_<<Deque!Items, out>>
<1> SUFFICES ASSUME DequeInv, [SuiteNext]_suiteVars
             PROVE  DequeInv' /\ [Deque!Deque!Next \/ Deque!PopsForeign]_<<Deque!Items, out>>
  OBVIOUS
<1>0. UNCHANGED dequeVars \/ Deque!Next
  BY Zenon DEF SuiteNext, suiteVars
<1>1. CASE UNCHANGED dequeVars
  <2>1. items' = items /\ start' = start /\ count' = count /\ out' = out
    BY <1>1 DEF dequeVars
  <2>2. (Deque!Items)' = Deque!Items /\ DequeInv'
    BY <2>1 DEF Deque!Items, Deque!top, DequeInv, Deque!TypeOK
  <2> QED BY <2>1, <2>2
<1>2. CASE Deque!Next
  <2>1. CASE \E v \in DequeValues : Deque!push(v)
    BY <2>1, DequePushes DEF Deque!Deque!Next
  <2>2. CASE \E v \in DequeValues : Deque!elim_push(v)
    BY <2>2, DequeEliminates DEF Deque!Deque!Next
  <2>3. CASE \E v \in DequeValues : Deque!push_top(v)
    BY <2>3, DequePushesTop DEF Deque!Deque!Next
  <2>4. CASE Deque!pop
    BY <2>4, DequePops DEF Deque!Deque!Next
  <2>5. CASE Deque!clear
    BY <2>5, DequeClears DEF Deque!Deque!Next
  <2>6. CASE Deque!pop_bottom
    BY <2>6, DequePopsBottom DEF Deque!Deque!Next
  <2> QED BY <1>2, <2>1, <2>2, <2>3, <2>4, <2>5, <2>6 DEF Deque!Next
<1> QED BY <1>0, <1>1, <1>2

\* top(i) and bottom(i) reach the same slots.
LEMMA DequeMeaning == DequeInv => Deque!TypeOK /\ Deque!AccessorsAgree
<1> SUFFICES ASSUME DequeInv PROVE Deque!TypeOK /\ Deque!AccessorsAgree
  OBVIOUS
<1>1. start \in Int /\ count \in Int /\ AllValues(items, start, count) /\ Deque!TypeOK
  <2>1. start \in Deque!Slots /\ count \in 0 .. DequeCap /\ AllValues(items, start, count)
    BY DequeFacts
  <2> QED BY <2>1, LoopConstants DEF DequeInv
<1>2. ASSUME NEW i \in 0 .. count - 1
      PROVE  Deque!top(i) \in DequeValues /\ Deque!bottom(count - 1 - i) = Deque!top(i)
  <2>1. /\ i + 1 \in 1 .. count /\ (start + (i + 1)) - 1 = start + i
        /\ start + count - (count - 1 - i) - 1 = start + i
    BY <1>1
  <2>2. items[Deque!_mod((start + (i + 1)) - 1)] \in DequeValues
    BY <1>1, <2>1 DEF AllValues, Place
  <2>3. Deque!top(i) \in DequeValues
    BY <2>1, <2>2 DEF Deque!top
  <2>4. Deque!bottom(count - 1 - i) = Deque!top(i)
    BY <2>1, Zenon DEF Deque!top, Deque!bottom
  <2> QED BY <2>3, <2>4
<1> QED BY <1>1, <1>2 DEF Deque!AccessorsAgree

-----------------------------------------------------------------------------
(* TCLoopQueue: the n items from _iEnd on, and _iBegin behind them.        *)

\* The slot of the k-th element of TCLoopQueue, counted from end.
Spot(e, k) == IF e + k > LoopSize + 1 THEN e + k - LoopSize - 2 ELSE e + k - 1
\* The n elements from slot e on.
Window(t, e, n) == [k \in 1 .. n |-> t[Spot(e, k)]]
\* Those slots hold elements.
WindowOK(t, e, n) == \A k \in 1 .. n : t[Spot(e, k)] \in LoopValues

\* The number of items from the two indices.
LEMMA LoopSizes ==
  ASSUME NEW b \in Loop!Slots, NEW e \in Loop!Slots, NEW n, n = Loop!size(b, e)
  PROVE  /\ n \in 0 .. LoopSize /\ b = Spot(e, n + 1) /\ (n = 0 <=> b = e)
         /\ Loop!Step(b) \in Loop!Slots /\ Loop!Step(e) \in Loop!Slots
         /\ n < LoopSize => Loop!size(Loop!Step(b), e) = n + 1
         /\ n > 0 => Loop!size(b, Loop!Step(e)) = n - 1
  BY LoopConstants DEF Loop!size, Loop!Step, Spot

\* The slots of a full window are different, and stepping end shifts the window.
LEMMA Spots ==
  ASSUME NEW e \in Loop!Slots
  PROVE  /\ \A k \in 1 .. LoopSize + 1 : Spot(e, k) \in Loop!Slots
         /\ \A j, k \in 1 .. LoopSize + 1 : Spot(e, j) = Spot(e, k) => j = k
         /\ Spot(e, 1) = e
         /\ \A k \in 1 .. LoopSize : Spot(Loop!Step(e), k) = Spot(e, k + 1)
  BY LoopConstants DEF Loop!Step, Spot

\* The window is a sequence of n elements.
LEMMA WindowType ==
  ASSUME NEW t, NEW e, NEW n \in Nat, WindowOK(t, e, n)
  PROVE  /\ Window(t, e, n) \in Seq(LoopValues) /\ Len(Window(t, e, n)) = n
         /\ \A k \in 1 .. n : Window(t, e, n)[k] = t[Spot(e, k)]
<1>1. Window(t, e, n) \in [1 .. n -> LoopValues]
  BY DEF Window, WindowOK
<1>2. \A k \in 1 .. n : Window(t, e, n)[k] = t[Spot(e, k)]
  BY DEF Window
<1> HIDE DEF Window
<1> QED BY <1>1, <1>2

\* The slot at _iBegin is filled: the items grow by one at the end.
LEMMA WindowPush ==
  ASSUME NEW t, NEW e \in Loop!Slots, NEW n \in 0 .. LoopSize, WindowOK(t, e, n), NEW v \in LoopValues,
         NEW u, u[Spot(e, n + 1)] = v, \A i \in Loop!Slots : i # Spot(e, n + 1) => u[i] = t[i]
  PROVE  WindowOK(u, e, n + 1) /\ Window(u, e, n + 1) = Append(Window(t, e, n), v)
<1>1. /\ n \in Nat /\ n + 1 \in Nat /\ n + 1 \in 1 .. LoopSize + 1
      /\ \A k \in 1 .. n : k \in 1 .. LoopSize + 1 /\ k # n + 1
      /\ \A k \in 1 .. n + 1 : k \in 1 .. n \/ k = n + 1
  BY LoopConstants
<1>2. u[Spot(e, n + 1)] = v /\ \A k \in 1 .. n : u[Spot(e, k)] = t[Spot(e, k)]
  <2>1. \A k \in 1 .. n : Spot(e, k) \in Loop!Slots /\ Spot(e, k) # Spot(e, n + 1)
    BY <1>1, Spots
  <2> QED BY <2>1
<1>3. WindowOK(u, e, n + 1)
  BY <1>1, <1>2 DEF WindowOK
<1> DEFINE q == Window(t, e, n)
           r == Window(u, e, n + 1)
<1>4. /\ q \in Seq(LoopValues) /\ Len(q) = n /\ \A k \in 1 .. n : q[k] = t[Spot(e, k)]
      /\ r \in Seq(LoopValues) /\ Len(r) = n + 1 /\ \A k \in 1 .. n + 1 : r[k] = u[Spot(e, k)]
  BY <1>1, <1>3, WindowType
<1> HIDE DEF q, r
<1>5. /\ Append(q, v) \in Seq(LoopValues) /\ Len(Append(q, v)) = n + 1
      /\ Append(q, v)[n + 1] = v /\ \A j \in 1 .. n : Append(q, v)[j] = q[j]
  BY <1>4, ElemsAppend
<1>6. \A k \in 1 .. n + 1 : r[k] = Append(q, v)[k]
  BY <1>1, <1>2, <1>4, <1>5
<1>7. r = Append(q, v)
  BY <1>4, <1>5, <1>6, SeqEqual
<1> QED BY <1>3, <1>7 DEF q, r

\* _iEnd advances: the first item leaves.
LEMMA WindowPop ==
  ASSUME NEW t, NEW e \in Loop!Slots, NEW n \in 1 .. LoopSize, WindowOK(t, e, n)
  PROVE  /\ WindowOK(t, Loop!Step(e), n - 1)
         /\ Window(t, Loop!Step(e), n - 1) = Tail(Window(t, e, n))
         /\ Window(t, e, n) # <<>> /\ Head(Window(t, e, n)) = t[e]
<1> DEFINE m == Loop!Step(e)
<1>1. /\ n \in Nat /\ n - 1 \in Nat /\ 1 \in 1 .. n /\ Spot(e, 1) = e
      /\ \A k \in 1 .. n - 1 : k + 1 \in 1 .. n /\ Spot(m, k) = Spot(e, k + 1)
  BY Spots, LoopConstants
<1> HIDE DEF m
<1>2. WindowOK(t, m, n - 1)
  BY <1>1 DEF WindowOK
<1> DEFINE q == Window(t, e, n)
           r == Window(t, m, n - 1)
<1>3. /\ q \in Seq(LoopValues) /\ Len(q) = n /\ \A k \in 1 .. n : q[k] = t[Spot(e, k)]
      /\ r \in Seq(LoopValues) /\ Len(r) = n - 1 /\ \A k \in 1 .. n - 1 : r[k] = t[Spot(m, k)]
  BY <1>1, <1>2, WindowType
<1> HIDE DEF q, r
<1>4. q # <<>>
  BY <1>3
<1>5. /\ Head(q) = q[1] /\ Tail(q) \in Seq(LoopValues) /\ Len(Tail(q)) = n - 1
      /\ \A j \in 1 .. n - 1 : Tail(q)[j] = q[j + 1]
  BY <1>3, <1>4, ElemsTail
<1>6. \A k \in 1 .. n - 1 : r[k] = Tail(q)[k]
  BY <1>1, <1>3, <1>5
<1>7. r = Tail(q)
  BY <1>3, <1>5, <1>6, SeqEqual
<1>8. Head(q) = t[e]
  BY <1>1, <1>3, <1>5
<1> QED BY <1>2, <1>4, <1>7, <1>8 DEF q, r, m

\* The model writes the slot of an element the way the code does; this is Spot.
LEMMA SpotSlot ==
  ASSUME NEW e \in Int, NEW k \in Int
  PROVE  (IF e + (k - 1) > LoopSize THEN e + (k - 1) - (LoopSize + 1) ELSE e + (k - 1)) = Spot(e, k)
  BY LoopConstants DEF Spot

\* The inductive invariant of TCLoopQueue: the slots between end and begin hold elements.
LoopInv == Loop!TypeOK /\ WindowOK(p, end, Loop!size(begin, end))
\* What an operation of TCLoopQueue may return.
LoopOut == [op : {"none", "push", "push_two", "pop"}, ok : BOOLEAN, item : LoopValues \cup {NoValue, "raw"}]

\* What the steps use of the invariant.
LEMMA LoopFacts ==
  ASSUME LoopInv, NEW n, n = Loop!size(begin, end)
  PROVE  /\ p \in [Loop!Slots -> LoopValues \cup {"raw"}] /\ begin \in Loop!Slots /\ end \in Loop!Slots
         /\ n \in 0 .. LoopSize /\ n \in Nat /\ WindowOK(p, end, n) /\ bEmpty \in BOOLEAN
         /\ Loop!Items = Window(p, end, n) /\ Loop!Items \in Seq(LoopValues) /\ Len(Loop!Items) = n
<1>1. /\ p \in [Loop!Slots -> LoopValues \cup {"raw"}] /\ begin \in Loop!Slots /\ end \in Loop!Slots
      /\ WindowOK(p, end, n) /\ bEmpty \in BOOLEAN
  BY DEF LoopInv, Loop!TypeOK
<1>2. n \in 0 .. LoopSize /\ n \in Nat /\ end \in Int
  BY <1>1, LoopSizes, LoopConstants
<1>3. \A k \in 1 .. n : Loop!Slot(k - 1) = Spot(end, k)
  BY <1>2, LoopConstants DEF Loop!Slot, Spot
<1>4. Loop!Items = Window(p, end, n)
  BY <1>3 DEF Loop!Items, Window
<1> QED BY <1>1, <1>2, <1>4, WindowType

\* The invariant after a step, from the new values of the variables.
LEMMA LoopAfter ==
  ASSUME p' \in [Loop!Slots -> LoopValues \cup {"raw"}], begin' \in Loop!Slots, end' \in Loop!Slots,
         t_out' \in LoopOut, bEmpty' \in BOOLEAN,
         NEW n \in Nat, n = Loop!size(begin', end'), WindowOK(p', end', n)
  PROVE  LoopInv' /\ (Loop!Items)' = Window(p', end', n)
<1>1. LoopInv'
  BY DEF LoopInv, Loop!TypeOK, LoopOut, Loop!size, Loop!Places
<1>2. end' \in Int /\ LoopSize \in Int
  BY LoopConstants
<1>3. ASSUME NEW k \in 1 .. n PROVE (Loop!Slot(k - 1))' = Spot(end', k)
  <2>1. k \in Int
    OBVIOUS
  <2>2. (IF end' + (k - 1) > LoopSize THEN end' + (k - 1) - (LoopSize + 1) ELSE end' + (k - 1)) = Spot(end', k)
    BY <1>2, <2>1, SpotSlot
  <2> QED BY <2>2, Zenon DEF Loop!Slot, Loop!Places
<1> QED BY <1>1, <1>3 DEF Loop!Items, Window, Loop!size, Loop!Places

\* An empty TCLoopQueue is an empty BoundedDeque.
LEMMA LoopBegins == Loop!Init => LoopInv /\ Loop!Queue!Init
<1> SUFFICES ASSUME Loop!Init PROVE LoopInv /\ Loop!Queue!Init
  OBVIOUS
<1>1. /\ p = [i \in Loop!Slots |-> "raw"] /\ begin = 0 /\ end = 0 /\ bEmpty = FALSE
      /\ t_out = Loop!Result("none", FALSE, NoValue)
  BY DEF Loop!Init
<1>2. Loop!TypeOK /\ Loop!size(begin, end) = 0
  <2>1. Loop!size(begin, end) = 0 /\ begin \in Loop!Slots /\ end \in Loop!Slots
    BY <1>1, LoopConstants DEF Loop!size
  <2>2. p \in [Loop!Slots -> LoopValues \cup {"raw"}] /\ bEmpty \in BOOLEAN
    BY <1>1
  <2>3. t_out \in LoopOut
    BY <1>1 DEF LoopOut, Loop!Result
  <2> QED BY <2>1, <2>2, <2>3 DEF Loop!TypeOK, LoopOut
<1>3. LoopInv
  BY <1>2 DEF LoopInv, WindowOK
<1>4. Loop!Items = <<>>
  <2>1. Loop!Items \in Seq(LoopValues) /\ Len(Loop!Items) = 0
    BY <1>2, <1>3, LoopFacts
  <2> QED BY <2>1
<1> QED BY <1>1, <1>3, <1>4 DEF Loop!Queue!Init, Loop!Queue!Result, Loop!Result

\* The results of the two specifications are the same records.
LEMMA LoopOuts ==
  ASSUME NEW o \in {"push", "push_two", "pop"}
  PROVE  /\ Loop!Result(o, TRUE, NoValue) \in LoopOut /\ Loop!Result(o, FALSE, NoValue) \in LoopOut
         /\ \A v \in LoopValues : Loop!Result(o, TRUE, v) \in LoopOut
         /\ \A r, v : Loop!Queue!Result(o, r, v) = Loop!Result(o, r, v)
  BY DEF LoopOut, Loop!Result, Loop!Queue!Result

\* A refused operation changes nothing of the deque.
LEMMA LoopFails ==
  ASSUME LoopInv, NEW o \in {"push", "push_two", "pop"}, Loop!Fails(o), bEmpty' \in BOOLEAN
  PROVE  LoopInv' /\ Loop!Queue!Fails(o)
<1>1. p' = p /\ begin' = begin /\ end' = end /\ t_out' = Loop!Result(o, FALSE, NoValue)
  BY DEF Loop!Fails
<1>2. t_out' \in LoopOut /\ t_out' = Loop!Queue!Result(o, FALSE, NoValue)
  BY <1>1, LoopOuts
<1>3. LoopInv' /\ (Loop!Items)' = Loop!Items
  BY <1>1, <1>2 DEF LoopInv, LoopOut, Loop!TypeOK, Loop!Items, Loop!size, Loop!Slot, Loop!Places, WindowOK
<1> QED BY <1>2, <1>3 DEF Loop!Queue!Fails

\* push_back refuses an item exactly when there are iSize items, and the
\* overload for two when they would be more.
LEMMA LoopRoom ==
  ASSUME LoopInv, NEW n, n = Loop!size(begin, end)
  PROVE  /\ Loop!Full <=> n = LoopSize
         /\ Loop!NoRoom(2) <=> n + 2 > LoopSize
<1>1. begin \in Loop!Slots /\ end \in Loop!Slots
  BY LoopFacts
<1> QED BY <1>1, LoopConstants DEF Loop!Full, Loop!NoRoom, Loop!size

\* push_back is PushBottom, and reports that the queue was empty exactly when it was.
LEMMA LoopPushes ==
  ASSUME LoopInv, NEW v \in LoopValues, Loop!push_back(v)
  PROVE  /\ LoopInv' /\ Loop!Queue!PushBottom(v)
         /\ bEmpty' <=> t_out'.ok /\ Loop!Items = <<>>
<1> DEFINE n == Loop!size(begin, end)
<1>0. /\ p \in [Loop!Slots -> LoopValues \cup {"raw"}] /\ begin \in Loop!Slots /\ end \in Loop!Slots
      /\ n \in 0 .. LoopSize /\ n \in Nat /\ WindowOK(p, end, n)
      /\ Loop!Items = Window(p, end, n) /\ Loop!Items \in Seq(LoopValues) /\ Len(Loop!Items) = n
      /\ LoopSize \in Nat
  BY LoopFacts, LoopConstants
<1>r. /\ Loop!Full <=> n = LoopSize
      /\ Loop!Queue!Room <=> n < LoopSize
  BY <1>0, LoopRoom DEF Loop!Queue!Room
<1>1. CASE Loop!Full
  <2>1. Loop!Fails("push") /\ bEmpty' = FALSE
    BY <1>1 DEF Loop!push_back
  <2>2. LoopInv' /\ Loop!Queue!Fails("push") /\ t_out'.ok = FALSE
    BY <2>1, LoopFails DEF Loop!Fails, Loop!Result
  <2>3. ~Loop!Queue!Room
    BY <1>0, <1>1, <1>r
  <2> QED BY <2>1, <2>2, <2>3 DEF Loop!Queue!PushBottom
<1>2. CASE ~Loop!Full
  <2>1. /\ p' = [p EXCEPT ![begin] = v] /\ begin' = Loop!Step(begin) /\ end' = end
        /\ bEmpty' = (end = begin \/ Loop!size(begin', end') = 1)
        /\ t_out' = Loop!Result("push", TRUE, NoValue)
    BY <1>2 DEF Loop!push_back, Loop!WasEmpty
  <2>2. n < LoopSize /\ n + 1 \in Nat
    BY <1>0, <1>2, <1>r
  <2>3. /\ begin = Spot(end, n + 1) /\ Loop!Step(begin) \in Loop!Slots
        /\ Loop!size(Loop!Step(begin), end) = n + 1 /\ (n = 0 <=> begin = end)
    BY <1>0, <2>2, LoopSizes
  <2> HIDE DEF n
  <2>4. /\ p' \in [Loop!Slots -> LoopValues \cup {"raw"}]
        /\ p'[begin] = v /\ \A i \in Loop!Slots : i # begin => p'[i] = p[i]
    BY <1>0, <2>1
  <2>5. WindowOK(p', end, n + 1) /\ Window(p', end, n + 1) = Append(Window(p, end, n), v)
    BY <1>0, <2>3, <2>4, WindowPush
  <2>6. t_out' \in LoopOut /\ t_out' = Loop!Queue!Result("push", TRUE, NoValue) /\ t_out'.ok = TRUE
    BY <2>1, LoopOuts DEF Loop!Result
  <2>7. bEmpty' <=> n = 0
    <3>1. Loop!size(begin', end') = n + 1
      BY <2>1, <2>3
    <3>2. (end = begin \/ Loop!size(begin', end') = 1) <=> n = 0
      BY <1>0, <2>3, <3>1
    <3> QED BY <2>1, <3>2
  <2>8. bEmpty' \in BOOLEAN
    BY <2>1
  <2>9. LoopInv' /\ (Loop!Items)' = Window(p', end', n + 1)
    BY <1>0, <2>1, <2>2, <2>3, <2>4, <2>5, <2>6, <2>8, LoopAfter
  <2>10. n = 0 <=> Loop!Items = <<>>
    BY <1>0
  <2> QED BY <1>0, <1>r, <2>1, <2>2, <2>5, <2>6, <2>7, <2>9, <2>10
    DEF Loop!Queue!PushBottom, Loop!Queue!Becomes, n
<1> QED BY <1>1, <1>2

\* Appending twice is appending a pair.
LEMMA AppendTwo ==
  ASSUME NEW V, NEW s \in Seq(V), NEW v \in V, NEW w \in V
  PROVE  Append(Append(s, v), w) = s \o <<v, w>>
<1>1. /\ Append(Append(s, v), w) \in Seq(V) /\ s \o <<v, w>> \in Seq(V) /\ Len(s) \in Nat
      /\ Len(Append(Append(s, v), w)) = Len(s) + 2 /\ Len(s \o <<v, w>>) = Len(s) + 2
  OBVIOUS
<1>2. \A k \in 1 .. Len(s) + 2 : Append(Append(s, v), w)[k] = (s \o <<v, w>>)[k]
  OBVIOUS
<1> QED BY <1>1, <1>2, SeqEqual

\* push_back of two elements takes both or neither.
LEMMA LoopPushesTwo ==
  ASSUME LoopInv, NEW v \in LoopValues, NEW w \in LoopValues, Loop!push_back_all(v, w)
  PROVE  LoopInv' /\ Loop!Queue!PushTwo(v, w)
<1> DEFINE n == Loop!size(begin, end)
<1>0. /\ p \in [Loop!Slots -> LoopValues \cup {"raw"}] /\ begin \in Loop!Slots /\ end \in Loop!Slots
      /\ n \in 0 .. LoopSize /\ n \in Nat /\ WindowOK(p, end, n) /\ bEmpty \in BOOLEAN
      /\ Loop!Items = Window(p, end, n) /\ Loop!Items \in Seq(LoopValues) /\ Len(Loop!Items) = n
      /\ LoopSize \in Nat
  BY LoopFacts, LoopConstants
<1>r. Loop!NoRoom(2) <=> n + 2 > LoopSize
  BY LoopRoom
<1>b. bEmpty' = bEmpty
  BY DEF Loop!push_back_all
<1>1. CASE Loop!NoRoom(2)
  <2>1. Loop!Fails("push_two")
    BY <1>1 DEF Loop!push_back_all
  <2>2. LoopInv' /\ Loop!Queue!Fails("push_two")
    BY <1>0, <1>b, <2>1, LoopFails
  <2>3. ~(Len(Loop!Items) + 2 <= LoopSize)
    BY <1>0, <1>1, <1>r
  <2> QED BY <2>2, <2>3 DEF Loop!Queue!PushTwo
<1>2. CASE ~Loop!NoRoom(2)
  <2> DEFINE c == Loop!Step(begin)
             d == Loop!Step(c)
             u == [p EXCEPT ![begin] = v]
  <2>1. /\ p' = [u EXCEPT ![c] = w] /\ begin' = d /\ end' = end
        /\ t_out' = Loop!Result("push_two", TRUE, NoValue)
    BY <1>2 DEF Loop!push_back_all
  <2>2. n + 2 <= LoopSize /\ n < LoopSize /\ n + 1 < LoopSize /\ n + 1 \in 0 .. LoopSize /\ n + 2 \in Nat
    BY <1>0, <1>2, <1>r
  <2>3. begin = Spot(end, n + 1) /\ c \in Loop!Slots /\ Loop!size(c, end) = n + 1
    BY <1>0, <2>2, LoopSizes
  <2> HIDE DEF n, c
  <2>4. c = Spot(end, (n + 1) + 1) /\ d \in Loop!Slots /\ Loop!size(d, end) = (n + 1) + 1
    <3>1. PICK k : k = n + 1
      OBVIOUS
    <3>2. k = Loop!size(c, end) /\ k < LoopSize
      BY <2>2, <2>3, <3>1
    <3>3. c = Spot(end, k + 1) /\ d \in Loop!Slots /\ Loop!size(d, end) = k + 1
      BY <1>0, <2>3, <3>2, LoopSizes
    <3> QED BY <3>1, <3>3
  <2> HIDE DEF d
  <2>5. /\ u \in [Loop!Slots -> LoopValues \cup {"raw"}]
        /\ u[begin] = v /\ \A i \in Loop!Slots : i # begin => u[i] = p[i]
    BY <1>0
  <2> HIDE DEF u
  <2>6. /\ p' \in [Loop!Slots -> LoopValues \cup {"raw"}]
        /\ p'[c] = w /\ \A i \in Loop!Slots : i # c => p'[i] = u[i]
    BY <2>1, <2>3, <2>5
  <2>7. WindowOK(u, end, n + 1) /\ Window(u, end, n + 1) = Append(Window(p, end, n), v)
    BY <1>0, <2>3, <2>5, WindowPush
  <2>8. /\ WindowOK(p', end, (n + 1) + 1)
        /\ Window(p', end, (n + 1) + 1) = Append(Window(u, end, n + 1), w)
    BY <1>0, <2>2, <2>4, <2>6, <2>7, WindowPush
  <2>9. t_out' \in LoopOut /\ t_out' = Loop!Queue!Result("push_two", TRUE, NoValue)
    BY <2>1, LoopOuts
  <2>10. LoopInv' /\ (Loop!Items)' = Window(p', end', (n + 1) + 1)
    <3>1. (n + 1) + 1 \in Nat
      BY <1>0
    <3> QED BY <1>0, <1>b, <2>1, <2>4, <2>6, <2>8, <2>9, <3>1, LoopAfter
  <2>11. (Loop!Items)' = Loop!Items \o <<v, w>>
    <3>1. (Loop!Items)' = Append(Append(Loop!Items, v), w)
      BY <1>0, <2>1, <2>7, <2>8, <2>10
    <3> QED BY <1>0, <3>1, AppendTwo
  <2> QED BY <1>0, <2>2, <2>9, <2>10, <2>11 DEF Loop!Queue!PushTwo, Loop!Queue!Becomes
<1> QED BY <1>1, <1>2

\* pop_front is PopTop.
LEMMA LoopPops ==
  ASSUME LoopInv, Loop!pop_front
  PROVE  LoopInv' /\ Loop!Queue!PopTop
<1> DEFINE n == Loop!size(begin, end)
<1>0. /\ p \in [Loop!Slots -> LoopValues \cup {"raw"}] /\ begin \in Loop!Slots /\ end \in Loop!Slots
      /\ n \in 0 .. LoopSize /\ n \in Nat /\ WindowOK(p, end, n) /\ bEmpty \in BOOLEAN
      /\ Loop!Items = Window(p, end, n) /\ Loop!Items \in Seq(LoopValues) /\ Len(Loop!Items) = n
  BY LoopFacts
<1>b. bEmpty' = bEmpty
  BY DEF Loop!pop_front
<1>s. n = 0 <=> begin = end
  BY <1>0, LoopSizes
<1>1. CASE end = begin
  <2>1. Loop!Fails("pop") /\ Loop!Items = <<>>
    BY <1>0, <1>1, <1>s DEF Loop!pop_front
  <2>2. LoopInv' /\ Loop!Queue!Fails("pop")
    BY <1>0, <1>b, <2>1, LoopFails
  <2> QED BY <2>1, <2>2 DEF Loop!Queue!PopTop
<1>2. CASE end # begin
  <2> DEFINE e == Loop!Step(end)
             x == p[end]
  <2>1. p' = p /\ begin' = begin /\ end' = e /\ t_out' = Loop!Result("pop", TRUE, x)
    BY <1>2 DEF Loop!pop_front
  <2>2. n \in 1 .. LoopSize /\ n > 0 /\ n - 1 \in Nat
    BY <1>0, <1>2, <1>s
  <2>3. e \in Loop!Slots /\ Loop!size(begin, e) = n - 1
    BY <1>0, <2>2, LoopSizes
  <2> HIDE DEF n
  <2>4. /\ WindowOK(p, e, n - 1) /\ Window(p, e, n - 1) = Tail(Window(p, end, n))
        /\ Window(p, end, n) # <<>> /\ Head(Window(p, end, n)) = x
    BY <1>0, <2>2, WindowPop
  <2>5. x \in LoopValues
    BY <1>0, <2>4
  <2> HIDE DEF e, x
  <2>6. t_out' \in LoopOut /\ t_out' = Loop!Queue!Result("pop", TRUE, x)
    BY <2>1, <2>5, LoopOuts
  <2>7. LoopInv' /\ (Loop!Items)' = Window(p', end', n - 1)
    BY <1>0, <1>b, <2>1, <2>2, <2>3, <2>4, <2>6, LoopAfter
  <2> QED BY <1>0, <2>1, <2>4, <2>6, <2>7 DEF Loop!Queue!PopTop, Loop!Queue!Gives
<1> QED BY <1>1, <1>2

\* Every step of the suite keeps the invariant of TCLoopQueue and is a step of the deque or none.
LEMMA LoopStep ==
  LoopInv /\ [SuiteNext]_suiteVars =>
    /\ LoopInv' /\ [Loop!Queue!Next]_<<Loop!Items, t_out>>
    /\ [(\E v \in LoopValues : Loop!push_back(v)) => (bEmpty' <=> t_out'.ok /\ Loop!Items = <<>>)]_(Loop!vars)
<1> SUFFICES ASSUME LoopInv, [SuiteNext]_suiteVars
             PROVE  /\ LoopInv' /\ [Loop!Queue!Next]_<<Loop!Items, t_out>>
                    /\ (\E v \in LoopValues : Loop!push_back(v)) =>
                          (bEmpty' <=> t_out'.ok /\ Loop!Items = <<>>)
  OBVIOUS
<1>0. UNCHANGED loopVars \/ Loop!Next
  BY Zenon DEF SuiteNext, suiteVars
<1>1. CASE UNCHANGED loopVars
  <2>1. p' = p /\ begin' = begin /\ end' = end /\ t_out' = t_out /\ bEmpty' = bEmpty
    BY <1>1 DEF loopVars
  <2>2. (Loop!Items)' = Loop!Items /\ LoopInv'
    BY <2>1 DEF Loop!Items, Loop!size, Loop!Slot, Loop!Places, LoopInv, Loop!TypeOK, WindowOK
  <2> QED BY <2>1, <2>2, LoopPushes
<1>2. CASE Loop!Next
  <2>1. CASE \E v \in LoopValues : Loop!push_back(v)
    BY <2>1, LoopPushes DEF Loop!Queue!Next
  <2>2. CASE \E v, w \in LoopValues : Loop!push_back_all(v, w)
    BY <2>2, LoopPushesTwo, LoopPushes DEF Loop!Queue!Next
  <2>3. CASE Loop!pop_front
    BY <2>3, LoopPops, LoopPushes DEF Loop!Queue!Next
  <2> QED BY <1>2, <2>1, <2>2, <2>3 DEF Loop!Next
<1> QED BY <1>0, <1>1, <1>2

-----------------------------------------------------------------------------
(* The instances of QueueSuite.                                            *)

\* The fairness of SuiteSpec is not needed for safety.
LEMMA SuiteSafety == SuiteSpec => SuiteInit /\ [][SuiteNext]_suiteVars
  BY PTL DEF SuiteSpec

\* A behaviour keeps the instance it has picked.
LEMMA FocusStays == [SuiteNext]_suiteVars => focus' = focus
  BY Zenon DEF SuiteNext, suiteVars

\* The assumptions of BlockingQueues hold of the suite's instances.
LEMMA InstanceAssumptions ==
  /\ Queues!BlockingQueueAssumption /\ Every!BlockingQueueAssumption
  /\ Queues!CircularQueueAssumption /\ Variant!CircularQueueAssumption
  /\ Queues!SimpleQueueAssumption /\ Queues!ChannelAssumption
  /\ Queues!ConcurrentQueueAssumption /\ Variant!ConcurrentQueueAssumption
  BY QueueSuiteAssumption DEF QueueSuiteAssumption

\* A behaviour of the suite is one of the blocking queue, with one waiter woken.
LEMMA BlockingInSuite == SuiteSpec => Queues!BlockingSpec
<1>1. SuiteInit => Queues!BlockingInit
  BY Zenon DEF SuiteInit
<1>2. [SuiteNext]_suiteVars => [Queues!BlockingNext]_(Queues!blockingVars)
  BY Zenon DEF SuiteNext, suiteVars, blockingVars, Queues!blockingVars
<1> QED BY <1>1, <1>2, SuiteSafety, PTL DEF Queues!BlockingSpec

\* A behaviour of the suite is one of the blocking queue, with every waiter woken.
LEMMA EveryInSuite == SuiteSpec => Every!BlockingSpec
<1>1. SuiteInit => Every!BlockingInit
  BY Zenon DEF SuiteInit
<1>2. [SuiteNext]_suiteVars => [Every!BlockingNext]_(Every!blockingVars)
  BY Zenon DEF SuiteNext, suiteVars, everyVars, Every!blockingVars
<1> QED BY <1>1, <1>2, SuiteSafety, PTL DEF Every!BlockingSpec

\* A behaviour of the suite is one of the simple queue.
LEMMA SimpleInSuite == SuiteSpec => Queues!SimpleSpec
<1>1. SuiteInit => Queues!SimpleInit
  BY Zenon DEF SuiteInit
<1>2. [SuiteNext]_suiteVars => [Queues!SimpleNext]_(Queues!simpleVars)
  BY Zenon DEF SuiteNext, suiteVars, simpleVars, Queues!simpleVars
<1> QED BY <1>1, <1>2, SuiteSafety, PTL DEF Queues!SimpleSpec

\* A behaviour of the suite is one of the channel.
LEMMA ChannelInSuite == SuiteSpec => Queues!ChannelSpec
<1>1. SuiteInit => Queues!ChannelInit
  BY Zenon DEF SuiteInit
<1>2. [SuiteNext]_suiteVars => [Queues!ChannelNext]_(Queues!channelVars)
  BY Zenon DEF SuiteNext, suiteVars, channelVars, Queues!channelVars
<1> QED BY <1>1, <1>2, SuiteSafety, PTL DEF Queues!ChannelSpec

\* The two circular queues share their variables, and so do the two forms of
\* ConcurrentBlockingQueue; the first of each is also the one that stands
\* still in the behaviours of all other instances.
LEMMA CircularInSuite ==
  SuiteSpec =>
    /\ focus = "mpmc" => Variant!CircularSpec
    /\ ~(focus = "mpmc") => Queues!CircularSpec
<1>1. SuiteInit => Queues!CircularInit
  BY Zenon DEF SuiteInit
<1>2. SuiteInit => Variant!CircularInit
  BY <1>1, Zenon DEF Queues!CircularInit, Variant!CircularInit, Queues!Users, Variant!Users
<1>m. "mpmc" # "circular"
  OBVIOUS
<1>3. /\ SuiteNext /\ focus = "mpmc" => Variant!CircularNext
      /\ SuiteNext /\ ~(focus = "mpmc") => Queues!CircularNext \/ UNCHANGED circularVars
  BY <1>m, Zenon DEF SuiteNext
<1>4. UNCHANGED suiteVars => UNCHANGED circularVars
  BY Zenon DEF suiteVars
<1>5. /\ UNCHANGED circularVars => UNCHANGED Variant!circularVars
      /\ UNCHANGED circularVars => UNCHANGED Queues!circularVars
  BY Zenon DEF circularVars, Variant!circularVars, Queues!circularVars
<1>6. /\ focus = "mpmc" /\ [SuiteNext]_suiteVars => [Variant!CircularNext]_(Variant!circularVars)
      /\ ~(focus = "mpmc") /\ [SuiteNext]_suiteVars =>
           [Queues!CircularNext]_(Queues!circularVars)
  BY <1>3, <1>4, <1>5, Zenon
<1>7. [SuiteNext]_suiteVars =>
        /\ focus = "mpmc" => (focus = "mpmc")'
        /\ ~(focus = "mpmc") => (~(focus = "mpmc"))'
  BY FocusStays
<1> QED
  BY <1>1, <1>2, <1>6, <1>7, SuiteSafety, PTL DEF Variant!CircularSpec, Queues!CircularSpec

\* A behaviour of the suite is one of the concurrent queue, as a heap or in order.
LEMMA ConcurrentInSuite ==
  SuiteSpec =>
    /\ focus = "heap" => Variant!ConcurrentSpec
    /\ ~(focus = "heap") => Queues!ConcurrentSpec
<1>1. SuiteInit => Queues!ConcurrentInit
  BY Zenon DEF SuiteInit
<1>2. SuiteInit => Variant!ConcurrentInit
  BY <1>1, Zenon DEF Queues!ConcurrentInit, Variant!ConcurrentInit, Queues!NoRanks, Variant!NoRanks
<1>m. "heap" # "fifo"
  OBVIOUS
<1>3. /\ SuiteNext /\ focus = "heap" => Variant!ConcurrentNext
      /\ SuiteNext /\ ~(focus = "heap") => Queues!ConcurrentNext \/ UNCHANGED concurrentVars
  BY <1>m, Zenon DEF SuiteNext
<1>4. UNCHANGED suiteVars => UNCHANGED concurrentVars
  BY Zenon DEF suiteVars
<1>5. /\ UNCHANGED concurrentVars => UNCHANGED Variant!concurrentVars
      /\ UNCHANGED concurrentVars => UNCHANGED Queues!concurrentVars
  BY Zenon DEF concurrentVars, Variant!concurrentVars, Queues!concurrentVars
<1>6. /\ focus = "heap" /\ [SuiteNext]_suiteVars => [Variant!ConcurrentNext]_(Variant!concurrentVars)
      /\ ~(focus = "heap") /\ [SuiteNext]_suiteVars =>
           [Queues!ConcurrentNext]_(Queues!concurrentVars)
  BY <1>3, <1>4, <1>5, Zenon
<1>7. [SuiteNext]_suiteVars =>
        /\ focus = "heap" => (focus = "heap")'
        /\ ~(focus = "heap") => (~(focus = "heap"))'
  BY FocusStays
<1> QED
  BY <1>1, <1>2, <1>6, <1>7, SuiteSafety, PTL DEF Variant!ConcurrentSpec, Queues!ConcurrentSpec

\* What is proved of the circular queue, on the suite.
LEMMA CircularSafeInSuite ==
  SuiteSpec => []Queues!UsersCovered /\ []Queues!CircularFifo
<1>1. /\ Queues!CircularSpec =>
           [](Queues!UsersCovered /\ Queues!CircularFifo /\ Queues!CircularTypeOK)
      /\ Variant!CircularSpec => [](Variant!UsersCovered /\ Variant!CircularFifo /\ Variant!CircularTypeOK)
  BY InstanceAssumptions, Queues!CircularQueueSafe, Variant!CircularQueueSafe
<1>2. Variant!UsersCovered => Queues!UsersCovered
  BY Zenon DEF Variant!UsersCovered, Queues!UsersCovered, Variant!Covered, Queues!Covered,
         Variant!Sleeping, Queues!Sleeping, Variant!Awake, Queues!Awake,
         Variant!Cardinality, Queues!Cardinality
<1>3. Variant!CircularFifo => Queues!CircularFifo
  BY DEF Variant!CircularFifo, Queues!CircularFifo, Variant!InOrder, Queues!InOrder
<1> QED BY <1>1, <1>2, <1>3, CircularInSuite, PTL

\* What is proved of the concurrent queue, on the suite.
LEMMA ConcurrentSafeInSuite ==
  SuiteSpec => /\ []Queues!PoppersCovered /\ []Queues!NwaitExact
               /\ [](IF focus = "heap" THEN Variant!ConcurrentDelivers ELSE Queues!ConcurrentDelivers)
<1>1. /\ Queues!ConcurrentSpec =>
           [](Queues!PoppersCovered /\ Queues!NwaitExact /\ Queues!ConcurrentDelivers)
      /\ Variant!ConcurrentSpec =>
           [](Variant!PoppersCovered /\ Variant!NwaitExact /\ Variant!ConcurrentDelivers)
  BY InstanceAssumptions, Queues!ConcurrentQueueSafe, Variant!ConcurrentQueueSafe
<1>2. Variant!PoppersCovered => Queues!PoppersCovered
  BY Zenon DEF Variant!PoppersCovered, Queues!PoppersCovered, Variant!Notifying, Queues!Notifying,
         Variant!Sleeping, Queues!Sleeping, Variant!Awake, Queues!Awake,
         Variant!Cardinality, Queues!Cardinality
<1>3. Variant!NwaitExact => Queues!NwaitExact
  BY Zenon DEF Variant!NwaitExact, Queues!NwaitExact, Variant!InPop, Queues!InPop,
         Variant!Cardinality, Queues!Cardinality
<1> DEFINE D == IF focus = "heap" THEN Variant!ConcurrentDelivers ELSE Queues!ConcurrentDelivers
<1>4. /\ focus = "heap" /\ Variant!ConcurrentDelivers => D
      /\ ~(focus = "heap") /\ Queues!ConcurrentDelivers => D
  BY Zenon
<1>5. [SuiteNext]_suiteVars =>
        /\ focus = "heap" => (focus = "heap")'
        /\ ~(focus = "heap") => (~(focus = "heap"))'
  BY FocusStays
<1> HIDE DEF D
<1>6. SuiteSpec => []Queues!PoppersCovered /\ []Queues!NwaitExact /\ []D
  BY <1>1, <1>2, <1>3, <1>4, <1>5, ConcurrentInSuite, SuiteSafety, PTL
<1> QED BY <1>6 DEF D

\* In every queue of the suite a sleeping client is covered: what it waits for
\* has a client awake to use it, or a signal is on its way.
THEOREM SleepersAreCovered == SuiteSpec => []SleepersCovered
<1>1. SuiteSpec => [](Queues!ConsumersCovered /\ Queues!ProducersCovered)
  <2>1. Queues!BlockingSpec => [](Queues!ConsumersCovered /\ Queues!ProducersCovered)
    BY InstanceAssumptions, Queues!BlockingQueueSafe, PTL
  <2> QED BY <2>1, BlockingInSuite, PTL
<1>2. SuiteSpec => [](Every!ConsumersCovered /\ Every!ProducersCovered)
  <2>1. Every!BlockingSpec => [](Every!ConsumersCovered /\ Every!ProducersCovered)
    BY InstanceAssumptions, Every!BlockingQueueSafe, PTL
  <2> QED BY <2>1, EveryInSuite, PTL
<1>3. SuiteSpec => []Queues!NobodySleepsReady
  <2>1. Queues!SimpleSpec => []Queues!NobodySleepsReady
    BY InstanceAssumptions, Queues!SimpleQueueSafe, PTL
  <2> QED BY <2>1, SimpleInSuite, PTL
<1>4. SuiteSpec => []Queues!ReadersCovered
  <2>1. Queues!ChannelSpec => []Queues!ReadersCovered
    BY InstanceAssumptions, Queues!ChannelSafe, PTL
  <2> QED BY <2>1, ChannelInSuite, PTL
<1>5. /\ Queues!ConsumersCovered /\ Queues!ProducersCovered
      /\ Every!ConsumersCovered /\ Every!ProducersCovered
      /\ Queues!NobodySleepsReady /\ Queues!ReadersCovered
      /\ Queues!UsersCovered /\ Queues!PoppersCovered
      => SleepersCovered
  BY Zenon DEF SleepersCovered
<1> QED BY <1>1, <1>2, <1>3, <1>4, <1>5, CircularSafeInSuite, ConcurrentSafeInSuite, PTL

\* QueueRing stands still unless the suite looks at it, with its clients as
\* they are in that part.
LEMMA RingInSuite == SuiteSpec => [](focus = "ring" => RingInv)
<1>1. SuiteInit => (focus = "ring" => RingInv)
  <2>1. SuiteInit /\ focus = "ring" => Ring!Init
    <3>1. "ring" # "ringone"
      OBVIOUS
    <3> QED BY <3>1, Zenon DEF SuiteInit
  <2> QED BY <2>1, RingBegins
<1>2. (focus = "ring" => RingInv) /\ [SuiteNext]_suiteVars => (focus = "ring" => RingInv)'
  <2> SUFFICES ASSUME focus = "ring" => RingInv, [SuiteNext]_suiteVars, focus' = "ring" PROVE RingInv'
    OBVIOUS
  <2>1. focus = "ring"
    BY FocusStays
  <2>2. [Ring!Next]_ringVars
    BY <2>1, Zenon DEF SuiteNext, suiteVars
  <2> QED BY <2>1, <2>2, RingInductive
<1> QED BY <1>1, <1>2, SuiteSafety, PTL

\* The invariant of the ring with one producer and one consumer, on the suite.
LEMMA OneInSuite == SuiteSpec => [](focus = "ringone" => OneInv)
<1>1. SuiteInit => (focus = "ringone" => OneInv)
  <2>1. SuiteInit /\ focus = "ringone" => RingOne!Init
    BY Zenon DEF SuiteInit
  <2> QED BY <2>1, OneBegins
<1>2. (focus = "ringone" => OneInv) /\ [SuiteNext]_suiteVars => (focus = "ringone" => OneInv)'
  <2> SUFFICES ASSUME focus = "ringone" => OneInv, [SuiteNext]_suiteVars, focus' = "ringone" PROVE OneInv'
    OBVIOUS
  <2>1. focus = "ringone"
    BY FocusStays
  <2>2. [RingOne!Next]_ringVars
    <3>1. "ring" # "ringone"
      OBVIOUS
    <3> QED BY <2>1, <3>1, Zenon DEF SuiteNext, suiteVars
  <2> QED BY <2>1, <2>2, OneInductive
<1> QED BY <1>1, <1>2, SuiteSafety, PTL

\* The invariant of BoundedQueue, on the suite.
LEMMA DequeInSuite == SuiteSpec => []DequeInv
<1>1. SuiteInit => DequeInv
  BY DequeBegins, Zenon DEF SuiteInit
<1> QED BY <1>1, DequeStep, SuiteSafety, PTL

\* The invariant of TCLoopQueue, on the suite.
LEMMA LoopInSuite == SuiteSpec => []LoopInv
<1>1. SuiteInit => LoopInv
  BY LoopBegins, Zenon DEF SuiteInit
<1> QED BY <1>1, LoopStep, SuiteSafety, PTL

\* The circular queue's variables have their types on the suite.
LEMMA CircularTypeInSuite == SuiteSpec => [](focus # "mpmc" => Queues!CircularTypeOK)
<1>1. Queues!CircularSpec => []Queues!CircularTypeOK
  BY InstanceAssumptions, Queues!CircularQueueSafe, PTL
<1>2. [SuiteNext]_suiteVars /\ focus = "mpmc" => (focus = "mpmc")'
  BY FocusStays
<1>3. Queues!CircularTypeOK => (focus # "mpmc" => Queues!CircularTypeOK)
  OBVIOUS
<1>4. focus = "mpmc" => (focus # "mpmc" => Queues!CircularTypeOK)
  OBVIOUS
<1> QED BY <1>1, <1>2, <1>3, <1>4, CircularInSuite, SuiteSafety, PTL

\* In every queue of the suite elements come out once each and in order, and
\* counters that are read without a look at the queue are exact.
THEOREM ElementsAreDelivered == SuiteSpec => []DeliveredInOrder
<1>1. SuiteSpec => [](/\ Queues!BlockingTypeOK /\ Every!BlockingNeverFails /\ Every!BlockingTypeOK
                      /\ Queues!BlockingDelivers /\ Every!BlockingDelivers)
  <2>1. Queues!BlockingSpec => [](Queues!BlockingTypeOK /\ Queues!BlockingDelivers)
    BY InstanceAssumptions, Queues!BlockingQueueSafe, PTL
  <2>2. Every!BlockingSpec =>
          [](Every!BlockingNeverFails /\ Every!BlockingTypeOK /\ Every!BlockingDelivers)
    BY InstanceAssumptions, Every!BlockingQueueSafe, PTL
  <2> QED BY <2>1, <2>2, BlockingInSuite, EveryInSuite, PTL
<1>2. SuiteSpec => [](Queues!SimpleFifo /\ Queues!CountExact /\ Queues!SimpleTypeOK)
  <2>1. Queues!SimpleSpec => [](Queues!SimpleFifo /\ Queues!CountExact /\ Queues!SimpleTypeOK)
    BY InstanceAssumptions, Queues!SimpleQueueSafe, PTL
  <2> QED BY <2>1, SimpleInSuite, PTL
<1>3. SuiteSpec => []Queues!ChannelFifo
  <2>1. Queues!ChannelSpec => []Queues!ChannelFifo
    BY InstanceAssumptions, Queues!ChannelSafe, PTL
  <2> QED BY <2>1, ChannelInSuite, PTL
<1>4. SuiteSpec => [](Deque!TypeOK /\ Loop!TypeOK)
  <2>1. DequeInv /\ LoopInv => Deque!TypeOK /\ Loop!TypeOK
    BY DEF DequeInv, LoopInv
  <2> QED BY <2>1, DequeInSuite, LoopInSuite, PTL
<1>5. SuiteSpec => /\ [](focus = "ring" => Ring!NothingLost)
                   /\ [](focus = "ringone" => RingOne!RingOrder /\ RingOne!AssertionHolds)
  <2>1. (focus = "ring" => RingInv) => (focus = "ring" => Ring!NothingLost)
    BY RingMeaning
  <2>2. (focus = "ringone" => OneInv) => (focus = "ringone" => RingOne!RingOrder /\ RingOne!AssertionHolds)
    BY OneMeaning
  <2> QED BY <2>1, <2>2, RingInSuite, OneInSuite, PTL
<1>6. /\ Queues!BlockingTypeOK /\ Every!BlockingNeverFails /\ Every!BlockingTypeOK
      /\ Queues!BlockingDelivers /\ Every!BlockingDelivers
      /\ (IF focus = "heap" THEN Variant!ConcurrentDelivers ELSE Queues!ConcurrentDelivers)
      /\ Queues!SimpleFifo /\ Queues!CountExact /\ Queues!SimpleTypeOK /\ Queues!ChannelFifo
      /\ Deque!TypeOK /\ Loop!TypeOK /\ Queues!CircularFifo /\ Queues!NwaitExact
      /\ (focus = "ring" => Ring!NothingLost)
      /\ (focus = "ringone" => RingOne!RingOrder /\ RingOne!AssertionHolds)
      /\ (focus # "mpmc" => Queues!CircularTypeOK)
      => DeliveredInOrder
  BY Zenon DEF DeliveredInOrder
<1> QED BY <1>1, <1>2, <1>3, <1>4, <1>5, <1>6, CircularSafeInSuite, ConcurrentSafeInSuite,
           CircularTypeInSuite, PTL

\* BoundedQueue and TCLoopQueue implement the abstract queues: every operation
\* of the rings, wherever they have wrapped, is the operation on the sequence
\* of their items, except that pop_bottom hands out what lies behind the last
\* slot when the bottom item has wrapped; TCLoopQueue reports exactly an empty
\* queue.
THEOREM RingsDoImplementQueues == SuiteSpec => RingsImplementQueues
<1>1. SuiteSpec => Deque!ImplementsDeque
  <2>1. SuiteInit => Deque!Deque!Init
    BY DequeBegins, Zenon DEF SuiteInit
  <2>2. DequeInv /\ [SuiteNext]_suiteVars =>
          [Deque!Deque!Next \/ Deque!PopsForeign]_<<Deque!Items, out>>
    BY DequeStep
  <2> QED BY <2>1, <2>2, DequeInSuite, SuiteSafety, PTL DEF Deque!ImplementsDeque
<1>2. SuiteSpec => Loop!ImplementsQueue
  <2>1. SuiteInit => Loop!Queue!Init
    BY LoopBegins, Zenon DEF SuiteInit
  <2>2. LoopInv /\ [SuiteNext]_suiteVars => [Loop!Queue!Next]_<<Loop!Items, t_out>>
    BY LoopStep
  <2> QED BY <2>1, <2>2, LoopInSuite, SuiteSafety, PTL DEF Loop!ImplementsQueue, Loop!Queue!Spec
<1>3. SuiteSpec => Loop!ReportsEmpty
  <2>1. LoopInv /\ [SuiteNext]_suiteVars =>
          [(\E v \in LoopValues : Loop!push_back(v)) =>
              (bEmpty' <=> t_out'.ok /\ Loop!Items = <<>>)]_(Loop!vars)
    BY LoopStep
  <2> QED BY <2>1, LoopInSuite, SuiteSafety, PTL DEF Loop!ReportsEmpty
<1>4. SuiteSpec => []Deque!AccessorsAgree
  <2>1. DequeInv => Deque!AccessorsAgree
    BY DequeMeaning
  <2> QED BY <2>1, DequeInSuite, PTL
<1> QED BY <1>1, <1>2, <1>3, <1>4, PTL DEF RingsImplementQueues

=============================================================================
