--------------------------- MODULE LockFreeProofs ---------------------------
(***************************************************************************)
(* Proofs about the lock-free structures.  Readers: what a sequence lock   *)
(* hands out, what urcu_easy waits for and what HazardPtrEasy frees, for   *)
(* any number of threads, stores, nestings and objects.  Queues: what the  *)
(* rings for one producer and one consumer, MPMCBoundedQueue and           *)
(* WorkStealingQueue hand out, for any number of clients, items and slots. *)
(* Each structure has an inductive invariant, one lemma per step of its    *)
(* code, and a lemma that reads the suite's property off the invariant;    *)
(* the theorems put them together.                                         *)
(***************************************************************************)
EXTENDS LockFreeSuite, Sequences, SequenceTheorems, FiniteSetTheorems, TLAPS

\* Threads are numbered from 1, and 0 stands for no thread.
LEMMA Assumptions ==
  /\ \A t \in Threads : t \in Nat \ {0}
  /\ LockFree!Words = {1, 2} /\ LockFree!Nobody = 0
  BY LockFreeSuiteAssumption DEF LockFreeSuiteAssumption, LockFree!LockFreeAssumption, LockFree!Words, LockFree!Nobody

-----------------------------------------------------------------------------
(* Sequence locks                                                          *)

\* Where a thread of a sequence lock is: outside, in the five places of a store, or in a load.
SeqPcs == {"idle", "odd", "write", "write2", "even", "unlock",
           "copy", "copy2", "check", "again", "returned"}
\* The fields of the two records that the steps of a sequence lock keep.
SeqShape ==
  /\ lf_rep = [kind |-> lf_rep.kind, sequence |-> lf_rep.sequence, value |-> lf_rep.value,
               holder |-> lf_rep.holder, pc |-> lf_rep.pc, seq0 |-> lf_rep.seq0, copy |-> lf_rep.copy]
  /\ lf_model = [writes |-> lf_model.writes, stored |-> lf_model.stored, since |-> lf_model.since]
\* What those fields hold.
SeqTypeOK ==
  /\ lf_rep.sequence \in Nat /\ lf_rep.value \in [{1, 2} -> Nat]
  /\ lf_rep.holder \in Threads \cup {0} /\ lf_rep.pc \in [Threads -> SeqPcs]
  /\ lf_rep.seq0 \in [Threads -> Nat] /\ lf_rep.copy \in [Threads -> [{1, 2} -> Nat]]
  /\ lf_model.writes \in Nat /\ lf_model.stored \in Nat /\ lf_model.since \in [Threads -> Nat]

\* The thread is between the lock and the unlock of a store.
InStore(t) == lf_rep.pc[t] \in {"odd", "write", "write2", "even", "unlock"}

\* What a store that is at place l has done; the last store that was started has number w.
StoreAt(l) ==
  LET w == lf_model.writes IN
  /\ l = "odd" => lf_rep.sequence = 2 * w - 2
  /\ l \in {"write", "write2", "even"} => lf_rep.sequence = 2 * w - 1
  /\ l = "unlock" => lf_rep.sequence = 2 * w
  /\ l = "odd" => lf_rep.value[1] = w - 1 /\ lf_rep.value[2] = w - 1
  /\ l \in {"write2", "even", "unlock"} => lf_rep.value[1] = w
  /\ l \in {"even", "unlock"} => lf_rep.value[2] = w
  /\ lf_model.stored = IF l = "unlock" THEN w ELSE w - 1

\* At most one store is in progress, and the number and the words are where its writer's place says.
SeqStore ==
  /\ \A t \in Threads : InStore(t) <=> lf_rep.holder = t
  /\ lf_rep.holder = 0 => StoreAt("unlock")
  /\ \A t \in Threads : InStore(t) => StoreAt(lf_rep.pc[t])

\* A load began at a number that was valid then; if the number is still the same and even,
\* every word copied so far belongs to that number.
SeqReader(t) ==
  /\ lf_model.since[t] <= lf_model.stored
  /\ lf_rep.pc[t] \in {"copy", "copy2", "check"} =>
       lf_rep.seq0[t] <= lf_rep.sequence /\ 2 * lf_model.since[t] <= lf_rep.seq0[t]
  /\ lf_rep.pc[t] \in {"copy2", "check"} /\ lf_rep.seq0[t] = lf_rep.sequence /\ lf_rep.sequence % 2 = 0
       => 2 * lf_rep.copy[t][1] = lf_rep.seq0[t]
  /\ lf_rep.pc[t] = "check" /\ lf_rep.seq0[t] = lf_rep.sequence /\ lf_rep.sequence % 2 = 0
       => 2 * lf_rep.copy[t][2] = lf_rep.seq0[t]
  /\ lf_rep.pc[t] = "returned" =>
       lf_rep.copy[t][1] = lf_rep.copy[t][2] /\ lf_rep.copy[t][1] >= lf_model.since[t]

\* The inductive invariant of the sequence lock.
SeqInv == SeqShape /\ SeqTypeOK /\ SeqStore /\ \A t \in Threads : SeqReader(t)

\* A fresh sequence lock holds number 0 and the value of store 0, with nobody inside.
LEMMA SeqBegins == LockFree!SeqInit => SeqInv
<1> SUFFICES ASSUME LockFree!SeqInit PROVE SeqInv
  OBVIOUS
<1>0. SeqShape
  BY DEF SeqShape, LockFree!SeqInit
<1>1. SeqTypeOK
  BY Assumptions DEF SeqTypeOK, LockFree!SeqInit, SeqPcs, LockFree!NoCopy
<1>2. SeqStore
  BY Assumptions DEF SeqStore, LockFree!SeqInit, InStore, StoreAt
<1>3. \A t \in Threads : SeqReader(t)
  BY Assumptions DEF SeqReader, LockFree!SeqInit
<1> QED BY <1>0, <1>1, <1>2, <1>3 DEF SeqInv

\* Whenever the number is even the words are those of a whole store.
LEMMA SeqStable ==
  ASSUME SeqTypeOK, SeqStore, lf_rep.sequence % 2 = 0
  PROVE  2 * lf_rep.value[1] = lf_rep.sequence /\ 2 * lf_rep.value[2] = lf_rep.sequence
<1>1. CASE lf_rep.holder = 0
  BY <1>1 DEF SeqTypeOK, SeqStore, StoreAt
<1>2. ASSUME NEW u \in Threads, lf_rep.holder = u
      PROVE  StoreAt(lf_rep.pc[u]) /\ InStore(u)
  BY <1>2 DEF SeqStore
<1>3. ASSUME NEW u \in Threads, lf_rep.holder = u
      PROVE  2 * lf_rep.value[1] = lf_rep.sequence /\ 2 * lf_rep.value[2] = lf_rep.sequence
  BY <1>2, <1>3 DEF SeqTypeOK, StoreAt, InStore
<1> QED BY <1>1, <1>3 DEF SeqTypeOK

\* Store: taking the writers' lock starts a store that has changed nothing yet.
LEMMA SeqWriteLock ==
  ASSUME SeqInv, NEW t \in Threads, LockFree!WriteLock(t)
  PROVE  SeqInv'
<1> USE Assumptions
<1>0. SeqShape /\ SeqTypeOK /\ SeqStore /\ \A u \in Threads : SeqReader(u)
  BY DEF SeqInv
<1>1. /\ SeqShape'
      /\ lf_rep'.kind = lf_rep.kind
      /\ lf_rep'.sequence = lf_rep.sequence
      /\ lf_rep'.value = lf_rep.value
      /\ lf_rep'.holder = t
      /\ lf_rep'.pc = [lf_rep.pc EXCEPT ![t] = "odd"]
      /\ lf_rep'.seq0 = lf_rep.seq0
      /\ lf_rep'.copy = lf_rep.copy
      /\ lf_model'.writes = lf_model.writes + 1
      /\ lf_model'.stored = lf_model.stored
      /\ lf_model'.since = lf_model.since
  BY <1>0 DEF SeqShape, LockFree!WriteLock, LockFree!At, LockFree!NoCopy
<1>2. SeqTypeOK'
  BY <1>0, <1>1 DEF SeqTypeOK, SeqPcs, LockFree!NoCopy
<1>3. SeqStore'
  BY <1>0, <1>1 DEF SeqTypeOK, SeqPcs, SeqStore, InStore, StoreAt, LockFree!WriteLock, LockFree!At
<1>4. \A u \in Threads : SeqReader(u)'
  BY <1>0, <1>1 DEF SeqTypeOK, SeqPcs, SeqStore, InStore, StoreAt, SeqReader, LockFree!WriteLock, LockFree!At
<1> QED BY <1>1, <1>2, <1>3, <1>4 DEF SeqInv

\* Store: the first increment makes the number odd, so no load that sees it can return.
LEMMA SeqWriteOdd ==
  ASSUME SeqInv, NEW t \in Threads, LockFree!WriteOdd(t)
  PROVE  SeqInv'
<1> USE Assumptions
<1>0. SeqShape /\ SeqTypeOK /\ SeqStore /\ \A u \in Threads : SeqReader(u)
  BY DEF SeqInv
<1>1. /\ SeqShape'
      /\ lf_rep'.kind = lf_rep.kind
      /\ lf_rep'.sequence = lf_rep.sequence + 1
      /\ lf_rep'.value = lf_rep.value
      /\ lf_rep'.holder = lf_rep.holder
      /\ lf_rep'.pc = [lf_rep.pc EXCEPT ![t] = "write"]
      /\ lf_rep'.seq0 = lf_rep.seq0
      /\ lf_rep'.copy = lf_rep.copy
      /\ lf_model'.writes = lf_model.writes
      /\ lf_model'.stored = lf_model.stored
      /\ lf_model'.since = lf_model.since
  BY <1>0 DEF SeqShape, LockFree!WriteOdd, LockFree!At, LockFree!NoCopy
<1>2. SeqTypeOK'
  BY <1>0, <1>1 DEF SeqTypeOK, SeqPcs, LockFree!NoCopy
<1>3. SeqStore'
  BY <1>0, <1>1 DEF SeqTypeOK, SeqPcs, SeqStore, InStore, StoreAt, LockFree!WriteOdd, LockFree!At
<1>4. \A u \in Threads : SeqReader(u)'
  BY <1>0, <1>1 DEF SeqTypeOK, SeqPcs, SeqStore, InStore, StoreAt, SeqReader, LockFree!WriteOdd, LockFree!At
<1> QED BY <1>1, <1>2, <1>3, <1>4 DEF SeqInv

\* Store: the second increment comes when both words are new.
LEMMA SeqWriteEven ==
  ASSUME SeqInv, NEW t \in Threads, LockFree!WriteEven(t)
  PROVE  SeqInv'
<1> USE Assumptions
<1>0. SeqShape /\ SeqTypeOK /\ SeqStore /\ \A u \in Threads : SeqReader(u)
  BY DEF SeqInv
<1>1. /\ SeqShape'
      /\ lf_rep'.kind = lf_rep.kind
      /\ lf_rep'.sequence = lf_rep.sequence + 1
      /\ lf_rep'.value = lf_rep.value
      /\ lf_rep'.holder = lf_rep.holder
      /\ lf_rep'.pc = [lf_rep.pc EXCEPT ![t] = "unlock"]
      /\ lf_rep'.seq0 = lf_rep.seq0
      /\ lf_rep'.copy = lf_rep.copy
      /\ lf_model'.writes = lf_model.writes
      /\ lf_model'.stored = lf_model.writes
      /\ lf_model'.since = lf_model.since
  BY <1>0 DEF SeqShape, LockFree!WriteEven, LockFree!At, LockFree!NoCopy
<1>2. SeqTypeOK'
  BY <1>0, <1>1 DEF SeqTypeOK, SeqPcs, LockFree!NoCopy
<1>3. SeqStore'
  BY <1>0, <1>1 DEF SeqTypeOK, SeqPcs, SeqStore, InStore, StoreAt, LockFree!WriteEven, LockFree!At
<1>4. \A u \in Threads : SeqReader(u)'
  BY <1>0, <1>1 DEF SeqTypeOK, SeqPcs, SeqStore, InStore, StoreAt, SeqReader, LockFree!WriteEven, LockFree!At
<1> QED BY <1>1, <1>2, <1>3, <1>4 DEF SeqInv

\* Store: releasing the writers' lock leaves number and words of a finished store.
LEMMA SeqWriteUnlock ==
  ASSUME SeqInv, NEW t \in Threads, LockFree!WriteUnlock(t)
  PROVE  SeqInv'
<1> USE Assumptions
<1>0. SeqShape /\ SeqTypeOK /\ SeqStore /\ \A u \in Threads : SeqReader(u)
  BY DEF SeqInv
<1>1. /\ SeqShape'
      /\ lf_rep'.kind = lf_rep.kind
      /\ lf_rep'.sequence = lf_rep.sequence
      /\ lf_rep'.value = lf_rep.value
      /\ lf_rep'.holder = 0
      /\ lf_rep'.pc = [lf_rep.pc EXCEPT ![t] = "idle"]
      /\ lf_rep'.seq0 = lf_rep.seq0
      /\ lf_rep'.copy = lf_rep.copy
      /\ lf_model'.writes = lf_model.writes
      /\ lf_model'.stored = lf_model.stored
      /\ lf_model'.since = lf_model.since
  BY <1>0 DEF SeqShape, LockFree!WriteUnlock, LockFree!At, LockFree!NoCopy
<1>2. SeqTypeOK'
  BY <1>0, <1>1 DEF SeqTypeOK, SeqPcs, LockFree!NoCopy
<1>3. SeqStore'
  BY <1>0, <1>1 DEF SeqTypeOK, SeqPcs, SeqStore, InStore, StoreAt, LockFree!WriteUnlock, LockFree!At
<1>4. \A u \in Threads : SeqReader(u)'
  BY <1>0, <1>1 DEF SeqTypeOK, SeqPcs, SeqStore, InStore, StoreAt, SeqReader, LockFree!WriteUnlock, LockFree!At
<1> QED BY <1>1, <1>2, <1>3, <1>4 DEF SeqInv

\* Store: the first word is written while the number is odd.
LEMMA SeqWriteWord1 ==
  ASSUME SeqInv, NEW t \in Threads, LockFree!WriteWord(t, 1)
  PROVE  SeqInv'
<1> USE Assumptions
<1>0. SeqShape /\ SeqTypeOK /\ SeqStore /\ \A u \in Threads : SeqReader(u)
  BY DEF SeqInv
<1>1. /\ SeqShape'
      /\ lf_rep'.kind = lf_rep.kind
      /\ lf_rep'.sequence = lf_rep.sequence
      /\ lf_rep'.value = [lf_rep.value EXCEPT ![1] = lf_model.writes]
      /\ lf_rep'.holder = lf_rep.holder
      /\ lf_rep'.pc = [lf_rep.pc EXCEPT ![t] = "write2"]
      /\ lf_rep'.seq0 = lf_rep.seq0
      /\ lf_rep'.copy = lf_rep.copy
      /\ lf_model'.writes = lf_model.writes
      /\ lf_model'.stored = lf_model.stored
      /\ lf_model'.since = lf_model.since
  BY <1>0 DEF SeqShape, LockFree!WriteWord, LockFree!At, LockFree!NoCopy
<1>2. SeqTypeOK'
  BY <1>0, <1>1 DEF SeqTypeOK, SeqPcs, LockFree!NoCopy
<1>3. SeqStore'
  BY <1>0, <1>1 DEF SeqTypeOK, SeqPcs, SeqStore, InStore, StoreAt, LockFree!WriteWord, LockFree!At
<1>4. \A u \in Threads : SeqReader(u)'
  BY <1>0, <1>1 DEF SeqTypeOK, SeqPcs, SeqStore, InStore, StoreAt, SeqReader, LockFree!WriteWord, LockFree!At
<1> QED BY <1>1, <1>2, <1>3, <1>4 DEF SeqInv

\* Store: the second word is written while the number is odd.
LEMMA SeqWriteWord2 ==
  ASSUME SeqInv, NEW t \in Threads, LockFree!WriteWord(t, 2)
  PROVE  SeqInv'
<1> USE Assumptions
<1>0. SeqShape /\ SeqTypeOK /\ SeqStore /\ \A u \in Threads : SeqReader(u)
  BY DEF SeqInv
<1>a. lf_rep' = [lf_rep EXCEPT !.value[2] = lf_model.writes, !.pc[t] = "even"] /\ lf_model' = lf_model
  BY DEF LockFree!WriteWord
<1>1. /\ SeqShape'
      /\ lf_rep'.kind = lf_rep.kind
      /\ lf_rep'.sequence = lf_rep.sequence
      /\ lf_rep'.value = [lf_rep.value EXCEPT ![2] = lf_model.writes]
      /\ lf_rep'.holder = lf_rep.holder
      /\ lf_rep'.pc = [lf_rep.pc EXCEPT ![t] = "even"]
      /\ lf_rep'.seq0 = lf_rep.seq0
      /\ lf_rep'.copy = lf_rep.copy
      /\ lf_model'.writes = lf_model.writes
      /\ lf_model'.stored = lf_model.stored
      /\ lf_model'.since = lf_model.since
  BY <1>0, <1>a DEF SeqShape
<1>2. SeqTypeOK'
  BY <1>0, <1>1 DEF SeqTypeOK, SeqPcs, LockFree!NoCopy
<1>3. SeqStore'
  BY <1>0, <1>1 DEF SeqTypeOK, SeqPcs, SeqStore, InStore, StoreAt, LockFree!WriteWord, LockFree!At
<1>4. \A u \in Threads : SeqReader(u)'
  BY <1>0, <1>1 DEF SeqTypeOK, SeqPcs, SeqStore, InStore, StoreAt, SeqReader, LockFree!WriteWord, LockFree!At
<1> QED BY <1>1, <1>2, <1>3, <1>4 DEF SeqInv

\* Load: the number is read first; what was stored before is already counted by it.
LEMMA SeqReadBegin ==
  ASSUME SeqInv, NEW t \in Threads, LockFree!ReadBegin(t)
  PROVE  SeqInv'
<1> USE Assumptions
<1>0. SeqShape /\ SeqTypeOK /\ SeqStore /\ \A u \in Threads : SeqReader(u)
  BY DEF SeqInv
<1>1. /\ SeqShape'
      /\ lf_rep'.kind = lf_rep.kind
      /\ lf_rep'.sequence = lf_rep.sequence
      /\ lf_rep'.value = lf_rep.value
      /\ lf_rep'.holder = lf_rep.holder
      /\ lf_rep'.pc = [lf_rep.pc EXCEPT ![t] = "copy"]
      /\ lf_rep'.seq0 = [lf_rep.seq0 EXCEPT ![t] = lf_rep.sequence]
      /\ lf_rep'.copy = lf_rep.copy
      /\ lf_model'.writes = lf_model.writes
      /\ lf_model'.stored = lf_model.stored
      /\ lf_model'.since = IF lf_rep.pc[t] = "again" THEN lf_model.since
                               ELSE [lf_model.since EXCEPT ![t] = lf_model.stored]
  BY <1>0 DEF SeqShape, LockFree!ReadBegin, LockFree!At, LockFree!NoCopy
<1>2. SeqTypeOK'
  BY <1>0, <1>1 DEF SeqTypeOK, SeqPcs, LockFree!NoCopy
<1>3. SeqStore'
  BY <1>0, <1>1 DEF SeqTypeOK, SeqPcs, SeqStore, InStore, StoreAt, LockFree!ReadBegin, LockFree!At
<1>4. \A u \in Threads : SeqReader(u)'
  BY <1>0, <1>1 DEF SeqTypeOK, SeqPcs, SeqStore, InStore, StoreAt, SeqReader, LockFree!ReadBegin, LockFree!At
<1> QED BY <1>1, <1>2, <1>3, <1>4 DEF SeqInv

\* Load: the first word is copied; under an unchanged even number it is that number's word.
LEMMA SeqReadWord1 ==
  ASSUME SeqInv, NEW t \in Threads, LockFree!ReadWord(t, 1)
  PROVE  SeqInv'
<1> USE Assumptions
<1>0. SeqShape /\ SeqTypeOK /\ SeqStore /\ \A u \in Threads : SeqReader(u)
  BY DEF SeqInv
<1>1. /\ SeqShape'
      /\ lf_rep'.kind = lf_rep.kind
      /\ lf_rep'.sequence = lf_rep.sequence
      /\ lf_rep'.value = lf_rep.value
      /\ lf_rep'.holder = lf_rep.holder
      /\ lf_rep'.pc = [lf_rep.pc EXCEPT ![t] = "copy2"]
      /\ lf_rep'.seq0 = lf_rep.seq0
      /\ lf_rep'.copy = [lf_rep.copy EXCEPT ![t][1] = lf_rep.value[1]]
      /\ lf_model'.writes = lf_model.writes
      /\ lf_model'.stored = lf_model.stored
      /\ lf_model'.since = lf_model.since
  BY <1>0 DEF SeqShape, LockFree!ReadWord, LockFree!At, LockFree!NoCopy
<1>2. SeqTypeOK'
  BY <1>0, <1>1 DEF SeqTypeOK, SeqPcs, LockFree!NoCopy
<1>3. SeqStore'
  BY <1>0, <1>1 DEF SeqTypeOK, SeqPcs, SeqStore, InStore, StoreAt, LockFree!ReadWord, LockFree!At
<1>4. \A u \in Threads : SeqReader(u)'
  BY <1>0, <1>1, SeqStable DEF SeqTypeOK, SeqPcs, SeqReader, LockFree!ReadWord, LockFree!At
<1> QED BY <1>1, <1>2, <1>3, <1>4 DEF SeqInv

\* Load: the second word is copied, with the same argument as the first.
LEMMA SeqReadWord2 ==
  ASSUME SeqInv, NEW t \in Threads, LockFree!ReadWord(t, 2)
  PROVE  SeqInv'
<1> USE Assumptions
<1>0. SeqShape /\ SeqTypeOK /\ SeqStore /\ \A u \in Threads : SeqReader(u)
  BY DEF SeqInv
<1>a. lf_rep' = [lf_rep EXCEPT !.copy[t][2] = lf_rep.value[2], !.pc[t] = "check"] /\ lf_model' = lf_model
  BY DEF LockFree!ReadWord
<1>1. /\ SeqShape'
      /\ lf_rep'.kind = lf_rep.kind
      /\ lf_rep'.sequence = lf_rep.sequence
      /\ lf_rep'.value = lf_rep.value
      /\ lf_rep'.holder = lf_rep.holder
      /\ lf_rep'.pc = [lf_rep.pc EXCEPT ![t] = "check"]
      /\ lf_rep'.seq0 = lf_rep.seq0
      /\ lf_rep'.copy = [lf_rep.copy EXCEPT ![t][2] = lf_rep.value[2]]
      /\ lf_model'.writes = lf_model.writes
      /\ lf_model'.stored = lf_model.stored
      /\ lf_model'.since = lf_model.since
  BY <1>0, <1>a DEF SeqShape
<1>2. SeqTypeOK'
  BY <1>0, <1>1 DEF SeqTypeOK, SeqPcs, LockFree!NoCopy
<1>3. SeqStore'
  BY <1>0, <1>1 DEF SeqTypeOK, SeqPcs, SeqStore, InStore, StoreAt, LockFree!ReadWord, LockFree!At
<1>4. \A u \in Threads : SeqReader(u)'
  BY <1>0, <1>1, SeqStable DEF SeqTypeOK, SeqPcs, SeqReader, LockFree!ReadWord, LockFree!At
<1> QED BY <1>1, <1>2, <1>3, <1>4 DEF SeqInv

\* Load: the second reading of the number agrees and is even, so the copy is whole and not older
\* than the load.
LEMMA SeqReadReturns ==
  ASSUME SeqInv, NEW t \in Threads, LockFree!ReadCheck(t), LockFree!Consistent(lf_rep.seq0[t], lf_rep.sequence)
  PROVE  SeqInv'
<1> USE Assumptions
<1>0. SeqShape /\ SeqTypeOK /\ SeqStore /\ \A u \in Threads : SeqReader(u)
  BY DEF SeqInv
<1>1. /\ SeqShape'
      /\ lf_rep'.kind = lf_rep.kind
      /\ lf_rep'.sequence = lf_rep.sequence
      /\ lf_rep'.value = lf_rep.value
      /\ lf_rep'.holder = lf_rep.holder
      /\ lf_rep'.pc = [lf_rep.pc EXCEPT ![t] = "returned"]
      /\ lf_rep'.seq0 = [lf_rep.seq0 EXCEPT ![t] = 0]
      /\ lf_rep'.copy = [lf_rep.copy EXCEPT ![t] = lf_rep.copy[t]]
      /\ lf_model'.writes = lf_model.writes
      /\ lf_model'.stored = lf_model.stored
      /\ lf_model'.since = lf_model.since
  BY <1>0 DEF SeqShape, LockFree!ReadCheck, LockFree!At, LockFree!Consistent, LockFree!NoCopy
<1>2. SeqTypeOK'
  BY <1>0, <1>1 DEF SeqTypeOK, SeqPcs, LockFree!NoCopy
<1>3. SeqStore'
  BY <1>0, <1>1 DEF SeqTypeOK, SeqPcs, SeqStore, InStore, StoreAt, LockFree!ReadCheck, LockFree!At, LockFree!Consistent
<1>4. \A u \in Threads : SeqReader(u)'
  <2>1. ASSUME NEW u \in Threads, u # t PROVE SeqReader(u)'
    BY <1>0, <1>1, <2>1 DEF SeqTypeOK, SeqReader
  <2>2. /\ 2 * lf_rep.copy[t][1] = lf_rep.seq0[t] /\ 2 * lf_rep.copy[t][2] = lf_rep.seq0[t]
        /\ 2 * lf_model.since[t] <= lf_rep.seq0[t] /\ lf_model.since[t] <= lf_model.stored
    BY <1>0 DEF SeqTypeOK, SeqReader, LockFree!ReadCheck, LockFree!At, LockFree!Consistent
  <2>3. lf_rep'.copy[t] = lf_rep.copy[t] /\ lf_rep'.pc[t] = "returned"
    BY <1>0, <1>1 DEF SeqTypeOK
  <2>4. /\ lf_rep.copy[t][1] \in Nat /\ lf_rep.copy[t][2] \in Nat /\ lf_rep.seq0[t] \in Nat
        /\ lf_model.since[t] \in Nat
    BY <1>0 DEF SeqTypeOK
  <2>5. lf_rep.copy[t][1] = lf_rep.copy[t][2] /\ lf_rep.copy[t][1] >= lf_model.since[t]
    BY <2>2, <2>4
  <2>6. SeqReader(t)'
    BY <1>1, <2>2, <2>3, <2>5 DEF SeqReader
  <2> QED BY <2>1, <2>6
<1> QED BY <1>1, <1>2, <1>3, <1>4 DEF SeqInv

\* Load: the readings differ or are odd, and the copy is thrown away.
LEMMA SeqReadAgain ==
  ASSUME SeqInv, NEW t \in Threads, LockFree!ReadCheck(t), ~LockFree!Consistent(lf_rep.seq0[t], lf_rep.sequence)
  PROVE  SeqInv'
<1> USE Assumptions
<1>0. SeqShape /\ SeqTypeOK /\ SeqStore /\ \A u \in Threads : SeqReader(u)
  BY DEF SeqInv
<1>1. /\ SeqShape'
      /\ lf_rep'.kind = lf_rep.kind
      /\ lf_rep'.sequence = lf_rep.sequence
      /\ lf_rep'.value = lf_rep.value
      /\ lf_rep'.holder = lf_rep.holder
      /\ lf_rep'.pc = [lf_rep.pc EXCEPT ![t] = "again"]
      /\ lf_rep'.seq0 = [lf_rep.seq0 EXCEPT ![t] = 0]
      /\ lf_rep'.copy = [lf_rep.copy EXCEPT ![t] = LockFree!NoCopy]
      /\ lf_model'.writes = lf_model.writes
      /\ lf_model'.stored = lf_model.stored
      /\ lf_model'.since = lf_model.since
  BY <1>0 DEF SeqShape, LockFree!ReadCheck, LockFree!At, LockFree!NoCopy
<1>2. SeqTypeOK'
  BY <1>0, <1>1 DEF SeqTypeOK, SeqPcs, LockFree!NoCopy
<1>3. SeqStore'
  BY <1>0, <1>1 DEF SeqTypeOK, SeqPcs, SeqStore, InStore, StoreAt, LockFree!ReadCheck, LockFree!At
<1>4. \A u \in Threads : SeqReader(u)'
  BY <1>0, <1>1 DEF SeqTypeOK, SeqPcs, SeqStore, InStore, StoreAt, SeqReader, LockFree!ReadCheck, LockFree!At
<1> QED BY <1>1, <1>2, <1>3, <1>4 DEF SeqInv

\* Load: the caller takes the value and may start again.
LEMMA SeqReadDone ==
  ASSUME SeqInv, NEW t \in Threads, LockFree!ReadDone(t)
  PROVE  SeqInv'
<1> USE Assumptions
<1>0. SeqShape /\ SeqTypeOK /\ SeqStore /\ \A u \in Threads : SeqReader(u)
  BY DEF SeqInv
<1>1. /\ SeqShape'
      /\ lf_rep'.kind = lf_rep.kind
      /\ lf_rep'.sequence = lf_rep.sequence
      /\ lf_rep'.value = lf_rep.value
      /\ lf_rep'.holder = lf_rep.holder
      /\ lf_rep'.pc = [lf_rep.pc EXCEPT ![t] = "idle"]
      /\ lf_rep'.seq0 = lf_rep.seq0
      /\ lf_rep'.copy = [lf_rep.copy EXCEPT ![t] = LockFree!NoCopy]
      /\ lf_model'.writes = lf_model.writes
      /\ lf_model'.stored = lf_model.stored
      /\ lf_model'.since = [lf_model.since EXCEPT ![t] = 0]
  BY <1>0 DEF SeqShape, LockFree!ReadDone, LockFree!At, LockFree!NoCopy
<1>2. SeqTypeOK'
  BY <1>0, <1>1 DEF SeqTypeOK, SeqPcs, LockFree!NoCopy
<1>3. SeqStore'
  BY <1>0, <1>1 DEF SeqTypeOK, SeqPcs, SeqStore, InStore, StoreAt, LockFree!ReadDone, LockFree!At
<1>4. \A u \in Threads : SeqReader(u)'
  BY <1>0, <1>1 DEF SeqTypeOK, SeqPcs, SeqStore, InStore, StoreAt, SeqReader, LockFree!ReadDone, LockFree!At
<1> QED BY <1>1, <1>2, <1>3, <1>4 DEF SeqInv

\* Every step of a sequence lock preserves its invariant.
LEMMA SeqInductive == SeqInv /\ [LockFree!SeqNext]_lfVars => SeqInv'
<1> SUFFICES ASSUME SeqInv, [LockFree!SeqNext]_lfVars PROVE SeqInv'
  OBVIOUS
<1>1. ASSUME NEW t \in Threads, LockFree!ReadCheck(t) PROVE SeqInv'
  BY <1>1, SeqReadReturns, SeqReadAgain
<1>2. ASSUME NEW t \in Threads, NEW w \in LockFree!Words,
             LockFree!WriteWord(t, w) \/ LockFree!ReadWord(t, w)
      PROVE  SeqInv'
  BY <1>2, Assumptions, SeqWriteWord1, SeqWriteWord2, SeqReadWord1, SeqReadWord2
<1>3. CASE UNCHANGED lfVars
  BY <1>3 DEF lfVars, SeqInv, SeqShape, SeqTypeOK, SeqStore, SeqReader, StoreAt, InStore
<1>4. CASE LockFree!SeqNext
  BY <1>4, <1>1, <1>2, SeqWriteLock, SeqWriteOdd, SeqWriteEven, SeqWriteUnlock, SeqReadBegin, SeqReadDone
  DEF LockFree!SeqNext
<1> QED BY <1>3, <1>4

-----------------------------------------------------------------------------
(* urcu_easy                                                               *)

\* Where a thread of urcu_easy is.
RcuPcs == {"idle", "enter", "lock", "flip", "wait", "returned"}
\* The bit above the nesting count, which holds the phase.
B == MaxNest + 1
\* How many threads there are.
N == Cardinality(Threads)
\* The places of the readers' table.
Slots == 0 .. N - 1

\* The fields of the two records that the steps of urcu_easy keep.
RcuShape ==
  /\ lf_rep = [gp_ctr |-> lf_rep.gp_ctr, num |-> lf_rep.num, id |-> lf_rep.id,
               reader_gp |-> lf_rep.reader_gp, gp_lock |-> lf_rep.gp_lock, pc |-> lf_rep.pc,
               tmp |-> lf_rep.tmp, at |-> lf_rep.at, flips |-> lf_rep.flips]
  /\ lf_model = [syncs |-> lf_model.syncs, old |-> lf_model.old]
\* What those fields hold: a counter is a phase bit over a nesting count.
RcuTypeOK ==
  /\ lf_rep.gp_ctr \in {1, B + 1} /\ lf_rep.num \in Nat /\ lf_rep.id \in [Threads -> Int]
  /\ lf_rep.reader_gp \in [Slots -> 0 .. 2 * B - 1] /\ lf_rep.gp_lock \in Threads \cup {0}
  /\ lf_rep.pc \in [Threads -> RcuPcs] /\ lf_rep.tmp \in [Threads -> Nat]
  /\ lf_rep.at \in Nat /\ lf_rep.flips \in 0 .. 2
  /\ lf_model.syncs \in Nat /\ lf_model.old \in [Threads -> SUBSET Threads]

\* The threads that rcu_thread_register gave a slot.
Registered == {t \in Threads : lf_rep.id[t] # -1}
\* Each registered thread has a slot of its own, among the slots given out.
RcuIds ==
  /\ \A t \in Registered : lf_rep.id[t] \in Slots /\ lf_rep.id[t] < lf_rep.num
  /\ \A t, u \in Registered : lf_rep.id[t] = lf_rep.id[u] => t = u
  /\ lf_rep.num = Cardinality(Registered)

\* Who is in a read section, and whose counter has the phase of gp_ctr.
Readers == {t \in Registered : lf_rep.reader_gp[lf_rep.id[t]] \notin {0, B}}
Current == {t \in Registered : lf_rep.reader_gp[lf_rep.id[t]] < B <=> lf_rep.gp_ctr < B}

\* Only a thread that is outside synchronize_rcu and past the store of rcu_read_lock has a section
\* open, and the sections a grace period waits for are open.
RcuReaders ==
  \A t \in Threads :
    /\ lf_rep.pc[t] = "enter" => t \in Registered /\ lf_rep.tmp[t] \in {1, B + 1}
    /\ lf_rep.pc[t] # "idle" => t \notin Readers
    /\ lf_model.old[t] \subseteq Readers
\* Who flips and waits in synchronize_rcu holds the mutex, and nobody else does.
RcuLock ==
  /\ \A t \in Threads : lf_rep.pc[t] \in {"flip", "wait"} <=> lf_rep.gp_lock = t
  /\ lf_rep.gp_lock = 0 => lf_rep.flips = 0
\* How far a grace period has got: which of the old readers it has left to wait for, in the first
\* phase and in the second.
Waited(t) ==
  /\ lf_rep.pc[t] \in {"idle", "enter", "returned"} => lf_model.old[t] = {}
  /\ lf_rep.pc[t] = "wait" => lf_rep.flips > 0
  /\ lf_rep.pc[t] = "flip" /\ lf_rep.flips = 1 => lf_model.old[t] \subseteq Current
  /\ lf_rep.pc[t] = "flip" /\ lf_rep.flips = 2 => lf_model.old[t] = {}
  /\ lf_rep.pc[t] = "wait" /\ lf_rep.flips = 1 =>
       \A u \in lf_model.old[t] : lf_rep.id[u] < lf_rep.at => u \in Current
  /\ lf_rep.pc[t] = "wait" /\ lf_rep.flips = 2 =>
       \A u \in lf_model.old[t] : lf_rep.id[u] >= lf_rep.at /\ u \notin Current

\* The inductive invariant of urcu_easy.
RcuInv ==
  /\ RcuShape /\ RcuTypeOK /\ RcuIds /\ RcuReaders /\ RcuLock
  /\ \A t \in Threads : Waited(t)


\* The suite's instance of LockFree counts as FiniteSets does.
LEMMA SameCardinality == \A S : LockFree!Cardinality(S) = Cardinality(S)
  BY Zenon DEF LockFree!Cardinality, Cardinality

\* The threads are 1 .. N, and the phase bit lies above every nesting count.
LEMMA RcuConstants ==
  /\ B \in Nat /\ B >= 2 /\ MaxNest = B - 1 /\ N \in Nat /\ Threads = 1 .. N /\ IsFiniteSet(Threads)
  /\ LockFree!BOTTOM_BIT = B
<1>1. LockFree!LockFreeAssumption
  BY LockFreeSuiteAssumption DEF LockFreeSuiteAssumption
<1>2. N \in Nat /\ Threads = 1 .. N /\ MaxNest \in Nat \ {0}
  BY <1>1, SameCardinality DEF LockFree!LockFreeAssumption, N
<1> QED BY <1>2, FS_Interval DEF B, LockFree!BOTTOM_BIT

\* The part of RcuConstants that arithmetic on counters needs.
LEMMA PhaseBit == B \in Nat /\ B >= 2 /\ MaxNest = B - 1
  BY RcuConstants

\* The phase and the depth of a counter.
LEMMA Bits ==
  ASSUME NEW v \in 0 .. 2 * B - 1
  PROVE  /\ LockFree!NEST_MASK(v) = IF v < B THEN v ELSE v - B
         /\ LockFree!Phase(v) = IF v < B THEN 0 ELSE 1
<1> DEFINE b == B
<1>1. b \in Nat /\ b >= 2 /\ v \in Nat /\ v < 2 * b
  BY RcuConstants
<1> HIDE DEF b
<1>2. v % b = (IF v < b THEN v ELSE v - b) /\ v \div b = (IF v < b THEN 0 ELSE 1)
  BY <1>1
<1> QED BY <1>2, RcuConstants DEF LockFree!NEST_MASK, LockFree!Phase, b

\* Entering and leaving a section keep the phase.
LEMMA OneMore ==
  ASSUME NEW v \in 0 .. 2 * B - 1, v \notin {0, B}, (IF v < B THEN v ELSE v - B) < MaxNest
  PROVE  /\ v + 1 \in 0 .. 2 * B - 1 /\ v + 1 \notin {0, B}
         /\ v + 1 < B <=> v < B
<1>1. v \in Nat /\ v < 2 * B /\ v # 0 /\ v # B
  BY PhaseBit
<1> QED BY <1>1, PhaseBit

\* Leaving one level keeps the phase, and empties the count exactly at the outermost level.
LEMMA OneLess ==
  ASSUME NEW v \in 0 .. 2 * B - 1, v \notin {0, B}
  PROVE  /\ v - 1 \in 0 .. 2 * B - 1
         /\ v - 1 < B <=> v < B
         /\ (IF v < B THEN v ELSE v - B) > 1 <=> v - 1 \notin {0, B}
<1>1. v \in Nat /\ v < 2 * B /\ v # 0 /\ v # B
  BY PhaseBit
<1> QED BY <1>1, PhaseBit

\* At first no thread is registered and no section is open.
LEMMA RcuBegins == LockFree!RcuInit => RcuInv
<1> SUFFICES ASSUME LockFree!RcuInit PROVE RcuInv
  OBVIOUS
<1>0. RcuShape
  BY DEF RcuShape, LockFree!RcuInit
<1>1. RcuTypeOK
  BY SameCardinality, RcuConstants, Assumptions DEF RcuTypeOK, LockFree!RcuInit, RcuPcs, Slots, N
<1>2. Registered = {}
  BY DEF Registered, LockFree!RcuInit
<1>3. RcuIds
  BY <1>2, FS_EmptySet DEF RcuIds, LockFree!RcuInit
<1>4. RcuReaders /\ RcuLock /\ \A t \in Threads : Waited(t)
  BY Assumptions DEF RcuReaders, RcuLock, Waited, LockFree!RcuInit
<1> QED BY <1>0, <1>1, <1>3, <1>4 DEF RcuInv

\* The counter of a registered thread, and what the code tests of it.
LEMMA RcuReading ==
  ASSUME RcuTypeOK, RcuIds, NEW t \in Threads
  PROVE  /\ LockFree!Reading(t) <=> t \in Readers
         /\ t \in Registered => lf_rep.reader_gp[lf_rep.id[t]] \in 0 .. 2 * B - 1
<1>1. t \in Registered => lf_rep.reader_gp[lf_rep.id[t]] \in 0 .. 2 * B - 1
  BY DEF RcuTypeOK, RcuIds
<1>2. t \in Registered =>
        LockFree!NEST_MASK(lf_rep.reader_gp[lf_rep.id[t]])
          = IF lf_rep.reader_gp[lf_rep.id[t]] < B THEN lf_rep.reader_gp[lf_rep.id[t]]
            ELSE lf_rep.reader_gp[lf_rep.id[t]] - B
  BY <1>1, Bits
<1> QED BY <1>1, <1>2, RcuConstants DEF LockFree!Reading, LockFree!Mine, Readers, Registered

\* A step that leaves the counters alone, and one that changes the counter of t only.
LEMMA RcuSame ==
  ASSUME lf_rep'.id = lf_rep.id, lf_rep'.reader_gp = lf_rep.reader_gp, lf_rep'.gp_ctr = lf_rep.gp_ctr
  PROVE  Registered' = Registered /\ Readers' = Readers /\ Current' = Current
  BY DEF Registered, Readers, Current

\* A step that gives no slot keeps the slots.
LEMMA RcuIdsKept ==
  ASSUME RcuIds, lf_rep'.id = lf_rep.id, lf_rep'.num = lf_rep.num
  PROVE  RcuIds' /\ Registered' = Registered
<1>1. Registered' = Registered
  BY DEF Registered
<1> QED BY <1>1 DEF RcuIds

\* A step that writes one thread's counter changes that thread's standing and no other's.
LEMMA RcuOthers ==
  ASSUME RcuTypeOK, RcuIds, NEW t \in Registered, NEW v,
         lf_rep'.id = lf_rep.id, lf_rep'.gp_ctr = lf_rep.gp_ctr,
         lf_rep'.reader_gp = [lf_rep.reader_gp EXCEPT ![lf_rep.id[t]] = v]
  PROVE  /\ Registered' = Registered
         /\ t \in Readers' <=> v \notin {0, B}
         /\ t \in Current' <=> (v < B <=> lf_rep.gp_ctr < B)
         /\ \A u \in Threads : u # t => (u \in Readers' <=> u \in Readers)
         /\ \A u \in Threads : u # t => (u \in Current' <=> u \in Current)
<1>1. Registered' = Registered
  BY DEF Registered
<1>2. lf_rep'.reader_gp[lf_rep'.id[t]] = v
  BY DEF RcuTypeOK, RcuIds
<1>3. ASSUME NEW u \in Registered, u # t
      PROVE  lf_rep'.reader_gp[lf_rep'.id[u]] = lf_rep.reader_gp[lf_rep.id[u]]
  <2>1. lf_rep.id[u] # lf_rep.id[t] /\ lf_rep.id[u] \in Slots
    BY <1>3 DEF RcuIds
  <2> QED BY <2>1 DEF RcuTypeOK
<1>4. t \in Readers' <=> v \notin {0, B}
  BY <1>1, <1>2 DEF Readers
<1>5. t \in Current' <=> (v < B <=> lf_rep.gp_ctr < B)
  BY <1>1, <1>2 DEF Current
<1>6. \A u \in Threads : u # t => (u \in Readers' <=> u \in Readers)
  BY <1>1, <1>3 DEF Readers
<1>7. \A u \in Threads : u # t => (u \in Current' <=> u \in Current)
  BY <1>1, <1>3 DEF Current
<1> QED BY <1>1, <1>4, <1>5, <1>6, <1>7

\* rcu_read_lock, outermost: the global counter is read and not yet stored, so the section is not
\* open.
LEMMA RcuOuter ==
  ASSUME RcuInv, NEW t \in Threads, LockFree!ReadLockOuter(t)
  PROVE  RcuInv'
<1>0. RcuShape /\ RcuTypeOK /\ RcuIds /\ RcuReaders /\ RcuLock /\ \A u \in Threads : Waited(u)
  BY DEF RcuInv
<1>g. lf_rep.pc[t] = "idle" /\ lf_rep.id[t] # -1 /\ t \notin Readers
  BY <1>0, RcuReading DEF LockFree!ReadLockOuter, LockFree!At, LockFree!Nobody
<1>n. lf_rep.gp_ctr \in Nat
  <2>1. lf_rep.gp_ctr \in {1, B + 1}
    BY <1>0 DEF RcuTypeOK
  <2> QED BY <2>1, PhaseBit
<1>1. /\ RcuShape'
      /\ lf_rep'.gp_ctr = lf_rep.gp_ctr
      /\ lf_rep'.num = lf_rep.num
      /\ lf_rep'.id = lf_rep.id
      /\ lf_rep'.reader_gp = lf_rep.reader_gp
      /\ lf_rep'.gp_lock = lf_rep.gp_lock
      /\ lf_rep'.pc = [lf_rep.pc EXCEPT ![t] = "enter"]
      /\ lf_rep'.tmp = [lf_rep.tmp EXCEPT ![t] = lf_rep.gp_ctr]
      /\ lf_rep'.at = lf_rep.at
      /\ lf_rep'.flips = lf_rep.flips
      /\ lf_model'.syncs = lf_model.syncs
      /\ lf_model'.old = lf_model.old
  BY <1>0 DEF RcuShape, LockFree!ReadLockOuter, LockFree!At, LockFree!Nobody
<1>e. Registered' = Registered /\ Readers' = Readers /\ Current' = Current
  BY <1>1, RcuSame
<1>2. RcuTypeOK'
  BY <1>0, <1>1, <1>g, <1>n DEF RcuTypeOK, RcuPcs
<1>3. RcuIds'
  BY <1>0, <1>1, RcuIdsKept
<1>4. RcuReaders'
  BY <1>0, <1>1, <1>g, <1>e DEF RcuTypeOK, RcuReaders, Registered
<1>5. RcuLock'
  BY <1>0, <1>1, <1>g, Assumptions DEF RcuTypeOK, RcuLock
<1>6. \A u \in Threads : Waited(u)'
  BY <1>0, <1>1, <1>g, <1>e, Assumptions DEF RcuTypeOK, RcuLock, RcuReaders, Waited
<1> QED BY <1>1, <1>2, <1>3, <1>4, <1>5, <1>6 DEF RcuInv

\* synchronize_rcu starts: the sections open now are the ones it must wait for.
LEMMA RcuCall ==
  ASSUME RcuInv, NEW t \in Threads, LockFree!synchronize_rcu(t)
  PROVE  RcuInv'
<1>0. RcuShape /\ RcuTypeOK /\ RcuIds /\ RcuReaders /\ RcuLock /\ \A u \in Threads : Waited(u)
  BY DEF RcuInv
<1>g. lf_rep.pc[t] = "idle" /\ t \notin Readers /\ {u \in Threads : LockFree!Reading(u)} \subseteq Readers
  BY <1>0, RcuReading DEF LockFree!synchronize_rcu, LockFree!At, LockFree!Nobody
<1>1. /\ RcuShape'
      /\ lf_rep'.gp_ctr = lf_rep.gp_ctr
      /\ lf_rep'.num = lf_rep.num
      /\ lf_rep'.id = lf_rep.id
      /\ lf_rep'.reader_gp = lf_rep.reader_gp
      /\ lf_rep'.gp_lock = lf_rep.gp_lock
      /\ lf_rep'.pc = [lf_rep.pc EXCEPT ![t] = "lock"]
      /\ lf_rep'.tmp = lf_rep.tmp
      /\ lf_rep'.at = lf_rep.at
      /\ lf_rep'.flips = lf_rep.flips
      /\ lf_model'.syncs = lf_model.syncs + 1
      /\ lf_model'.old = [lf_model.old EXCEPT ![t] = {u \in Threads : LockFree!Reading(u)}]
  BY <1>0 DEF RcuShape, LockFree!synchronize_rcu, LockFree!At, LockFree!Nobody
<1>e. Registered' = Registered /\ Readers' = Readers /\ Current' = Current
  BY <1>1, RcuSame
<1>2. RcuTypeOK'
  BY <1>0, <1>1, <1>g DEF RcuTypeOK, RcuPcs
<1>3. RcuIds'
  BY <1>0, <1>1, RcuIdsKept
<1>4. RcuReaders'
  BY <1>0, <1>1, <1>g, <1>e DEF RcuTypeOK, RcuReaders
<1>5. RcuLock'
  BY <1>0, <1>1, <1>g, Assumptions DEF RcuTypeOK, RcuLock
<1>6. \A u \in Threads : Waited(u)'
  BY <1>0, <1>1, <1>g, <1>e, Assumptions DEF RcuTypeOK, RcuLock, RcuReaders, Waited
<1> QED BY <1>1, <1>2, <1>3, <1>4, <1>5, <1>6 DEF RcuInv

\* synchronize_rcu takes the mutex.
LEMMA RcuLocks ==
  ASSUME RcuInv, NEW t \in Threads, LockFree!SyncLock(t)
  PROVE  RcuInv'
<1>0. RcuShape /\ RcuTypeOK /\ RcuIds /\ RcuReaders /\ RcuLock /\ \A u \in Threads : Waited(u)
  BY DEF RcuInv
<1>g. lf_rep.pc[t] = "lock" /\ lf_rep.gp_lock = 0
  BY <1>0, RcuReading DEF LockFree!SyncLock, LockFree!At, LockFree!Nobody
<1>1. /\ RcuShape'
      /\ lf_rep'.gp_ctr = lf_rep.gp_ctr
      /\ lf_rep'.num = lf_rep.num
      /\ lf_rep'.id = lf_rep.id
      /\ lf_rep'.reader_gp = lf_rep.reader_gp
      /\ lf_rep'.gp_lock = t
      /\ lf_rep'.pc = [lf_rep.pc EXCEPT ![t] = "flip"]
      /\ lf_rep'.tmp = lf_rep.tmp
      /\ lf_rep'.at = lf_rep.at
      /\ lf_rep'.flips = lf_rep.flips
      /\ lf_model'.syncs = lf_model.syncs
      /\ lf_model'.old = lf_model.old
  BY <1>0 DEF RcuShape, LockFree!SyncLock, LockFree!At, LockFree!Nobody
<1>e. Registered' = Registered /\ Readers' = Readers /\ Current' = Current
  BY <1>1, RcuSame
<1>2. RcuTypeOK'
  BY <1>0, <1>1, <1>g DEF RcuTypeOK, RcuPcs
<1>3. RcuIds'
  BY <1>0, <1>1, RcuIdsKept
<1>4. RcuReaders'
  BY <1>0, <1>1, <1>g, <1>e DEF RcuTypeOK, RcuReaders
<1>5. RcuLock'
  BY <1>0, <1>1, <1>g, Assumptions DEF RcuTypeOK, RcuLock
<1>6. \A u \in Threads : Waited(u)'
  BY <1>0, <1>1, <1>g, <1>e, Assumptions DEF RcuTypeOK, RcuLock, RcuReaders, Waited
<1> QED BY <1>1, <1>2, <1>3, <1>4, <1>5, <1>6 DEF RcuInv

\* synchronize_rcu returns after its second phase: none of the sections it had to wait for is open.
LEMMA RcuReturns ==
  ASSUME RcuInv, NEW t \in Threads, LockFree!SyncReturn(t)
  PROVE  RcuInv'
<1>0. RcuShape /\ RcuTypeOK /\ RcuIds /\ RcuReaders /\ RcuLock /\ \A u \in Threads : Waited(u)
  BY DEF RcuInv
<1>g. lf_rep.pc[t] = "flip" /\ lf_rep.flips = 2
  BY <1>0, RcuReading DEF LockFree!SyncReturn, LockFree!At, LockFree!Nobody, LockFree!Flips
<1>1. /\ RcuShape'
      /\ lf_rep'.gp_ctr = lf_rep.gp_ctr
      /\ lf_rep'.num = lf_rep.num
      /\ lf_rep'.id = lf_rep.id
      /\ lf_rep'.reader_gp = lf_rep.reader_gp
      /\ lf_rep'.gp_lock = 0
      /\ lf_rep'.pc = [lf_rep.pc EXCEPT ![t] = "returned"]
      /\ lf_rep'.tmp = lf_rep.tmp
      /\ lf_rep'.at = 0
      /\ lf_rep'.flips = 0
      /\ lf_model'.syncs = lf_model.syncs
      /\ lf_model'.old = lf_model.old
  BY <1>0 DEF RcuShape, LockFree!SyncReturn, LockFree!At, LockFree!Nobody, LockFree!Flips
<1>e. Registered' = Registered /\ Readers' = Readers /\ Current' = Current
  BY <1>1, RcuSame
<1>2. RcuTypeOK'
  BY <1>0, <1>1, <1>g DEF RcuTypeOK, RcuPcs
<1>3. RcuIds'
  BY <1>0, <1>1, RcuIdsKept
<1>4. RcuReaders'
  BY <1>0, <1>1, <1>g, <1>e DEF RcuTypeOK, RcuReaders
<1>5. RcuLock'
  BY <1>0, <1>1, <1>g, Assumptions DEF RcuTypeOK, RcuLock
<1>6. \A u \in Threads : Waited(u)'
  BY <1>0, <1>1, <1>g, <1>e, Assumptions DEF RcuTypeOK, RcuLock, RcuReaders, Waited
<1> QED BY <1>1, <1>2, <1>3, <1>4, <1>5, <1>6 DEF RcuInv

\* The caller of synchronize_rcu goes on.
LEMMA RcuDone ==
  ASSUME RcuInv, NEW t \in Threads, LockFree!SyncDone(t)
  PROVE  RcuInv'
<1>0. RcuShape /\ RcuTypeOK /\ RcuIds /\ RcuReaders /\ RcuLock /\ \A u \in Threads : Waited(u)
  BY DEF RcuInv
<1>g. lf_rep.pc[t] = "returned"
  BY <1>0, RcuReading DEF LockFree!SyncDone, LockFree!At, LockFree!Nobody
<1>1. /\ RcuShape'
      /\ lf_rep'.gp_ctr = lf_rep.gp_ctr
      /\ lf_rep'.num = lf_rep.num
      /\ lf_rep'.id = lf_rep.id
      /\ lf_rep'.reader_gp = lf_rep.reader_gp
      /\ lf_rep'.gp_lock = lf_rep.gp_lock
      /\ lf_rep'.pc = [lf_rep.pc EXCEPT ![t] = "idle"]
      /\ lf_rep'.tmp = lf_rep.tmp
      /\ lf_rep'.at = lf_rep.at
      /\ lf_rep'.flips = lf_rep.flips
      /\ lf_model'.syncs = lf_model.syncs
      /\ lf_model'.old = [lf_model.old EXCEPT ![t] = {}]
  BY <1>0 DEF RcuShape, LockFree!SyncDone, LockFree!At, LockFree!Nobody
<1>e. Registered' = Registered /\ Readers' = Readers /\ Current' = Current
  BY <1>1, RcuSame
<1>2. RcuTypeOK'
  BY <1>0, <1>1, <1>g DEF RcuTypeOK, RcuPcs
<1>3. RcuIds'
  BY <1>0, <1>1, RcuIdsKept
<1>4. RcuReaders'
  BY <1>0, <1>1, <1>g, <1>e DEF RcuTypeOK, RcuReaders
<1>5. RcuLock'
  BY <1>0, <1>1, <1>g, Assumptions DEF RcuTypeOK, RcuLock
<1>6. \A u \in Threads : Waited(u)'
  BY <1>0, <1>1, <1>g, <1>e, Assumptions DEF RcuTypeOK, RcuLock, RcuReaders, Waited
<1> QED BY <1>1, <1>2, <1>3, <1>4, <1>5, <1>6 DEF RcuInv

\* rcu_thread_register gives the thread the next slot, with no section open.
LEMMA RcuRegister ==
  ASSUME RcuInv, NEW t \in Threads, LockFree!rcu_thread_register(t)
  PROVE  RcuInv'
<1>0. RcuShape /\ RcuTypeOK /\ RcuIds /\ RcuReaders /\ RcuLock /\ \A u \in Threads : Waited(u)
  BY DEF RcuInv
<1>g. lf_rep.pc[t] = "idle" /\ lf_rep.id[t] = -1 /\ lf_rep.gp_lock = 0
  BY <1>0, RcuReading DEF LockFree!rcu_thread_register, LockFree!At, LockFree!Nobody
<1>1. /\ RcuShape'
      /\ lf_rep'.gp_ctr = lf_rep.gp_ctr
      /\ lf_rep'.num = lf_rep.num + 1
      /\ lf_rep'.id = [lf_rep.id EXCEPT ![t] = lf_rep.num]
      /\ lf_rep'.reader_gp = lf_rep.reader_gp
      /\ lf_rep'.gp_lock = lf_rep.gp_lock
      /\ lf_rep'.pc = lf_rep.pc
      /\ lf_rep'.tmp = lf_rep.tmp
      /\ lf_rep'.at = lf_rep.at
      /\ lf_rep'.flips = lf_rep.flips
      /\ lf_model'.syncs = lf_model.syncs
      /\ lf_model'.old = lf_model.old
  BY <1>0 DEF RcuShape, LockFree!rcu_thread_register, LockFree!At, LockFree!Nobody
<1>e. Registered' = Registered \cup {t} /\ t \notin Registered
  BY <1>0, <1>1, <1>g DEF RcuTypeOK, Registered
<1>c. /\ IsFiniteSet(Registered) /\ Cardinality(Registered') = Cardinality(Registered) + 1
      /\ Cardinality(Registered') <= N
  <2>1. Registered \subseteq Threads /\ Registered' \subseteq Threads /\ IsFiniteSet(Threads)
    BY RcuConstants DEF Registered
  <2>2. IsFiniteSet(Registered)
    BY <2>1, FS_Subset
  <2>3. Cardinality(Registered') <= Cardinality(Threads)
    BY <2>1, FS_Subset
  <2>4. Cardinality(Registered \cup {t}) = Cardinality(Registered) + 1
    BY <2>2, <1>e, FS_AddElement
  <2> QED BY <2>2, <2>3, <2>4, <1>e DEF N
<1>n. lf_rep.num \in Slots
  BY <1>0, <1>c, RcuConstants DEF RcuTypeOK, RcuIds, Slots
<1>f. /\ \A u \in Registered : lf_rep'.id[u] = lf_rep.id[u]
      /\ lf_rep'.id[t] = lf_rep.num
  BY <1>0, <1>1, <1>e DEF RcuTypeOK, Registered
<1>s. /\ \A u \in Registered : u \in Readers' <=> u \in Readers
      /\ \A u \in Registered : u \in Current' <=> u \in Current
  BY <1>1, <1>e, <1>f DEF Readers, Current
<1>r. Readers \subseteq Registered
  BY DEF Readers
<1>2. RcuTypeOK'
  BY <1>0, <1>1, <1>g DEF RcuTypeOK, RcuPcs
<1>3. RcuIds'
  <2>1. \A u \in Registered' : lf_rep'.id[u] \in Slots /\ lf_rep'.id[u] < lf_rep'.num
    BY <1>0, <1>1, <1>e, <1>f, <1>n DEF RcuIds, Slots, RcuTypeOK
  <2>2. \A u, w \in Registered' : lf_rep'.id[u] = lf_rep'.id[w] => u = w
    BY <1>0, <1>1, <1>e, <1>f, <1>n DEF RcuIds, Slots, RcuTypeOK
  <2>3. lf_rep'.num = Cardinality(Registered')
    BY <1>0, <1>1, <1>c DEF RcuIds
  <2> QED BY <2>1, <2>2, <2>3 DEF RcuIds
<1>4. RcuReaders'
  <2>1. \A u \in Threads : lf_rep.pc[u] # "idle" => u \notin Readers'
    BY <1>0, <1>1, <1>g, <1>e, <1>s DEF RcuReaders, Readers
  <2>2. \A u \in Threads : lf_model.old[u] \subseteq Readers'
    BY <1>0, <1>s, <1>r DEF RcuReaders
  <2> QED BY <1>0, <1>1, <1>e, <2>1, <2>2 DEF RcuReaders
<1>5. RcuLock'
  BY <1>0, <1>1, <1>g, Assumptions DEF RcuTypeOK, RcuLock
<1>6. \A u \in Threads : Waited(u)'
  <2>1. \A u \in Threads : lf_model.old[u] \subseteq Registered
    BY <1>0, <1>r DEF RcuReaders
  <2>2. \A u \in Threads : lf_rep.pc[u] \notin {"flip", "wait"}
    BY <1>0, <1>g, Assumptions DEF RcuLock
  <2> QED BY <1>0, <1>1, <2>2 DEF Waited
<1> QED BY <1>1, <1>2, <1>3, <1>4, <1>5, <1>6 DEF RcuInv

\* rcu_read_lock, outermost: the value read before is stored, perhaps after the phase was flipped.
\* This is why one phase is not enough.
LEMMA RcuStore ==
  ASSUME RcuInv, NEW t \in Threads, LockFree!ReadLockStore(t)
  PROVE  RcuInv'
<1>0. RcuShape /\ RcuTypeOK /\ RcuIds /\ RcuReaders /\ RcuLock /\ \A u \in Threads : Waited(u)
  BY DEF RcuInv
<1>g. lf_rep.pc[t] = "enter"
  BY <1>0, RcuReading DEF LockFree!ReadLockStore, LockFree!At, LockFree!Nobody
<1>h. /\ t \in Registered /\ lf_rep.tmp[t] \in {1, B + 1} /\ t \notin Readers
      /\ lf_rep.tmp[t] \in 0 .. 2 * B - 1 /\ lf_rep.tmp[t] \notin {0, B}
  BY <1>0, <1>g, RcuConstants DEF RcuReaders
<1>1. /\ RcuShape'
      /\ lf_rep'.gp_ctr = lf_rep.gp_ctr
      /\ lf_rep'.num = lf_rep.num
      /\ lf_rep'.id = lf_rep.id
      /\ lf_rep'.reader_gp = [lf_rep.reader_gp EXCEPT ![lf_rep.id[t]] = lf_rep.tmp[t]]
      /\ lf_rep'.gp_lock = lf_rep.gp_lock
      /\ lf_rep'.pc = [lf_rep.pc EXCEPT ![t] = "idle"]
      /\ lf_rep'.tmp = [lf_rep.tmp EXCEPT ![t] = 0]
      /\ lf_rep'.at = lf_rep.at
      /\ lf_rep'.flips = lf_rep.flips
      /\ lf_model'.syncs = lf_model.syncs
      /\ lf_model'.old = lf_model.old
  BY <1>0 DEF RcuShape, LockFree!ReadLockStore, LockFree!At, LockFree!Nobody
<1>e. /\ Registered' = Registered
      /\ \A u \in Threads : u # t => (u \in Readers' <=> u \in Readers)
      /\ \A u \in Threads : u # t => (u \in Current' <=> u \in Current)
  BY <1>0, <1>1, <1>h, RcuOthers
<1>2. RcuTypeOK'
  <2>1. lf_rep'.reader_gp \in [Slots -> 0 .. 2 * B - 1]
    BY <1>0, <1>1, <1>h DEF RcuTypeOK
  <2> QED BY <1>0, <1>1, <1>g, <2>1 DEF RcuTypeOK, RcuPcs
<1>3. RcuIds'
  BY <1>0, <1>1, RcuIdsKept
<1>4. RcuReaders'
  BY <1>0, <1>1, <1>g, <1>h, <1>e DEF RcuTypeOK, RcuReaders
<1>5. RcuLock'
  BY <1>0, <1>1, <1>g, Assumptions DEF RcuTypeOK, RcuLock
<1>6. \A u \in Threads : Waited(u)'
  <2>1. \A u \in Threads : t \notin lf_model.old[u] /\ lf_model.old[u] \subseteq Threads
    BY <1>0, <1>h DEF RcuReaders, RcuTypeOK
  <2> QED BY <1>0, <1>1, <1>g, <1>e, <2>1 DEF RcuTypeOK, Waited
<1> QED BY <1>1, <1>2, <1>3, <1>4, <1>5, <1>6 DEF RcuInv

\* rcu_read_lock inside a section adds a level and keeps the phase.
LEMMA RcuInner ==
  ASSUME RcuInv, NEW t \in Threads, LockFree!ReadLockInner(t)
  PROVE  RcuInv'
<1>0. RcuShape /\ RcuTypeOK /\ RcuIds /\ RcuReaders /\ RcuLock /\ \A u \in Threads : Waited(u)
  BY DEF RcuInv
<1>g. lf_rep.pc[t] = "idle" /\ t \in Readers /\ LockFree!NEST_MASK(lf_rep.reader_gp[lf_rep.id[t]]) < MaxNest
  BY <1>0, RcuReading DEF LockFree!ReadLockInner, LockFree!At, LockFree!Mine, LockFree!Nobody
<1>h. t \in Registered /\ lf_rep.reader_gp[lf_rep.id[t]] \in 0 .. 2 * B - 1 /\ lf_rep.reader_gp[lf_rep.id[t]] \notin {0, B}
  BY <1>0, <1>g, RcuReading DEF Readers
<1>b. LockFree!NEST_MASK(lf_rep.reader_gp[lf_rep.id[t]]) = IF lf_rep.reader_gp[lf_rep.id[t]] < B THEN lf_rep.reader_gp[lf_rep.id[t]] ELSE lf_rep.reader_gp[lf_rep.id[t]] - B
  BY <1>h, Bits
<1>n. /\ lf_rep.reader_gp[lf_rep.id[t]] + 1 \in 0 .. 2 * B - 1 /\ lf_rep.reader_gp[lf_rep.id[t]] + 1 \notin {0, B}
      /\ lf_rep.reader_gp[lf_rep.id[t]] + 1 < B <=> lf_rep.reader_gp[lf_rep.id[t]] < B
  BY <1>g, <1>h, <1>b, OneMore
<1>1. /\ RcuShape'
      /\ lf_rep'.gp_ctr = lf_rep.gp_ctr
      /\ lf_rep'.num = lf_rep.num
      /\ lf_rep'.id = lf_rep.id
      /\ lf_rep'.reader_gp = [lf_rep.reader_gp EXCEPT ![lf_rep.id[t]] = lf_rep.reader_gp[lf_rep.id[t]] + 1]
      /\ lf_rep'.gp_lock = lf_rep.gp_lock
      /\ lf_rep'.pc = lf_rep.pc
      /\ lf_rep'.tmp = lf_rep.tmp
      /\ lf_rep'.at = lf_rep.at
      /\ lf_rep'.flips = lf_rep.flips
      /\ lf_model'.syncs = lf_model.syncs
      /\ lf_model'.old = lf_model.old
  BY <1>0 DEF RcuShape, LockFree!ReadLockInner, LockFree!At, LockFree!Mine, LockFree!Nobody
<1>o. /\ Registered' = Registered /\ t \in Readers'
      /\ t \in Current' <=> (lf_rep.reader_gp[lf_rep.id[t]] + 1 < B <=> lf_rep.gp_ctr < B)
      /\ \A u \in Threads : u # t => (u \in Readers' <=> u \in Readers)
      /\ \A u \in Threads : u # t => (u \in Current' <=> u \in Current)
  BY <1>0, <1>1, <1>h, <1>n, RcuOthers
<1>p. t \in Current' <=> t \in Current
  BY <1>o, <1>n, <1>h DEF Current
<1>e. Registered' = Registered /\ Readers' = Readers /\ Current' = Current
  <2>1. Readers \subseteq Threads /\ Readers' \subseteq Threads /\ Current \subseteq Threads /\ Current' \subseteq Threads
    BY DEF Readers, Current, Registered
  <2> QED BY <1>o, <1>p, <1>g, <2>1
<1>2. RcuTypeOK'
  BY <1>0, <1>1, <1>n DEF RcuTypeOK
<1>3. RcuIds'
  BY <1>0, <1>1, RcuIdsKept
<1>4. RcuReaders'
  BY <1>0, <1>1, <1>g, <1>e DEF RcuTypeOK, RcuReaders
<1>5. RcuLock'
  BY <1>0, <1>1, <1>g, Assumptions DEF RcuTypeOK, RcuLock
<1>6. \A u \in Threads : Waited(u)'
  BY <1>0, <1>1, <1>g, <1>e, Assumptions DEF RcuTypeOK, RcuLock, RcuReaders, Waited
<1> QED BY <1>1, <1>2, <1>3, <1>4, <1>5, <1>6 DEF RcuInv

\* rcu_read_unlock inside a nested section takes a level and keeps the section open.
LEMMA RcuUnlockInner ==
  ASSUME RcuInv, NEW t \in Threads, LockFree!rcu_read_unlock(t), LockFree!NEST_MASK(LockFree!Mine(t)) > 1
  PROVE  RcuInv'
<1>0. RcuShape /\ RcuTypeOK /\ RcuIds /\ RcuReaders /\ RcuLock /\ \A u \in Threads : Waited(u)
  BY DEF RcuInv
<1>g. lf_rep.pc[t] = "idle" /\ t \in Readers /\ (LockFree!NEST_MASK(lf_rep.reader_gp[lf_rep.id[t]]) > 1)
  BY <1>0, RcuReading DEF LockFree!rcu_read_unlock, LockFree!At, LockFree!Mine, LockFree!Nobody
<1>h. t \in Registered /\ lf_rep.reader_gp[lf_rep.id[t]] \in 0 .. 2 * B - 1 /\ lf_rep.reader_gp[lf_rep.id[t]] \notin {0, B}
  BY <1>0, <1>g, RcuReading DEF Readers
<1>b. LockFree!NEST_MASK(lf_rep.reader_gp[lf_rep.id[t]]) = IF lf_rep.reader_gp[lf_rep.id[t]] < B THEN lf_rep.reader_gp[lf_rep.id[t]] ELSE lf_rep.reader_gp[lf_rep.id[t]] - B
  BY <1>h, Bits
<1>n. /\ lf_rep.reader_gp[lf_rep.id[t]] - 1 \in 0 .. 2 * B - 1 /\ lf_rep.reader_gp[lf_rep.id[t]] - 1 \notin {0, B}
      /\ lf_rep.reader_gp[lf_rep.id[t]] - 1 < B <=> lf_rep.reader_gp[lf_rep.id[t]] < B
  BY <1>g, <1>h, <1>b, OneLess
<1>1. /\ RcuShape'
      /\ lf_rep'.gp_ctr = lf_rep.gp_ctr
      /\ lf_rep'.num = lf_rep.num
      /\ lf_rep'.id = lf_rep.id
      /\ lf_rep'.reader_gp = [lf_rep.reader_gp EXCEPT ![lf_rep.id[t]] = lf_rep.reader_gp[lf_rep.id[t]] - 1]
      /\ lf_rep'.gp_lock = lf_rep.gp_lock
      /\ lf_rep'.pc = lf_rep.pc
      /\ lf_rep'.tmp = lf_rep.tmp
      /\ lf_rep'.at = lf_rep.at
      /\ lf_rep'.flips = lf_rep.flips
      /\ lf_model'.syncs = lf_model.syncs
      /\ lf_model'.old = lf_model.old
  BY <1>0 DEF RcuShape, LockFree!rcu_read_unlock, LockFree!At, LockFree!Mine, LockFree!Nobody
<1>o. /\ Registered' = Registered /\ t \in Readers'
      /\ t \in Current' <=> (lf_rep.reader_gp[lf_rep.id[t]] - 1 < B <=> lf_rep.gp_ctr < B)
      /\ \A u \in Threads : u # t => (u \in Readers' <=> u \in Readers)
      /\ \A u \in Threads : u # t => (u \in Current' <=> u \in Current)
  BY <1>0, <1>1, <1>h, <1>n, RcuOthers
<1>p. t \in Current' <=> t \in Current
  BY <1>o, <1>n, <1>h DEF Current
<1>e. Registered' = Registered /\ Readers' = Readers /\ Current' = Current
  <2>1. Readers \subseteq Threads /\ Readers' \subseteq Threads /\ Current \subseteq Threads /\ Current' \subseteq Threads
    BY DEF Readers, Current, Registered
  <2> QED BY <1>o, <1>p, <1>g, <2>1
<1>2. RcuTypeOK'
  BY <1>0, <1>1, <1>n DEF RcuTypeOK
<1>3. RcuIds'
  BY <1>0, <1>1, RcuIdsKept
<1>4. RcuReaders'
  BY <1>0, <1>1, <1>g, <1>e DEF RcuTypeOK, RcuReaders
<1>5. RcuLock'
  BY <1>0, <1>1, <1>g, Assumptions DEF RcuTypeOK, RcuLock
<1>6. \A u \in Threads : Waited(u)'
  BY <1>0, <1>1, <1>g, <1>e, Assumptions DEF RcuTypeOK, RcuLock, RcuReaders, Waited
<1> QED BY <1>1, <1>2, <1>3, <1>4, <1>5, <1>6 DEF RcuInv

\* rcu_read_unlock at the outermost level closes the section.
LEMMA RcuUnlockOuter ==
  ASSUME RcuInv, NEW t \in Threads, LockFree!rcu_read_unlock(t), ~(LockFree!NEST_MASK(LockFree!Mine(t)) > 1)
  PROVE  RcuInv'
<1>0. RcuShape /\ RcuTypeOK /\ RcuIds /\ RcuReaders /\ RcuLock /\ \A u \in Threads : Waited(u)
  BY DEF RcuInv
<1>g. lf_rep.pc[t] = "idle" /\ t \in Readers /\ ~(LockFree!NEST_MASK(lf_rep.reader_gp[lf_rep.id[t]]) > 1)
  BY <1>0, RcuReading DEF LockFree!rcu_read_unlock, LockFree!At, LockFree!Mine, LockFree!Nobody
<1>h. t \in Registered /\ lf_rep.reader_gp[lf_rep.id[t]] \in 0 .. 2 * B - 1 /\ lf_rep.reader_gp[lf_rep.id[t]] \notin {0, B}
  BY <1>0, <1>g, RcuReading DEF Readers
<1>b. LockFree!NEST_MASK(lf_rep.reader_gp[lf_rep.id[t]]) = IF lf_rep.reader_gp[lf_rep.id[t]] < B THEN lf_rep.reader_gp[lf_rep.id[t]] ELSE lf_rep.reader_gp[lf_rep.id[t]] - B
  BY <1>h, Bits
<1>n. /\ lf_rep.reader_gp[lf_rep.id[t]] - 1 \in 0 .. 2 * B - 1 /\ lf_rep.reader_gp[lf_rep.id[t]] - 1 \in {0, B}
      /\ lf_rep.reader_gp[lf_rep.id[t]] - 1 < B <=> lf_rep.reader_gp[lf_rep.id[t]] < B
  BY <1>g, <1>h, <1>b, OneLess
<1>1. /\ RcuShape'
      /\ lf_rep'.gp_ctr = lf_rep.gp_ctr
      /\ lf_rep'.num = lf_rep.num
      /\ lf_rep'.id = lf_rep.id
      /\ lf_rep'.reader_gp = [lf_rep.reader_gp EXCEPT ![lf_rep.id[t]] = lf_rep.reader_gp[lf_rep.id[t]] - 1]
      /\ lf_rep'.gp_lock = lf_rep.gp_lock
      /\ lf_rep'.pc = lf_rep.pc
      /\ lf_rep'.tmp = lf_rep.tmp
      /\ lf_rep'.at = lf_rep.at
      /\ lf_rep'.flips = lf_rep.flips
      /\ lf_model'.syncs = lf_model.syncs
      /\ lf_model'.old = [u \in Threads |-> lf_model.old[u] \ {t}]
  BY <1>0 DEF RcuShape, LockFree!rcu_read_unlock, LockFree!At, LockFree!Mine, LockFree!Nobody
<1>o. /\ Registered' = Registered /\ t \notin Readers'
      /\ t \in Current' <=> (lf_rep.reader_gp[lf_rep.id[t]] - 1 < B <=> lf_rep.gp_ctr < B)
      /\ \A u \in Threads : u # t => (u \in Readers' <=> u \in Readers)
      /\ \A u \in Threads : u # t => (u \in Current' <=> u \in Current)
  BY <1>0, <1>1, <1>h, <1>n, RcuOthers
<1>p. t \in Current' <=> t \in Current
  BY <1>o, <1>n, <1>h DEF Current
<1>e. Registered' = Registered /\ Readers' = Readers \ {t} /\ Current' = Current
  <2>1. Readers \subseteq Threads /\ Readers' \subseteq Threads /\ Current \subseteq Threads /\ Current' \subseteq Threads
    BY DEF Readers, Current, Registered
  <2> QED BY <1>o, <1>p, <1>g, <2>1
<1>2. RcuTypeOK'
  <2>1. lf_rep'.reader_gp \in [Slots -> 0 .. 2 * B - 1]
    BY <1>0, <1>1, <1>n DEF RcuTypeOK
  <2>2. lf_model'.old \in [Threads -> SUBSET Threads]
    BY <1>0, <1>1 DEF RcuTypeOK
  <2> QED BY <1>0, <1>1, <2>1, <2>2 DEF RcuTypeOK
<1>3. RcuIds'
  BY <1>0, <1>1, RcuIdsKept
<1>4. RcuReaders'
  BY <1>0, <1>1, <1>g, <1>e DEF RcuTypeOK, RcuReaders
<1>5. RcuLock'
  BY <1>0, <1>1, <1>g, Assumptions DEF RcuTypeOK, RcuLock
<1>6. \A u \in Threads : Waited(u)'
  BY <1>0, <1>1, <1>g, <1>e, Assumptions DEF RcuTypeOK, RcuLock, RcuReaders, Waited
<1> QED BY <1>1, <1>2, <1>3, <1>4, <1>5, <1>6 DEF RcuInv

\* flip_counter_and_wait flips the phase: the sections open now are the old ones.
LEMMA RcuFlip ==
  ASSUME RcuInv, NEW t \in Threads, LockFree!flip_counter_and_wait(t), lf_rep.pc[t] = "flip", lf_model' = lf_model
  PROVE  RcuInv'
<1>0. RcuShape /\ RcuTypeOK /\ RcuIds /\ RcuReaders /\ RcuLock /\ \A u \in Threads : Waited(u)
  BY DEF RcuInv
<1>g. lf_rep.pc[t] = "flip" /\ lf_rep.flips < 2
  BY <1>0, RcuReading DEF LockFree!flip_counter_and_wait, LockFree!At, LockFree!Nobody, LockFree!Flips
<1>n. /\ lf_rep.gp_ctr = 1 => (lf_rep.gp_ctr + B) % (2 * B) = B + 1
      /\ lf_rep.gp_ctr = B + 1 => (lf_rep.gp_ctr + B) % (2 * B) = 1
  <2> DEFINE b == B
  <2>1. b \in Nat /\ b >= 2
    BY RcuConstants
  <2> HIDE DEF b
  <2>2. (1 + b) % (2 * b) = b + 1 /\ (b + 1 + b) % (2 * b) = 1
    BY <2>1
  <2> QED BY <2>1, <2>2 DEF b
<1>1. /\ RcuShape'
      /\ lf_rep'.gp_ctr = (lf_rep.gp_ctr + B) % (2 * B)
      /\ lf_rep'.num = lf_rep.num
      /\ lf_rep'.id = lf_rep.id
      /\ lf_rep'.reader_gp = lf_rep.reader_gp
      /\ lf_rep'.gp_lock = lf_rep.gp_lock
      /\ lf_rep'.pc = [lf_rep.pc EXCEPT ![t] = "wait"]
      /\ lf_rep'.tmp = lf_rep.tmp
      /\ lf_rep'.at = 0
      /\ lf_rep'.flips = lf_rep.flips + 1
      /\ lf_model'.syncs = lf_model.syncs
      /\ lf_model'.old = lf_model.old
  BY <1>0, RcuConstants DEF RcuShape, LockFree!flip_counter_and_wait, LockFree!At, LockFree!Nobody, LockFree!Flips
<1>m. /\ lf_rep'.gp_ctr \in {1, B + 1}
      /\ lf_rep'.gp_ctr < B <=> ~(lf_rep.gp_ctr < B)
  BY <1>0, <1>1, <1>n, RcuConstants DEF RcuTypeOK
<1>e. Registered' = Registered /\ Readers' = Readers /\ Current' = Registered \ Current
  BY <1>1, <1>m DEF Registered, Readers, Current
<1>r. \A u \in Threads : lf_model.old[u] \subseteq Registered
  BY <1>0 DEF RcuReaders, Readers
<1>i. \A u \in Registered : lf_rep.id[u] \in Nat
  BY <1>0, RcuConstants DEF RcuIds, Slots
<1>2. RcuTypeOK'
  BY <1>0, <1>1, <1>g, <1>m DEF RcuTypeOK, RcuPcs
<1>3. RcuIds'
  BY <1>0, <1>1, RcuIdsKept
<1>4. RcuReaders'
  BY <1>0, <1>1, <1>g, <1>e DEF RcuTypeOK, RcuReaders
<1>5. RcuLock'
  BY <1>0, <1>1, <1>g, Assumptions DEF RcuTypeOK, RcuLock
<1>6. \A u \in Threads : Waited(u)'
  <2>1. ASSUME NEW u \in Threads, u # t PROVE Waited(u)'
    <3>1. lf_rep.pc[u] \notin {"flip", "wait"}
      BY <1>0, <1>g, <2>1, Assumptions DEF RcuLock
    <3> QED BY <1>0, <1>1, <2>1, <3>1 DEF RcuTypeOK, Waited
  <2>2. Waited(t)'
    BY <1>0, <1>1, <1>g, <1>e, <1>r, <1>i DEF RcuTypeOK, Waited
  <2> QED BY <2>1, <2>2
<1> QED BY <1>1, <1>2, <1>3, <1>4, <1>5, <1>6 DEF RcuInv

\* flip_counter_and_wait passes a slot whose reader is outside or in the new phase.
LEMMA RcuWaits ==
  ASSUME RcuInv, NEW t \in Threads, LockFree!flip_counter_and_wait(t), lf_rep.pc[t] = "wait", lf_rep.at < lf_rep.num, lf_model' = lf_model
  PROVE  RcuInv'
<1>0. RcuShape /\ RcuTypeOK /\ RcuIds /\ RcuReaders /\ RcuLock /\ \A u \in Threads : Waited(u)
  BY DEF RcuInv
<1>g. /\ lf_rep.pc[t] = "wait" /\ lf_rep.at < lf_rep.num
      /\ ~(LockFree!NEST_MASK(lf_rep.reader_gp[lf_rep.at]) > 0 /\ LockFree!Phase(lf_rep.reader_gp[lf_rep.at]) # LockFree!Phase(lf_rep.gp_ctr))
  BY <1>0 DEF RcuTypeOK, LockFree!flip_counter_and_wait, LockFree!At, LockFree!Nobody
<1>d. lf_rep' = [lf_rep EXCEPT !.at = lf_rep.at + 1]
  BY <1>0 DEF RcuTypeOK, LockFree!flip_counter_and_wait, LockFree!At
<1>1. /\ RcuShape'
      /\ lf_rep'.gp_ctr = lf_rep.gp_ctr
      /\ lf_rep'.num = lf_rep.num
      /\ lf_rep'.id = lf_rep.id
      /\ lf_rep'.reader_gp = lf_rep.reader_gp
      /\ lf_rep'.gp_lock = lf_rep.gp_lock
      /\ lf_rep'.pc = lf_rep.pc
      /\ lf_rep'.tmp = lf_rep.tmp
      /\ lf_rep'.at = lf_rep.at + 1
      /\ lf_rep'.flips = lf_rep.flips
      /\ lf_model'.syncs = lf_model.syncs
      /\ lf_model'.old = lf_model.old
  BY <1>0, <1>d DEF RcuShape
<1>e. Registered' = Registered /\ Readers' = Readers /\ Current' = Current
  BY <1>1, RcuSame
<1>q. \A u \in lf_model.old[t] : u \in Readers /\ lf_rep.id[u] \in Nat /\ (lf_rep.id[u] = lf_rep.at => u \in Current)
  <2> SUFFICES ASSUME NEW u \in lf_model.old[t]
               PROVE  u \in Readers /\ lf_rep.id[u] \in Nat /\ (lf_rep.id[u] = lf_rep.at => u \in Current)
    OBVIOUS
  <2>1. u \in Readers /\ u \in Registered /\ u \in Threads /\ lf_rep.id[u] \in Nat
    BY <1>0, RcuConstants DEF RcuReaders, RcuIds, Slots, Readers, Registered
  <2>2. ASSUME lf_rep.id[u] = lf_rep.at PROVE u \in Current
    <3>1. lf_rep.reader_gp[lf_rep.at] \in 0 .. 2 * B - 1 /\ lf_rep.reader_gp[lf_rep.at] \notin {0, B}
      BY <1>0, <2>1, <2>2, RcuReading DEF Readers
    <3>2. /\ LockFree!NEST_MASK(lf_rep.reader_gp[lf_rep.at]) = IF lf_rep.reader_gp[lf_rep.at] < B THEN lf_rep.reader_gp[lf_rep.at] ELSE lf_rep.reader_gp[lf_rep.at] - B
          /\ LockFree!Phase(lf_rep.reader_gp[lf_rep.at]) = IF lf_rep.reader_gp[lf_rep.at] < B THEN 0 ELSE 1
      BY <3>1, Bits
    <3>3. lf_rep.gp_ctr \in 0 .. 2 * B - 1
      BY <1>0, PhaseBit DEF RcuTypeOK
    <3>4. LockFree!Phase(lf_rep.gp_ctr) = IF lf_rep.gp_ctr < B THEN 0 ELSE 1
      BY <3>3, Bits
    <3>5. lf_rep.reader_gp[lf_rep.at] < B <=> lf_rep.gp_ctr < B
      BY <1>g, <3>1, <3>2, <3>3, <3>4, PhaseBit
    <3> QED BY <2>1, <2>2, <3>5 DEF Current
  <2> QED BY <2>1, <2>2
<1>2. RcuTypeOK'
  BY <1>0, <1>1, <1>g DEF RcuTypeOK, RcuPcs
<1>3. RcuIds'
  BY <1>0, <1>1, RcuIdsKept
<1>4. RcuReaders'
  BY <1>0, <1>1, <1>g, <1>e DEF RcuTypeOK, RcuReaders
<1>5. RcuLock'
  BY <1>0, <1>1, <1>g, Assumptions DEF RcuTypeOK, RcuLock
<1>6. \A u \in Threads : Waited(u)'
  <2>1. ASSUME NEW u \in Threads, u # t PROVE Waited(u)'
    <3>1. lf_rep.pc[u] \notin {"flip", "wait"}
      BY <1>0, <1>g, <2>1, Assumptions DEF RcuLock
    <3> QED BY <1>0, <1>1, <2>1, <3>1 DEF RcuTypeOK, Waited
  <2>2. Waited(t)'
    BY <1>0, <1>1, <1>g, <1>e, <1>q DEF RcuTypeOK, Waited
  <2> QED BY <2>1, <2>2
<1> QED BY <1>1, <1>2, <1>3, <1>4, <1>5, <1>6 DEF RcuInv

\* flip_counter_and_wait has passed every slot: the phase is over.
LEMMA RcuPhaseOver ==
  ASSUME RcuInv, NEW t \in Threads, LockFree!flip_counter_and_wait(t), lf_rep.pc[t] = "wait", lf_rep.at >= lf_rep.num, lf_model' = lf_model
  PROVE  RcuInv'
<1>0. RcuShape /\ RcuTypeOK /\ RcuIds /\ RcuReaders /\ RcuLock /\ \A u \in Threads : Waited(u)
  BY DEF RcuInv
<1>g. lf_rep.pc[t] = "wait" /\ lf_rep.at = lf_rep.num
  BY <1>0 DEF RcuTypeOK, LockFree!flip_counter_and_wait, LockFree!At, LockFree!Nobody
<1>d. lf_rep' = [lf_rep EXCEPT !.pc[t] = "flip"]
  BY <1>0 DEF RcuTypeOK, LockFree!flip_counter_and_wait, LockFree!At
<1>1. /\ RcuShape'
      /\ lf_rep'.gp_ctr = lf_rep.gp_ctr
      /\ lf_rep'.num = lf_rep.num
      /\ lf_rep'.id = lf_rep.id
      /\ lf_rep'.reader_gp = lf_rep.reader_gp
      /\ lf_rep'.gp_lock = lf_rep.gp_lock
      /\ lf_rep'.pc = [lf_rep.pc EXCEPT ![t] = "flip"]
      /\ lf_rep'.tmp = lf_rep.tmp
      /\ lf_rep'.at = lf_rep.at
      /\ lf_rep'.flips = lf_rep.flips
      /\ lf_model'.syncs = lf_model.syncs
      /\ lf_model'.old = lf_model.old
  BY <1>0, <1>d DEF RcuShape
<1>e. Registered' = Registered /\ Readers' = Readers /\ Current' = Current
  BY <1>1, RcuSame
<1>q. \A u \in lf_model.old[t] : lf_rep.id[u] \in Nat /\ lf_rep.id[u] < lf_rep.at
  BY <1>0, <1>g, RcuConstants DEF RcuReaders, RcuIds, Slots, Readers
<1>2. RcuTypeOK'
  BY <1>0, <1>1, <1>g DEF RcuTypeOK, RcuPcs
<1>3. RcuIds'
  BY <1>0, <1>1, RcuIdsKept
<1>4. RcuReaders'
  BY <1>0, <1>1, <1>g, <1>e DEF RcuTypeOK, RcuReaders
<1>5. RcuLock'
  BY <1>0, <1>1, <1>g, Assumptions DEF RcuTypeOK, RcuLock
<1>6. \A u \in Threads : Waited(u)'
  <2>1. ASSUME NEW u \in Threads, u # t PROVE Waited(u)'
    <3>1. lf_rep.pc[u] \notin {"flip", "wait"}
      BY <1>0, <1>g, <2>1, Assumptions DEF RcuLock
    <3> QED BY <1>0, <1>1, <2>1, <3>1 DEF RcuTypeOK, Waited
  <2>2. Waited(t)'
    BY <1>0, <1>1, <1>g, <1>e, <1>q DEF RcuTypeOK, Waited
  <2> QED BY <2>1, <2>2
<1> QED BY <1>1, <1>2, <1>3, <1>4, <1>5, <1>6 DEF RcuInv

\* Every step of urcu_easy preserves its invariant.
LEMMA RcuInductive == RcuInv /\ [LockFree!RcuNext]_lfVars => RcuInv'
<1> SUFFICES ASSUME RcuInv, [LockFree!RcuNext]_lfVars PROVE RcuInv'
  OBVIOUS
<1>1. ASSUME NEW t \in Threads, LockFree!flip_counter_and_wait(t), UNCHANGED lf_model PROVE RcuInv'
  <2>1. lf_rep.pc[t] \in {"flip", "wait"} /\ lf_rep.num \in Nat /\ lf_rep.at \in Nat
    BY <1>1 DEF RcuInv, RcuTypeOK, LockFree!flip_counter_and_wait, LockFree!At
  <2>2. lf_rep.at < lf_rep.num \/ lf_rep.at >= lf_rep.num
    BY <2>1
  <2> QED BY <1>1, <2>1, <2>2, RcuFlip, RcuWaits, RcuPhaseOver
<1>2. ASSUME NEW t \in Threads, LockFree!rcu_read_unlock(t) PROVE RcuInv'
  BY <1>2, RcuUnlockInner, RcuUnlockOuter
<1>3. CASE UNCHANGED lfVars
  BY <1>3 DEF lfVars, RcuInv, RcuShape, RcuTypeOK, RcuIds, RcuReaders, RcuLock, Waited, Registered,
              Readers, Current
<1>4. CASE LockFree!RcuNext
  BY <1>4, <1>1, <1>2, RcuRegister, RcuOuter, RcuStore, RcuInner, RcuCall, RcuLocks, RcuReturns, RcuDone
  DEF LockFree!RcuNext
<1> QED BY <1>3, <1>4

-----------------------------------------------------------------------------
(* HazardPtrEasy                                                           *)

\* What a sequence holds.
Elems(s) == {s[j] : j \in 1 .. Len(s)}
\* No element occurs twice.
Distinct(s) == \A j, k \in 1 .. Len(s) : s[j] = s[k] => j = k

\* Where a thread of HazardPtrEasy is.
HazPcs == {"idle", "announce", "validate", "use", "clear", "retire", "gc"}
\* The fields of the two records that the steps of HazardPtrEasy keep.
HazShape ==
  /\ lf_rep = [shared |-> lf_rep.shared, haz |-> lf_rep.haz, free_list |-> lf_rep.free_list,
               pc |-> lf_rep.pc, p |-> lf_rep.p, pos |-> lf_rep.pos, i |-> lf_rep.i]
  /\ lf_model = [made |-> lf_model.made, retired |-> lf_model.retired, freed |-> lf_model.freed]
\* What those fields hold.
HazTypeOK ==
  /\ lf_rep.shared \in Nat /\ lf_rep.haz \in [Threads -> Nat]
  /\ lf_rep.free_list \in [Threads -> Seq(Nat)] /\ lf_rep.pc \in [Threads -> HazPcs]
  /\ lf_rep.p \in [Threads -> Nat] /\ lf_rep.pos \in [Threads -> Nat \ {0}]
  /\ lf_rep.i \in [Threads -> Nat \ {0}]
  /\ lf_model.made \in Nat /\ lf_model.retired \subseteq Nat /\ lf_model.freed \in Seq(Nat)

\* The objects on a thread's free list.
Waiting(t) == Elems(lf_rep.free_list[t])
\* The objects that were freed.
Freed == Elems(lf_model.freed)

\* What is retired is in one place: in the list of one thread, or freed.
HazPlaces ==
  /\ Distinct(lf_model.freed) /\ Freed \subseteq lf_model.retired
  /\ \A t \in Threads :
       /\ Distinct(lf_rep.free_list[t])
       /\ Waiting(t) \subseteq lf_model.retired /\ Waiting(t) \cap Freed = {}
       /\ \A u \in Threads : u # t => Waiting(t) \cap Waiting(u) = {}
  /\ \A x \in lf_model.retired : x \in Freed \/ \E t \in Threads : x \in Waiting(t)

\* An object is retired after it was replaced, by the one thread that replaced it.
HazObjects ==
  /\ lf_rep.shared = lf_model.made
  /\ \A x \in lf_model.retired : x < lf_model.made
  /\ \A t \in Threads :
       lf_rep.pc[t] = "retire" =>
         /\ lf_rep.p[t] < lf_model.made /\ lf_rep.p[t] \notin lf_model.retired
         /\ \A u \in Threads : lf_rep.pc[u] = "retire" /\ lf_rep.p[u] = lf_rep.p[t] => u = t

\* The object that haz_gc of thread u looks at.
Looked(u, x) ==
  /\ lf_rep.pc[u] = "gc" /\ lf_rep.pos[u] <= Len(lf_rep.free_list[u])
  /\ lf_rep.free_list[u][lf_rep.pos[u]] = x

\* What is used is announced and not freed, and whoever wants to free it has yet
\* to come to the announcement.
HazUse ==
  \A t \in Threads :
    /\ lf_rep.pc[t] \in {"validate", "use"} => lf_rep.haz[t] = lf_rep.p[t]
    /\ lf_rep.pc[t] = "use" => lf_rep.p[t] <= lf_model.made /\ lf_rep.p[t] \notin Freed
    /\ lf_rep.pc[t] = "use" => \A u \in Threads : Looked(u, lf_rep.p[t]) => lf_rep.i[u] <= t

\* The inductive invariant of HazardPtrEasy.
HazInv == HazShape /\ HazTypeOK /\ HazPlaces /\ HazObjects /\ HazUse

\* What appending a new element does to a sequence of distinct ones.
LEMMA ElemsAppend ==
  ASSUME NEW s \in Seq(Nat), NEW x \in Nat, x \notin Elems(s), Distinct(s)
  PROVE  /\ Append(s, x) \in Seq(Nat) /\ Distinct(Append(s, x)) /\ Elems(Append(s, x)) = Elems(s) \cup {x}
<1>1. /\ Append(s, x) \in Seq(Nat) /\ Len(Append(s, x)) = Len(s) + 1 /\ Len(s) \in Nat
      /\ Append(s, x)[Len(s) + 1] = x /\ \A j \in 1 .. Len(s) : Append(s, x)[j] = s[j]
  OBVIOUS
<1>2. Distinct(Append(s, x))
  BY <1>1 DEF Distinct, Elems
<1>3. Elems(Append(s, x)) = Elems(s) \cup {x}
  BY <1>1 DEF Elems
<1> QED BY <1>1, <1>2, <1>3

\* What putting a new element first does.
LEMMA ElemsCons ==
  ASSUME NEW s \in Seq(Nat), NEW x \in Nat, x \notin Elems(s), Distinct(s)
  PROVE  /\ <<x>> \o s \in Seq(Nat) /\ Distinct(<<x>> \o s) /\ Elems(<<x>> \o s) = Elems(s) \cup {x}
         /\ (<<x>> \o s)[1] = x
<1> DEFINE c == <<x>> \o s
<1>1. /\ c \in Seq(Nat) /\ Len(c) = Len(s) + 1 /\ Len(s) \in Nat
      /\ \A j \in 1 .. Len(s) + 1 : c[j] = IF j = 1 THEN x ELSE s[j - 1]
  OBVIOUS
<1> HIDE DEF c
<1>2. 1 \in 1 .. Len(c) /\ c[1] = x /\ \A j \in 1 .. Len(s) : j + 1 \in 1 .. Len(c) /\ c[j + 1] = s[j]
  BY <1>1
<1>3. \A j \in 1 .. Len(c) : j = 1 \/ (j - 1 \in 1 .. Len(s) /\ c[j] = s[j - 1])
  BY <1>1
<1>4. Distinct(c)
  <2> SUFFICES ASSUME NEW j \in 1 .. Len(c), NEW k \in 1 .. Len(c), c[j] = c[k] PROVE j = k
    BY DEF Distinct
  <2>1. CASE j = 1 \/ k = 1
    BY <1>2, <1>3, <2>1 DEF Elems
  <2>2. CASE j # 1 /\ k # 1
    <3>1. j - 1 \in 1 .. Len(s) /\ k - 1 \in 1 .. Len(s) /\ s[j - 1] = s[k - 1]
      BY <1>3, <2>2
    <3>2. j - 1 = k - 1
      BY <3>1 DEF Distinct
    <3> QED BY <3>2
  <2> QED BY <2>1, <2>2
<1>5. ASSUME NEW e \in Elems(c) PROVE e \in Elems(s) \cup {x}
  <2>1. PICK j \in 1 .. Len(c) : e = c[j]
    BY DEF Elems
  <2>2. CASE j = 1
    BY <1>2, <2>1, <2>2
  <2>3. CASE j # 1
    <3>1. j - 1 \in 1 .. Len(s) /\ e = s[j - 1]
      BY <1>3, <2>1, <2>3
    <3> QED BY <3>1 DEF Elems
  <2> QED BY <2>2, <2>3
<1>6. ASSUME NEW e \in Elems(s) PROVE e \in Elems(c)
  <2>1. PICK j \in 1 .. Len(s) : e = s[j]
    BY DEF Elems
  <2>2. j + 1 \in 1 .. Len(c) /\ c[j + 1] = e
    BY <1>2, <2>1
  <2> QED BY <2>2 DEF Elems
<1>7. x \in Elems(c)
  BY <1>2 DEF Elems
<1>8. Elems(c) = Elems(s) \cup {x}
  BY <1>5, <1>6, <1>7
<1> QED BY <1>1, <1>2, <1>4, <1>8 DEF c

\* What removing one place does.
LEMMA ElemsRemove ==
  ASSUME NEW s \in Seq(Nat), NEW n \in 1 .. Len(s), Distinct(s)
  PROVE  /\ LockFree!RemoveAt(s, n) \in Seq(Nat) /\ Distinct(LockFree!RemoveAt(s, n))
         /\ Elems(LockFree!RemoveAt(s, n)) = Elems(s) \ {s[n]}
<1> DEFINE a == SubSeq(s, 1, n - 1)
           b == SubSeq(s, n + 1, Len(s))
           r == a \o b
           src(j) == IF j < n THEN j ELSE j + 1
<1>0. Len(s) \in Nat /\ n \in Nat /\ 1 <= n /\ n <= Len(s) /\ \A j \in 1 .. Len(s) : s[j] \in Nat
  OBVIOUS
<1>1. a \in Seq(Nat) /\ Len(a) = n - 1 /\ \A j \in 1 .. n - 1 : a[j] = s[j]
  BY <1>0
<1>2. b \in Seq(Nat) /\ Len(b) = Len(s) - n /\ \A j \in 1 .. Len(s) - n : b[j] = s[j + n]
  BY <1>0
<1> HIDE DEF a, b
<1>3. /\ r \in Seq(Nat) /\ Len(r) = Len(a) + Len(b)
      /\ \A j \in 1 .. Len(a) + Len(b) : r[j] = IF j <= Len(a) THEN a[j] ELSE b[j - Len(a)]
  BY <1>1, <1>2, ConcatProperties, Zenon
<1> HIDE DEF r
<1>4. r \in Seq(Nat) /\ Len(r) = Len(s) - 1
  BY <1>0, <1>1, <1>2, <1>3
<1>5. ASSUME NEW j \in 1 .. Len(r) PROVE src(j) \in 1 .. Len(s) /\ src(j) # n /\ r[j] = s[src(j)]
  <2>1. CASE j < n
    <3>1. j \in 1 .. n - 1 /\ j <= Len(a) /\ j \in 1 .. Len(a) + Len(b)
      BY <1>0, <1>1, <1>2, <1>4, <2>1
    <3>2. r[j] = a[j]
      BY <1>3, <3>1
    <3>3. r[j] = s[j]
      BY <1>1, <3>1, <3>2
    <3> QED BY <1>0, <1>4, <2>1, <3>3
  <2>2. CASE ~(j < n)
    <3>1. /\ j - Len(a) \in 1 .. Len(s) - n /\ (j - Len(a)) + n = j + 1 /\ ~(j <= Len(a))
          /\ j \in 1 .. Len(a) + Len(b)
      BY <1>0, <1>1, <1>2, <1>4, <2>2
    <3>2. r[j] = b[j - Len(a)]
      BY <1>3, <3>1
    <3>3. r[j] = s[j + 1]
      BY <1>2, <3>1, <3>2
    <3> QED BY <1>0, <1>4, <2>2, <3>3
  <2> QED BY <2>1, <2>2
<1>6. ASSUME NEW e \in Elems(r) PROVE e \in Elems(s) \ {s[n]}
  <2>1. PICK j \in 1 .. Len(r) : e = r[j]
    BY DEF Elems
  <2>2. PICK k \in 1 .. Len(s) : k # n /\ e = s[k]
    BY <1>5, <2>1
  <2> QED BY <2>2 DEF Elems, Distinct
<1>7. ASSUME NEW e \in Elems(s) \ {s[n]} PROVE e \in Elems(r)
  <2>1. PICK j \in 1 .. Len(s) : e = s[j] /\ j # n
    BY DEF Elems
  <2>2. PICK k \in 1 .. Len(r) : src(k) = j
    <3>1. CASE j < n
      <4>1. j \in 1 .. Len(r) /\ src(j) = j
        BY <1>0, <1>4, <3>1
      <4> QED BY <4>1
    <3>2. CASE j > n
      <4>1. j - 1 \in 1 .. Len(r) /\ src(j - 1) = j
        BY <1>0, <1>4, <3>2
      <4> QED BY <4>1
    <3> QED BY <1>0, <2>1, <3>1, <3>2
  <2>3. r[k] = e
    BY <1>5, <2>1, <2>2
  <2> QED BY <2>3 DEF Elems
<1>8. Distinct(r)
  <2> SUFFICES ASSUME NEW j \in 1 .. Len(r), NEW k \in 1 .. Len(r), r[j] = r[k] PROVE j = k
    BY DEF Distinct
  <2>1. src(j) \in 1 .. Len(s) /\ src(k) \in 1 .. Len(s) /\ s[src(j)] = s[src(k)]
    BY <1>5
  <2>2. \A f, g \in 1 .. Len(s) : s[f] = s[g] => f = g
    BY DEF Distinct
  <2> HIDE DEF src
  <2>3. src(j) = src(k)
    BY <2>1, <2>2, Zenon
  <2>4. j \in Int /\ k \in Int /\ n \in Int
    BY <1>0, <1>4
  <2> QED BY <2>3, <2>4 DEF src
<1>9. LockFree!RemoveAt(s, n) = r
  BY DEF LockFree!RemoveAt, r, a, b
<1> QED BY <1>4, <1>6, <1>7, <1>8, <1>9

\* A thread's entry may be replaced by any value of the range.
LEMMA Updated ==
  ASSUME NEW S, NEW f \in [Threads -> S], NEW t, NEW v \in S
  PROVE  [f EXCEPT ![t] = v] \in [Threads -> S]
  OBVIOUS

\* The collector's index runs over threads.
LEMMA ThreadsOrdered ==
  /\ \A t \in Threads : t \in Nat \ {0}
  /\ \A t \in Threads : \A j \in 1 .. t : j \in Threads
  BY RcuConstants

\* At first the first object is current and nothing was retired.
LEMMA HazBegins == LockFree!HazardInit => HazInv
<1> SUFFICES ASSUME LockFree!HazardInit PROVE HazInv
  OBVIOUS
<1>1. HazShape
  BY DEF HazShape, LockFree!HazardInit
<1>2. HazTypeOK
  BY DEF HazTypeOK, LockFree!HazardInit, HazPcs, LockFree!Null
<1>3. Freed = {} /\ \A t \in Threads : Waiting(t) = {}
  BY DEF Freed, Waiting, Elems, LockFree!HazardInit
<1>4. HazPlaces
  BY <1>3 DEF HazPlaces, Distinct, LockFree!HazardInit
<1>5. HazObjects /\ HazUse
  BY DEF HazObjects, HazUse, LockFree!HazardInit
<1> QED BY <1>1, <1>2, <1>4, <1>5 DEF HazInv

\* A step that moves no object keeps where the objects are.
LEMMA HazPlacesKept ==
  ASSUME HazPlaces, lf_rep'.free_list = lf_rep.free_list, lf_model'.retired = lf_model.retired,
         lf_model'.freed = lf_model.freed
  PROVE  HazPlaces' /\ Freed' = Freed /\ \A t \in Threads : Waiting(t)' = Waiting(t)
<1>1. Freed' = Freed /\ \A t \in Threads : Waiting(t)' = Waiting(t)
  BY DEF Freed, Waiting
<1> QED BY <1>1 DEF HazPlaces

\* A client reads the shared pointer.
LEMMA HazLoad ==
  ASSUME HazInv, NEW t \in Threads, LockFree!ClientLoad(t)
  PROVE  HazInv'
<1>0. HazShape /\ HazTypeOK /\ HazPlaces /\ HazObjects /\ HazUse
  BY DEF HazInv
<1>g. lf_rep.pc[t] = "idle"
  BY <1>0 DEF HazTypeOK, LockFree!ClientLoad, LockFree!At
<1>1. /\ HazShape'
      /\ lf_rep'.shared = lf_rep.shared
      /\ lf_rep'.haz = lf_rep.haz
      /\ lf_rep'.free_list = lf_rep.free_list
      /\ lf_rep'.pc = [lf_rep.pc EXCEPT ![t] = "announce"]
      /\ lf_rep'.p = [lf_rep.p EXCEPT ![t] = lf_rep.shared]
      /\ lf_rep'.pos = lf_rep.pos
      /\ lf_rep'.i = lf_rep.i
      /\ lf_model'.made = lf_model.made
      /\ lf_model'.retired = lf_model.retired
      /\ lf_model'.freed = lf_model.freed
  BY <1>0 DEF HazShape, LockFree!ClientLoad, LockFree!At
<1>3. HazTypeOK'
  BY <1>0, <1>1, <1>g DEF HazTypeOK, HazPcs
<1>4. HazPlaces' /\ Freed' = Freed /\ \A u \in Threads : Waiting(u)' = Waiting(u)
  BY <1>0, <1>1, HazPlacesKept
<1>5. HazObjects'
  BY <1>0, <1>1, <1>g DEF HazTypeOK, HazObjects
<1>6. HazUse'
  BY <1>0, <1>1, <1>g, <1>4 DEF HazTypeOK, HazUse, Looked
<1> QED BY <1>1, <1>3, <1>4, <1>5, <1>6 DEF HazInv

\* A client stores what it read into its hazard slot.
LEMMA HazAnnounce ==
  ASSUME HazInv, NEW t \in Threads, LockFree!haz_set_ptr(t)
  PROVE  HazInv'
<1>0. HazShape /\ HazTypeOK /\ HazPlaces /\ HazObjects /\ HazUse
  BY DEF HazInv
<1>g. lf_rep.pc[t] = "announce"
  BY <1>0 DEF HazTypeOK, LockFree!haz_set_ptr, LockFree!At
<1>1. /\ HazShape'
      /\ lf_rep'.shared = lf_rep.shared
      /\ lf_rep'.haz = [lf_rep.haz EXCEPT ![t] = lf_rep.p[t]]
      /\ lf_rep'.free_list = lf_rep.free_list
      /\ lf_rep'.pc = [lf_rep.pc EXCEPT ![t] = "validate"]
      /\ lf_rep'.p = lf_rep.p
      /\ lf_rep'.pos = lf_rep.pos
      /\ lf_rep'.i = lf_rep.i
      /\ lf_model'.made = lf_model.made
      /\ lf_model'.retired = lf_model.retired
      /\ lf_model'.freed = lf_model.freed
  BY <1>0 DEF HazShape, LockFree!haz_set_ptr, LockFree!At
<1>3. HazTypeOK'
  BY <1>0, <1>1, <1>g DEF HazTypeOK, HazPcs
<1>4. HazPlaces' /\ Freed' = Freed /\ \A u \in Threads : Waiting(u)' = Waiting(u)
  BY <1>0, <1>1, HazPlacesKept
<1>5. HazObjects'
  BY <1>0, <1>1, <1>g DEF HazTypeOK, HazObjects
<1>6. HazUse'
  BY <1>0, <1>1, <1>g, <1>4 DEF HazTypeOK, HazUse, Looked
<1> QED BY <1>1, <1>3, <1>4, <1>5, <1>6 DEF HazInv

\* A client reads the shared pointer again, finds it unchanged and uses the object: it is announced,
\* and as the shared object it is not retired.
LEMMA HazValid ==
  ASSUME HazInv, NEW t \in Threads, LockFree!ClientValidate(t), lf_rep.shared = lf_rep.p[t]
  PROVE  HazInv'
<1>0. HazShape /\ HazTypeOK /\ HazPlaces /\ HazObjects /\ HazUse
  BY DEF HazInv
<1>g. lf_rep.pc[t] = "validate" /\ lf_rep.p[t] = lf_rep.shared
  BY <1>0 DEF HazTypeOK, LockFree!ClientValidate, LockFree!At
<1>1. /\ HazShape'
      /\ lf_rep'.shared = lf_rep.shared
      /\ lf_rep'.haz = lf_rep.haz
      /\ lf_rep'.free_list = lf_rep.free_list
      /\ lf_rep'.pc = [lf_rep.pc EXCEPT ![t] = "use"]
      /\ lf_rep'.p = lf_rep.p
      /\ lf_rep'.pos = lf_rep.pos
      /\ lf_rep'.i = lf_rep.i
      /\ lf_model'.made = lf_model.made
      /\ lf_model'.retired = lf_model.retired
      /\ lf_model'.freed = lf_model.freed
  BY <1>0 DEF HazShape, LockFree!ClientValidate, LockFree!At
<1>3. HazTypeOK'
  BY <1>0, <1>1, <1>g DEF HazTypeOK, HazPcs
<1>4. HazPlaces' /\ Freed' = Freed /\ \A u \in Threads : Waiting(u)' = Waiting(u)
  BY <1>0, <1>1, HazPlacesKept
<1>5. HazObjects'
  BY <1>0, <1>1, <1>g DEF HazTypeOK, HazObjects
<1>6. HazUse'
  <2>1. lf_rep.p[t] \notin lf_model.retired /\ lf_rep.p[t] <= lf_model.made
    BY <1>0, <1>g DEF HazTypeOK, HazObjects
  <2>2. lf_rep.p[t] \notin Freed /\ \A u \in Threads : ~Looked(u, lf_rep.p[t])
    <3>1. \A u \in Threads : lf_rep.p[t] \notin Waiting(u)
      BY <1>0, <2>1 DEF HazPlaces
    <3>2. \A u \in Threads : Looked(u, lf_rep.p[t]) => lf_rep.p[t] \in Waiting(u)
      BY <1>0 DEF Looked, Waiting, Elems, HazTypeOK
    <3> QED BY <1>0, <2>1, <3>1, <3>2 DEF HazPlaces
  <2>3. \A u \in Threads, x \in Nat : Looked(u, x)' => Looked(u, x)
    BY <1>0, <1>1, <1>g DEF HazTypeOK, Looked
  <2>4. lf_rep'.pc[t] = "use" /\ \A u \in Threads : u # t => lf_rep'.pc[u] = lf_rep.pc[u]
    BY <1>0, <1>1 DEF HazTypeOK
  <2> QED BY <1>0, <1>1, <1>g, <1>4, <2>1, <2>2, <2>3, <2>4 DEF HazTypeOK, HazUse
<1> QED BY <1>1, <1>3, <1>4, <1>5, <1>6 DEF HazInv

\* A client finds the pointer changed and does not use the object.
LEMMA HazInvalid ==
  ASSUME HazInv, NEW t \in Threads, LockFree!ClientValidate(t), lf_rep.shared # lf_rep.p[t]
  PROVE  HazInv'
<1>0. HazShape /\ HazTypeOK /\ HazPlaces /\ HazObjects /\ HazUse
  BY DEF HazInv
<1>g. lf_rep.pc[t] = "validate"
  BY <1>0 DEF HazTypeOK, LockFree!ClientValidate, LockFree!At
<1>1. /\ HazShape'
      /\ lf_rep'.shared = lf_rep.shared
      /\ lf_rep'.haz = lf_rep.haz
      /\ lf_rep'.free_list = lf_rep.free_list
      /\ lf_rep'.pc = [lf_rep.pc EXCEPT ![t] = "clear"]
      /\ lf_rep'.p = lf_rep.p
      /\ lf_rep'.pos = lf_rep.pos
      /\ lf_rep'.i = lf_rep.i
      /\ lf_model'.made = lf_model.made
      /\ lf_model'.retired = lf_model.retired
      /\ lf_model'.freed = lf_model.freed
  BY <1>0 DEF HazShape, LockFree!ClientValidate, LockFree!At
<1>3. HazTypeOK'
  BY <1>0, <1>1, <1>g DEF HazTypeOK, HazPcs
<1>4. HazPlaces' /\ Freed' = Freed /\ \A u \in Threads : Waiting(u)' = Waiting(u)
  BY <1>0, <1>1, HazPlacesKept
<1>5. HazObjects'
  BY <1>0, <1>1, <1>g DEF HazTypeOK, HazObjects
<1>6. HazUse'
  BY <1>0, <1>1, <1>g, <1>4 DEF HazTypeOK, HazUse, Looked
<1> QED BY <1>1, <1>3, <1>4, <1>5, <1>6 DEF HazInv

\* A client has finished with the object.
LEMMA HazDone ==
  ASSUME HazInv, NEW t \in Threads, LockFree!ClientDone(t)
  PROVE  HazInv'
<1>0. HazShape /\ HazTypeOK /\ HazPlaces /\ HazObjects /\ HazUse
  BY DEF HazInv
<1>g. lf_rep.pc[t] = "use"
  BY <1>0 DEF HazTypeOK, LockFree!ClientDone, LockFree!At
<1>1. /\ HazShape'
      /\ lf_rep'.shared = lf_rep.shared
      /\ lf_rep'.haz = lf_rep.haz
      /\ lf_rep'.free_list = lf_rep.free_list
      /\ lf_rep'.pc = [lf_rep.pc EXCEPT ![t] = "clear"]
      /\ lf_rep'.p = lf_rep.p
      /\ lf_rep'.pos = lf_rep.pos
      /\ lf_rep'.i = lf_rep.i
      /\ lf_model'.made = lf_model.made
      /\ lf_model'.retired = lf_model.retired
      /\ lf_model'.freed = lf_model.freed
  BY <1>0 DEF HazShape, LockFree!ClientDone, LockFree!At
<1>3. HazTypeOK'
  BY <1>0, <1>1, <1>g DEF HazTypeOK, HazPcs
<1>4. HazPlaces' /\ Freed' = Freed /\ \A u \in Threads : Waiting(u)' = Waiting(u)
  BY <1>0, <1>1, HazPlacesKept
<1>5. HazObjects'
  BY <1>0, <1>1, <1>g DEF HazTypeOK, HazObjects
<1>6. HazUse'
  BY <1>0, <1>1, <1>g, <1>4 DEF HazTypeOK, HazUse, Looked
<1> QED BY <1>1, <1>3, <1>4, <1>5, <1>6 DEF HazInv

\* A client empties its hazard slot.
LEMMA HazClear ==
  ASSUME HazInv, NEW t \in Threads, LockFree!ClientClear(t)
  PROVE  HazInv'
<1>0. HazShape /\ HazTypeOK /\ HazPlaces /\ HazObjects /\ HazUse
  BY DEF HazInv
<1>g. lf_rep.pc[t] = "clear"
  BY <1>0 DEF HazTypeOK, LockFree!ClientClear, LockFree!At, LockFree!Null
<1>1. /\ HazShape'
      /\ lf_rep'.shared = lf_rep.shared
      /\ lf_rep'.haz = [lf_rep.haz EXCEPT ![t] = 0]
      /\ lf_rep'.free_list = lf_rep.free_list
      /\ lf_rep'.pc = [lf_rep.pc EXCEPT ![t] = "idle"]
      /\ lf_rep'.p = [lf_rep.p EXCEPT ![t] = 0]
      /\ lf_rep'.pos = lf_rep.pos
      /\ lf_rep'.i = lf_rep.i
      /\ lf_model'.made = lf_model.made
      /\ lf_model'.retired = lf_model.retired
      /\ lf_model'.freed = lf_model.freed
  BY <1>0 DEF HazShape, LockFree!ClientClear, LockFree!At, LockFree!Null
<1>3. HazTypeOK'
  BY <1>0, <1>1, <1>g DEF HazTypeOK, HazPcs
<1>4. HazPlaces' /\ Freed' = Freed /\ \A u \in Threads : Waiting(u)' = Waiting(u)
  BY <1>0, <1>1, HazPlacesKept
<1>5. HazObjects'
  BY <1>0, <1>1, <1>g DEF HazTypeOK, HazObjects
<1>6. HazUse'
  BY <1>0, <1>1, <1>g, <1>4 DEF HazTypeOK, HazUse, Looked
<1> QED BY <1>1, <1>3, <1>4, <1>5, <1>6 DEF HazInv

\* A client replaces the shared object and holds the old one, which nobody can load any more.
LEMMA HazReplace ==
  ASSUME HazInv, NEW t \in Threads, LockFree!ClientReplace(t)
  PROVE  HazInv'
<1>0. HazShape /\ HazTypeOK /\ HazPlaces /\ HazObjects /\ HazUse
  BY DEF HazInv
<1>g. lf_rep.pc[t] = "use" /\ lf_rep.shared = lf_rep.p[t]
  BY <1>0 DEF HazTypeOK, LockFree!ClientReplace, LockFree!At
<1>1. /\ HazShape'
      /\ lf_rep'.shared = lf_model.made + 1
      /\ lf_rep'.haz = lf_rep.haz
      /\ lf_rep'.free_list = lf_rep.free_list
      /\ lf_rep'.pc = [lf_rep.pc EXCEPT ![t] = "retire"]
      /\ lf_rep'.p = lf_rep.p
      /\ lf_rep'.pos = lf_rep.pos
      /\ lf_rep'.i = lf_rep.i
      /\ lf_model'.made = lf_model.made + 1
      /\ lf_model'.retired = lf_model.retired
      /\ lf_model'.freed = lf_model.freed
  BY <1>0 DEF HazShape, LockFree!ClientReplace, LockFree!At
<1>3. HazTypeOK'
  BY <1>0, <1>1, <1>g DEF HazTypeOK, HazPcs
<1>4. HazPlaces' /\ Freed' = Freed /\ \A u \in Threads : Waiting(u)' = Waiting(u)
  BY <1>0, <1>1, HazPlacesKept
<1>5. HazObjects'
  BY <1>0, <1>1, <1>g DEF HazTypeOK, HazObjects
<1>6. HazUse'
  BY <1>0, <1>1, <1>g, <1>4 DEF HazTypeOK, HazUse, Looked
<1> QED BY <1>1, <1>3, <1>4, <1>5, <1>6 DEF HazInv

\* A collection reaches the end of its free list.
LEMMA HazGcEnd ==
  ASSUME HazInv, NEW t \in Threads, LockFree!GcEnd(t)
  PROVE  HazInv'
<1>0. HazShape /\ HazTypeOK /\ HazPlaces /\ HazObjects /\ HazUse
  BY DEF HazInv
<1>g. lf_rep.pc[t] = "gc"
  BY <1>0 DEF HazTypeOK, LockFree!GcEnd, LockFree!At
<1>1. /\ HazShape'
      /\ lf_rep'.shared = lf_rep.shared
      /\ lf_rep'.haz = lf_rep.haz
      /\ lf_rep'.free_list = lf_rep.free_list
      /\ lf_rep'.pc = [lf_rep.pc EXCEPT ![t] = "clear"]
      /\ lf_rep'.p = lf_rep.p
      /\ lf_rep'.pos = lf_rep.pos
      /\ lf_rep'.i = lf_rep.i
      /\ lf_model'.made = lf_model.made
      /\ lf_model'.retired = lf_model.retired
      /\ lf_model'.freed = lf_model.freed
  BY <1>0 DEF HazShape, LockFree!GcEnd, LockFree!At
<1>3. HazTypeOK'
  BY <1>0, <1>1, <1>g DEF HazTypeOK, HazPcs
<1>4. HazPlaces' /\ Freed' = Freed /\ \A u \in Threads : Waiting(u)' = Waiting(u)
  BY <1>0, <1>1, HazPlacesKept
<1>5. HazObjects'
  BY <1>0, <1>1, <1>g DEF HazTypeOK, HazObjects
<1>6. HazUse'
  BY <1>0, <1>1, <1>g, <1>4 DEF HazTypeOK, HazUse, Looked
<1> QED BY <1>1, <1>3, <1>4, <1>5, <1>6 DEF HazInv

\* haz_defer_free puts the old object on the caller's free list and starts a collection.
LEMMA HazDefer ==
  ASSUME HazInv, NEW t \in Threads, LockFree!haz_defer_free(t)
  PROVE  HazInv'
<1>0. HazShape /\ HazTypeOK /\ HazPlaces /\ HazObjects /\ HazUse
  BY DEF HazInv
<1>g. lf_rep.pc[t] = "retire" /\ lf_rep.p[t] \in Nat /\ lf_rep.free_list[t] \in Seq(Nat)
  BY <1>0 DEF HazTypeOK, LockFree!haz_defer_free, LockFree!At
<1>h. /\ lf_rep.p[t] < lf_model.made /\ lf_rep.p[t] \notin lf_model.retired
      /\ lf_rep.p[t] \notin Freed /\ \A u \in Threads : lf_rep.p[t] \notin Waiting(u)
  BY <1>0, <1>g DEF HazObjects, HazPlaces
<1> DEFINE c == <<lf_rep.p[t]>> \o lf_rep.free_list[t]
<1>c. c \in Seq(Nat) /\ Distinct(c) /\ Elems(c) = Waiting(t) \cup {lf_rep.p[t]} /\ c[1] = lf_rep.p[t]
  BY <1>0, <1>g, <1>h, ElemsCons DEF HazPlaces, Waiting
<1>1. /\ HazShape'
      /\ lf_rep'.shared = lf_rep.shared
      /\ lf_rep'.haz = lf_rep.haz
      /\ lf_rep'.free_list = [lf_rep.free_list EXCEPT ![t] = c]
      /\ lf_rep'.pc = [lf_rep.pc EXCEPT ![t] = "gc"]
      /\ lf_rep'.p = lf_rep.p
      /\ lf_rep'.pos = [lf_rep.pos EXCEPT ![t] = 1]
      /\ lf_rep'.i = [lf_rep.i EXCEPT ![t] = 1]
      /\ lf_model'.made = lf_model.made
      /\ lf_model'.retired = lf_model.retired \cup {lf_rep.p[t]}
      /\ lf_model'.freed = lf_model.freed
  BY <1>0 DEF HazShape, LockFree!haz_defer_free, LockFree!At
<1> HIDE DEF c
<1>3. HazTypeOK'
  <2>1. lf_rep'.free_list \in [Threads -> Seq(Nat)]
    BY <1>0, <1>1, <1>c, Updated DEF HazTypeOK
  <2>2. "gc" \in HazPcs /\ 1 \in Nat \ {0}
    BY DEF HazPcs
  <2>3. lf_rep'.pc \in [Threads -> HazPcs] /\ lf_rep'.pos \in [Threads -> Nat \ {0}] /\ lf_rep'.i \in [Threads -> Nat \ {0}]
    BY <1>0, <1>1, <2>2, Updated DEF HazTypeOK
  <2>4. lf_model'.retired \subseteq Nat
    BY <1>0, <1>1, <1>g DEF HazTypeOK
  <2> QED BY <1>0, <1>1, <2>1, <2>3, <2>4 DEF HazTypeOK
<1>e. Freed' = Freed /\ Waiting(t)' = Waiting(t) \cup {lf_rep.p[t]} /\ \A u \in Threads : u # t => Waiting(u)' = Waiting(u)
  BY <1>0, <1>1, <1>c DEF HazTypeOK, Freed, Waiting
<1>f. lf_rep'.free_list[t] = c /\ \A u \in Threads : u # t => lf_rep'.free_list[u] = lf_rep.free_list[u]
  BY <1>0, <1>1 DEF HazTypeOK
<1>4. HazPlaces'
  BY <1>0, <1>1, <1>c, <1>e, <1>f, <1>h DEF HazPlaces
<1>5. HazObjects'
  <2>1. \A u \in Threads : lf_rep'.pc[u] = "retire" => u # t /\ lf_rep.pc[u] = "retire" /\ lf_rep.p[u] # lf_rep.p[t]
    BY <1>0, <1>1, <1>g DEF HazTypeOK, HazObjects
  <2> QED BY <1>0, <1>1, <1>h, <2>1 DEF HazObjects
<1>6. HazUse'
  <2>1. \A u \in Threads, x \in Nat : u # t => (Looked(u, x)' <=> Looked(u, x))
    BY <1>0, <1>1, <1>f DEF HazTypeOK, Looked
  <2>2. \A u \in Threads : lf_rep'.i[u] <= lf_rep.i[u] /\ lf_rep'.i[t] = 1
    BY <1>0, <1>1 DEF HazTypeOK
  <2>3. ASSUME NEW u \in Threads, lf_rep'.pc[u] \in {"validate", "use"} PROVE u # t /\ lf_rep'.pc[u] = lf_rep.pc[u]
    BY <1>0, <1>1, <2>3 DEF HazTypeOK
  <2>4. ASSUME NEW u \in Threads, lf_rep'.pc[u] = "use", NEW v \in Threads,
               NEW x \in Nat, x = lf_rep.p[u], Looked(v, x)'
        PROVE  lf_rep'.i[v] <= u
    <3>1. lf_rep.pc[u] = "use"
      BY <2>3, <2>4
    <3>2. CASE v = t
      BY <2>2, <3>2, ThreadsOrdered
    <3>3. CASE v # t
      <4>1. Looked(v, x) /\ lf_rep'.i[v] = lf_rep.i[v]
        BY <1>0, <1>1, <2>1, <2>4, <3>3 DEF HazTypeOK
      <4> QED BY <1>0, <2>4, <3>1, <4>1 DEF HazUse
    <3> QED BY <3>2, <3>3
  <2>5. \A u \in Threads : lf_rep.p[u] \in Nat
    BY <1>0 DEF HazTypeOK
  <2> QED BY <1>0, <1>1, <1>e, <2>3, <2>4, <2>5 DEF HazUse
<1> QED BY <1>1, <1>3, <1>4, <1>5, <1>6 DEF HazInv

\* The collector finds the object announced and goes on to the next one.
LEMMA HazConflict ==
  ASSUME HazInv, NEW t \in Threads, LockFree!GcLook(t), (~LockFree!SkipSelf(t, lf_rep.i[t]) /\ lf_rep.haz[lf_rep.i[t]] = lf_rep.free_list[t][lf_rep.pos[t]])
  PROVE  HazInv'
<1>0. HazShape /\ HazTypeOK /\ HazPlaces /\ HazObjects /\ HazUse
  BY DEF HazInv
<1>g. lf_rep.pc[t] = "gc" /\ lf_rep.pos[t] <= Len(lf_rep.free_list[t]) /\ lf_rep.i[t] \in Threads
  BY <1>0 DEF HazTypeOK, LockFree!GcLook, LockFree!At
<1>h. lf_rep' = [lf_rep EXCEPT !.pos[t] = @ + 1, !.i[t] = 1] /\ UNCHANGED lf_model
  BY DEF LockFree!GcLook
<1>1. /\ HazShape'
      /\ lf_rep'.shared = lf_rep.shared
      /\ lf_rep'.haz = lf_rep.haz
      /\ lf_rep'.free_list = lf_rep.free_list
      /\ lf_rep'.pc = lf_rep.pc
      /\ lf_rep'.p = lf_rep.p
      /\ lf_rep'.pos = [lf_rep.pos EXCEPT ![t] = lf_rep.pos[t] + 1]
      /\ lf_rep'.i = [lf_rep.i EXCEPT ![t] = 1]
      /\ lf_model'.made = lf_model.made
      /\ lf_model'.retired = lf_model.retired
      /\ lf_model'.freed = lf_model.freed
  BY <1>0, <1>h DEF HazShape
<1>3. HazTypeOK'
  <2>1. lf_rep.i[t] \in Nat \ {0} /\ lf_rep.pos[t] \in Nat \ {0}
    BY <1>0 DEF HazTypeOK
  <2>2. lf_rep.i[t] + 1 \in Nat \ {0} /\ lf_rep.pos[t] + 1 \in Nat \ {0} /\ 1 \in Nat \ {0}
    BY <2>1
  <2>3. lf_rep'.pos \in [Threads -> Nat \ {0}] /\ lf_rep'.i \in [Threads -> Nat \ {0}]
    <3>1. lf_rep.pos \in [Threads -> Nat \ {0}] /\ lf_rep.i \in [Threads -> Nat \ {0}]
      BY <1>0 DEF HazTypeOK
    <3> DEFINE up == lf_rep.i[t] + 1
               on == lf_rep.pos[t] + 1
               S == Nat \ {0}
    <3>2. lf_rep'.pos \in {lf_rep.pos, [lf_rep.pos EXCEPT ![t] = on]} /\ lf_rep'.i \in {[lf_rep.i EXCEPT ![t] = 1], [lf_rep.i EXCEPT ![t] = up]}
      BY <1>1
    <3>3. lf_rep.pos \in [Threads -> S] /\ lf_rep.i \in [Threads -> S] /\ on \in S /\ up \in S /\ 1 \in S
      BY <2>2, <3>1
    <3> HIDE DEF up, on, S
    <3>4. lf_rep'.pos \in [Threads -> S] /\ lf_rep'.i \in [Threads -> S]
      BY <3>2, <3>3
    <3> QED BY <3>4 DEF S
  <2> QED BY <1>0, <1>1, <2>3 DEF HazTypeOK
<1>4. HazPlaces' /\ Freed' = Freed /\ \A u \in Threads : Waiting(u)' = Waiting(u)
  BY <1>0, <1>1, HazPlacesKept
<1>5. HazObjects'
  BY <1>0, <1>1, <1>g DEF HazTypeOK, HazObjects
<1>6. HazUse'
  <2>1. \A u \in Threads, x \in Nat : u # t => (Looked(u, x)' <=> Looked(u, x)) /\ lf_rep'.i[u] = lf_rep.i[u]
    BY <1>0, <1>1 DEF HazTypeOK, Looked
  <2>2. ASSUME NEW u \in Threads, lf_rep.pc[u] = "use", NEW x \in Nat, x = lf_rep.p[u], Looked(t, x)'
        PROVE  lf_rep'.i[t] <= u
    BY <1>0, <1>1, ThreadsOrdered DEF HazTypeOK
  <2>3. ASSUME NEW u \in Threads, lf_rep.pc[u] = "use", NEW v \in Threads,
               NEW y \in Nat, y = lf_rep.p[u], Looked(v, y)'
        PROVE  lf_rep'.i[v] <= u
    <3>1. CASE v = t
      BY <2>2, <2>3, <3>1
    <3>2. CASE v # t
      BY <1>0, <2>1, <2>3, <3>2 DEF HazUse
    <3> QED BY <3>1, <3>2
  <2>4. \A u \in Threads : lf_rep.p[u] \in Nat
    BY <1>0 DEF HazTypeOK
  <2> QED BY <1>0, <1>1, <1>4, <2>3, <2>4 DEF HazUse
<1> QED BY <1>1, <1>3, <1>4, <1>5, <1>6 DEF HazInv

\* The collector finds the object not announced in this slot and looks at the next slot.
LEMMA HazPasses ==
  ASSUME HazInv, NEW t \in Threads, LockFree!GcLook(t), ~(~LockFree!SkipSelf(t, lf_rep.i[t]) /\ lf_rep.haz[lf_rep.i[t]] = lf_rep.free_list[t][lf_rep.pos[t]])
  PROVE  HazInv'
<1>0. HazShape /\ HazTypeOK /\ HazPlaces /\ HazObjects /\ HazUse
  BY DEF HazInv
<1>g. lf_rep.pc[t] = "gc" /\ lf_rep.pos[t] <= Len(lf_rep.free_list[t]) /\ lf_rep.i[t] \in Threads
  BY <1>0 DEF HazTypeOK, LockFree!GcLook, LockFree!At
<1>h. lf_rep' = [lf_rep EXCEPT !.i[t] = @ + 1] /\ UNCHANGED lf_model
  BY DEF LockFree!GcLook
<1>1. /\ HazShape'
      /\ lf_rep'.shared = lf_rep.shared
      /\ lf_rep'.haz = lf_rep.haz
      /\ lf_rep'.free_list = lf_rep.free_list
      /\ lf_rep'.pc = lf_rep.pc
      /\ lf_rep'.p = lf_rep.p
      /\ lf_rep'.pos = lf_rep.pos
      /\ lf_rep'.i = [lf_rep.i EXCEPT ![t] = lf_rep.i[t] + 1]
      /\ lf_model'.made = lf_model.made
      /\ lf_model'.retired = lf_model.retired
      /\ lf_model'.freed = lf_model.freed
  BY <1>0, <1>h DEF HazShape
<1>3. HazTypeOK'
  <2>1. lf_rep.i[t] \in Nat \ {0} /\ lf_rep.pos[t] \in Nat \ {0}
    BY <1>0 DEF HazTypeOK
  <2>2. lf_rep.i[t] + 1 \in Nat \ {0} /\ lf_rep.pos[t] + 1 \in Nat \ {0} /\ 1 \in Nat \ {0}
    BY <2>1
  <2>3. lf_rep'.pos \in [Threads -> Nat \ {0}] /\ lf_rep'.i \in [Threads -> Nat \ {0}]
    <3>1. lf_rep.pos \in [Threads -> Nat \ {0}] /\ lf_rep.i \in [Threads -> Nat \ {0}]
      BY <1>0 DEF HazTypeOK
    <3> DEFINE up == lf_rep.i[t] + 1
               on == lf_rep.pos[t] + 1
               S == Nat \ {0}
    <3>2. lf_rep'.pos \in {lf_rep.pos, [lf_rep.pos EXCEPT ![t] = on]} /\ lf_rep'.i \in {[lf_rep.i EXCEPT ![t] = 1], [lf_rep.i EXCEPT ![t] = up]}
      BY <1>1
    <3>3. lf_rep.pos \in [Threads -> S] /\ lf_rep.i \in [Threads -> S] /\ on \in S /\ up \in S /\ 1 \in S
      BY <2>2, <3>1
    <3> HIDE DEF up, on, S
    <3>4. lf_rep'.pos \in [Threads -> S] /\ lf_rep'.i \in [Threads -> S]
      BY <3>2, <3>3
    <3> QED BY <3>4 DEF S
  <2> QED BY <1>0, <1>1, <2>3 DEF HazTypeOK
<1>4. HazPlaces' /\ Freed' = Freed /\ \A u \in Threads : Waiting(u)' = Waiting(u)
  BY <1>0, <1>1, HazPlacesKept
<1>5. HazObjects'
  BY <1>0, <1>1, <1>g DEF HazTypeOK, HazObjects
<1>6. HazUse'
  <2>1. \A u \in Threads, x \in Nat : u # t => (Looked(u, x)' <=> Looked(u, x)) /\ lf_rep'.i[u] = lf_rep.i[u]
    BY <1>0, <1>1 DEF HazTypeOK, Looked
  <2>2. ASSUME NEW u \in Threads, lf_rep.pc[u] = "use", NEW x \in Nat, x = lf_rep.p[u], Looked(t, x)'
        PROVE  lf_rep'.i[t] <= u
    <3>1. Looked(t, x) /\ lf_rep.haz[u] = x
      BY <1>0, <1>1, <2>2 DEF HazTypeOK, Looked, HazUse
    <3>2. u # t
      BY <1>g, <2>2
    <3>3. lf_rep.i[t] # u
      BY <3>1, <3>2 DEF Looked, LockFree!SkipSelf
    <3>4. lf_rep.i[t] <= u
      BY <1>0, <2>2, <3>1 DEF HazUse
    <3>5. lf_rep.i[t] \in Nat /\ u \in Nat /\ lf_rep'.i[t] = lf_rep.i[t] + 1
      BY <1>0, <1>1, ThreadsOrdered DEF HazTypeOK
    <3> QED BY <3>3, <3>4, <3>5
  <2>3. ASSUME NEW u \in Threads, lf_rep.pc[u] = "use", NEW v \in Threads,
               NEW y \in Nat, y = lf_rep.p[u], Looked(v, y)'
        PROVE  lf_rep'.i[v] <= u
    <3>1. CASE v = t
      BY <2>2, <2>3, <3>1
    <3>2. CASE v # t
      BY <1>0, <2>1, <2>3, <3>2 DEF HazUse
    <3> QED BY <3>1, <3>2
  <2>4. \A u \in Threads : lf_rep.p[u] \in Nat
    BY <1>0 DEF HazTypeOK
  <2> QED BY <1>0, <1>1, <1>4, <2>3, <2>4 DEF HazUse
<1> QED BY <1>1, <1>3, <1>4, <1>5, <1>6 DEF HazInv

\* The collector has passed every slot and frees the object: no thread uses it, because whoever uses
\* it announced it where the collector had still to look.
LEMMA HazFree ==
  ASSUME HazInv, NEW t \in Threads, LockFree!GcFree(t)
  PROVE  HazInv'
<1>0. HazShape /\ HazTypeOK /\ HazPlaces /\ HazObjects /\ HazUse
  BY DEF HazInv
<1>g. /\ lf_rep.pc[t] = "gc" /\ lf_rep.i[t] \notin Threads
      /\ lf_rep.free_list[t] \in Seq(Nat) /\ lf_rep.pos[t] \in 1 .. Len(lf_rep.free_list[t])
  BY <1>0 DEF HazTypeOK, LockFree!GcFree, LockFree!At
<1> DEFINE x == lf_rep.free_list[t][lf_rep.pos[t]]
           r == LockFree!RemoveAt(lf_rep.free_list[t], lf_rep.pos[t])
<1>h. x \in Nat /\ x \in Waiting(t) /\ Looked(t, x)
  BY <1>g DEF Waiting, Elems, Looked
<1>c. r \in Seq(Nat) /\ Distinct(r) /\ Elems(r) = Waiting(t) \ {x}
  BY <1>0, <1>g, ElemsRemove DEF HazPlaces, Waiting
<1>d. /\ Append(lf_model.freed, x) \in Seq(Nat) /\ Distinct(Append(lf_model.freed, x))
      /\ Elems(Append(lf_model.freed, x)) = Freed \cup {x}
  <2>1. lf_model.freed \in Seq(Nat) /\ x \notin Elems(lf_model.freed) /\ Distinct(lf_model.freed)
    BY <1>0, <1>h DEF HazTypeOK, HazPlaces, Freed
  <2> HIDE DEF x
  <2> QED BY <1>h, <2>1, ElemsAppend DEF Freed
<1>1. /\ HazShape'
      /\ lf_rep'.shared = lf_rep.shared
      /\ lf_rep'.haz = lf_rep.haz
      /\ lf_rep'.free_list = [lf_rep.free_list EXCEPT ![t] = r]
      /\ lf_rep'.pc = lf_rep.pc
      /\ lf_rep'.p = lf_rep.p
      /\ lf_rep'.pos = lf_rep.pos
      /\ lf_rep'.i = [lf_rep.i EXCEPT ![t] = 1]
      /\ lf_model'.made = lf_model.made
      /\ lf_model'.retired = lf_model.retired
      /\ lf_model'.freed = Append(lf_model.freed, x)
  BY <1>0 DEF HazShape, LockFree!GcFree, LockFree!At
<1> HIDE DEF x, r
<1>3. HazTypeOK'
  <2>1. lf_rep'.free_list \in [Threads -> Seq(Nat)] /\ lf_model'.freed \in Seq(Nat)
    BY <1>0, <1>1, <1>c, <1>d, Updated DEF HazTypeOK
  <2>2. lf_rep'.i \in [Threads -> Nat \ {0}]
    <3>1. 1 \in Nat \ {0}
      OBVIOUS
    <3> QED BY <1>0, <1>1, <3>1, Updated DEF HazTypeOK
  <2> QED BY <1>0, <1>1, <2>1, <2>2 DEF HazTypeOK
<1>f. /\ lf_rep'.free_list[t] = r /\ \A u \in Threads : u # t => lf_rep'.free_list[u] = lf_rep.free_list[u]
      /\ lf_model'.freed = Append(lf_model.freed, x)
  BY <1>0, <1>1 DEF HazTypeOK
<1>e. Freed' = Freed \cup {x} /\ Waiting(t)' = Waiting(t) \ {x} /\ \A u \in Threads : u # t => Waiting(u)' = Waiting(u)
  BY <1>c, <1>d, <1>f DEF Freed, Waiting
<1>4. HazPlaces'
  <2>1. x \in lf_model.retired /\ \A u \in Threads : u # t => x \notin Waiting(u)
    BY <1>0, <1>h DEF HazPlaces
  <2>2. Distinct(lf_model'.freed) /\ Freed' \subseteq lf_model'.retired /\ \A u \in Threads : Distinct(lf_rep'.free_list[u])
    BY <1>0, <1>1, <1>c, <1>d, <1>e, <1>f, <2>1 DEF HazPlaces
  <2>3. ASSUME NEW u \in Threads
        PROVE  /\ Waiting(u)' \subseteq lf_model'.retired /\ Waiting(u)' \cap Freed' = {}
               /\ \A v \in Threads : v # u => Waiting(u)' \cap Waiting(v)' = {}
    <3>1. /\ Waiting(u) \subseteq lf_model.retired /\ Waiting(u) \cap Freed = {}
          /\ \A v \in Threads : v # u => Waiting(u) \cap Waiting(v) = {}
      BY <1>0 DEF HazPlaces
    <3>2. Waiting(u)' \subseteq Waiting(u) \ {x} /\ \A v \in Threads : Waiting(v)' \subseteq Waiting(v)
      BY <1>e, <2>1
    <3> QED BY <1>1, <1>e, <3>1, <3>2
  <2>4. ASSUME NEW y \in lf_model'.retired PROVE y \in Freed' \/ \E u \in Threads : y \in Waiting(u)'
    <3>1. y \in Freed \/ \E u \in Threads : y \in Waiting(u)
      BY <1>0, <1>1, <2>4 DEF HazPlaces
    <3> QED BY <1>e, <3>1
  <2> QED BY <2>2, <2>3, <2>4 DEF HazPlaces
<1>5. HazObjects'
  BY <1>0, <1>1, <1>g DEF HazTypeOK, HazObjects
<1>6. HazUse'
  <2>1. \A u \in Threads, y \in Nat : u # t => (Looked(u, y)' <=> Looked(u, y)) /\ lf_rep'.i[u] = lf_rep.i[u]
    BY <1>0, <1>1, <1>f DEF HazTypeOK, Looked
  <2>2. lf_rep'.i[t] = 1 /\ \A u \in Threads : lf_rep.p[u] \in Nat
    BY <1>0, <1>1 DEF HazTypeOK
  <2>3. ASSUME NEW u \in Threads, lf_rep.pc[u] = "use", NEW v \in Threads,
               NEW y \in Nat, y = lf_rep.p[u], Looked(v, y)'
        PROVE  lf_rep'.i[v] <= u
    <3>1. CASE v = t
      BY <2>2, <3>1, ThreadsOrdered
    <3>2. CASE v # t
      BY <1>0, <2>1, <2>3, <3>2 DEF HazUse
    <3> QED BY <3>1, <3>2
  <2>4. ASSUME NEW u \in Threads, lf_rep.pc[u] = "use" PROVE lf_rep.p[u] # x
    <3> SUFFICES ASSUME lf_rep.p[u] = x PROVE FALSE
      OBVIOUS
    <3>1. lf_rep.i[t] <= u
      BY <1>0, <1>h, <2>4 DEF HazUse
    <3>2. lf_rep.i[t] \in 1 .. u
      BY <1>0, <3>1, ThreadsOrdered DEF HazTypeOK
    <3> QED BY <1>g, <3>2, ThreadsOrdered
  <2> QED BY <1>0, <1>1, <1>e, <2>2, <2>3, <2>4 DEF HazUse
<1> QED BY <1>1, <1>3, <1>4, <1>5, <1>6 DEF HazInv

\* Every step of HazardPtrEasy preserves its invariant.
LEMMA HazInductive == HazInv /\ [LockFree!HazardNext]_lfVars => HazInv'
<1> SUFFICES ASSUME HazInv, [LockFree!HazardNext]_lfVars PROVE HazInv'
  OBVIOUS
<1>1. ASSUME NEW t \in Threads, LockFree!ClientValidate(t) PROVE HazInv'
  BY <1>1, HazValid, HazInvalid
<1>2. ASSUME NEW t \in Threads, LockFree!GcLook(t) PROVE HazInv'
  BY <1>2, HazConflict, HazPasses
<1>3. CASE UNCHANGED lfVars
  BY <1>3 DEF lfVars, HazInv, HazShape, HazTypeOK, HazPlaces, HazObjects, HazUse, Looked, Waiting, Freed
<1>4. CASE LockFree!HazardNext
  BY <1>4, <1>1, <1>2, HazLoad, HazAnnounce, HazDone, HazClear, HazReplace, HazDefer, HazFree, HazGcEnd
  DEF LockFree!HazardNext
<1> QED BY <1>3, <1>4

-----------------------------------------------------------------------------
(* The readers of the suite                                                *)

\* The invariant of the sequence lock, on the behaviours of the suite.
LEMMA SeqReaders == LockFreeSpec => [](focus = "seqlock" => SeqInv)
<1> DEFINE I == focus = "seqlock" => SeqInv
<1>1. LockFreeInit => I
  BY SeqBegins DEF LockFreeInit
<1>2. I /\ [LockFreeNext]_lockFreeVars => I'
  <2> SUFFICES ASSUME I, [LockFreeNext]_lockFreeVars, focus' = "seqlock" PROVE SeqInv'
    OBVIOUS
  <2>1. focus = "seqlock"
    BY DEF LockFreeNext, lockFreeVars
  <2>2. [LockFree!SeqNext]_lfVars
    BY <2>1 DEF LockFreeNext, lockFreeVars
  <2> QED BY <2>1, <2>2, SeqInductive
<1> QED BY <1>1, <1>2, PTL DEF LockFreeSpec

\* The invariant of HazardPtrEasy, on the behaviours of the suite.
LEMMA HazReaders == LockFreeSpec => [](focus = "hazard" => HazInv)
<1> DEFINE I == focus = "hazard" => HazInv
<1>1. LockFreeInit => I
  BY HazBegins DEF LockFreeInit
<1>2. I /\ [LockFreeNext]_lockFreeVars => I'
  <2> SUFFICES ASSUME I, [LockFreeNext]_lockFreeVars, focus' = "hazard" PROVE HazInv'
    OBVIOUS
  <2>1. focus = "hazard"
    BY DEF LockFreeNext, lockFreeVars
  <2>2. [LockFree!HazardNext]_lfVars
    BY <2>1 DEF LockFreeNext, lockFreeVars
  <2> QED BY <2>1, <2>2, HazInductive
<1> QED BY <1>1, <1>2, PTL DEF LockFreeSpec

\* The invariant of urcu_easy, on the behaviours of the suite.
LEMMA RcuGraces == LockFreeSpec => [](focus = "rcu" => RcuInv)
<1> DEFINE I == focus = "rcu" => RcuInv
<1>1. LockFreeInit => I
  BY RcuBegins DEF LockFreeInit
<1>2. I /\ [LockFreeNext]_lockFreeVars => I'
  <2> SUFFICES ASSUME I, [LockFreeNext]_lockFreeVars, focus' = "rcu" PROVE RcuInv'
    OBVIOUS
  <2>1. focus = "rcu"
    BY DEF LockFreeNext, lockFreeVars
  <2>2. [LockFree!RcuNext]_lfVars
    BY <2>1 DEF LockFreeNext, lockFreeVars
  <2> QED BY <2>1, <2>2, RcuInductive
<1> QED BY <1>1, <1>2, PTL DEF LockFreeSpec

\* A load that returned has a whole value, not older than the load.
LEMMA SeqMeaning == SeqInv => LockFree!ReadsWhole
  BY DEF SeqInv, SeqTypeOK, SeqReader, LockFree!ReadsWhole, LockFree!At

\* The model's operators on sequences and the ones used here agree.
LEMMA ToSetElems ==
  ASSUME NEW s \in Seq(Nat)
  PROVE  LockFree!ToSet(s) = Elems(s) /\ (LockFree!IsInjective(s) <=> Distinct(s))
<1>1. DOMAIN s = 1 .. Len(s)
  OBVIOUS
<1> QED BY <1>1 DEF LockFree!ToSet, LockFree!IsInjective, Elems, Distinct

\* No object in use is freed, and none is freed twice.
LEMMA HazMeaning == HazInv => LockFree!HazardsRespected
<1> SUFFICES ASSUME HazInv PROVE LockFree!HazardsRespected
  OBVIOUS
<1> DEFINE waiting == UNION {LockFree!ToSet(lf_rep.free_list[t]) : t \in Threads}
<1>0. HazTypeOK /\ HazPlaces /\ HazObjects /\ HazUse
  BY DEF HazInv
<1>1. /\ LockFree!ToSet(lf_model.freed) = Freed /\ LockFree!IsInjective(lf_model.freed)
      /\ \A t \in Threads : LockFree!ToSet(lf_rep.free_list[t]) = Waiting(t)
  BY <1>0, ToSetElems DEF HazTypeOK, HazPlaces, Freed, Waiting
<1>2. \A x : x \in waiting <=> \E t \in Threads : x \in Waiting(t)
  BY <1>1
<1> HIDE DEF waiting
<1>3. \A t \in Threads : LockFree!At(t, "use") \/ LockFree!At(t, "retire") => lf_rep.p[t] \notin Freed
  BY <1>0 DEF HazPlaces, HazObjects, HazUse, LockFree!At
<1>4. Freed \cap waiting = {} /\ Freed \cup waiting = lf_model.retired
  BY <1>0, <1>2 DEF HazPlaces
<1>5. lf_rep.shared \notin lf_model.retired
  BY <1>0 DEF HazTypeOK, HazObjects
<1>6. \A t \in Threads, u \in Threads : t # u => Waiting(t) \cap Waiting(u) = {}
  BY <1>0 DEF HazPlaces
<1> QED BY <1>1, <1>3, <1>4, <1>5, <1>6 DEF LockFree!HazardsRespected, waiting

\* A grace period outlives the sections that were open when it began.
LEMMA RcuMeaning == RcuInv => LockFree!GracePeriod
  BY DEF RcuInv, RcuTypeOK, RcuReaders, RcuLock, Waited, LockFree!GracePeriod, LockFree!At

\* The readers of the lock-free structures are protected, for any number of threads and objects: a
\* load of a seqlock returns a value that one store wrote, no older than the load; synchronize_rcu
\* returns only when every section open at its call was left; HazardPtrEasy frees no object that a
\* thread has announced and uses, and frees none twice.
THEOREM ReadersProtectedHolds == LockFreeSpec => []ReadersProtected
<1>1. /\ (focus = "seqlock" => SeqInv) /\ (focus = "hazard" => HazInv) /\ (focus = "rcu" => RcuInv)
      => ReadersProtected
  BY SeqMeaning, HazMeaning, RcuMeaning DEF ReadersProtected
<1> QED BY <1>1, SeqReaders, HazReaders, RcuGraces, PTL


-----------------------------------------------------------------------------
(* Positions in a ring                                                     *)

\* Division with remainder, for positions.
LEMMA Quotient ==
  ASSUME NEW n \in Nat \ {0}, NEW k \in Nat
  PROVE  \E q \in Nat, r \in 0 .. n - 1 : k = q * n + r /\ r = k % n
<1>1. k \div n \in Int /\ k % n \in 0 .. n - 1
  OBVIOUS
<1>2. k = (k \div n) * n + (k % n)
  BY <1>1
<1>3. ASSUME k \div n < 0 PROVE FALSE
  <2> DEFINE q == k \div n
             r == k % n
  <2>1. q \in Int /\ q < 0 /\ r < n /\ k = q * n + r /\ r \in Int
    BY <1>1, <1>2, <1>3
  <2> HIDE DEF q, r
  <2>2. q * n <= (-1) * n
    BY <2>1
  <2> QED BY <2>1, <2>2
<1>4. k \div n \in Nat
  BY <1>1, <1>3
<1> QED BY <1>1, <1>2, <1>4

\* Remainders do not see multiples, not even negative ones.
LEMMA Periodic ==
  ASSUME NEW n \in Nat \ {0}, NEW k \in Nat, NEW z \in Int
  PROVE  (z * n + k) % n = k % n
<1>1. PICK q \in Nat, r \in 0 .. n - 1 : k = q * n + r /\ r = k % n
  BY Quotient
<1>2. \A w \in Int : (w * n + r) % n = r
  OBVIOUS
<1>3. z + q \in Int /\ z * n + k = (z + q) * n + r
  BY <1>1
<1>4. ((z + q) * n + r) % n = r
  BY <1>2, <1>3
<1> QED BY <1>1, <1>3, <1>4

\* Different positions less than n apart have different slots.
LEMMA Near ==
  ASSUME NEW n \in Nat \ {0}, NEW j \in Nat, NEW k \in Nat, j < k, k - j < n
  PROVE  j % n # k % n
<1> SUFFICES ASSUME j % n = k % n PROVE FALSE
  OBVIOUS
<1>1. PICK q \in Nat, r \in 0 .. n - 1 : j = q * n + r /\ r = j % n
  BY Quotient
<1>2. PICK p \in Nat, s \in 0 .. n - 1 : k = p * n + s /\ s = k % n
  BY Quotient
<1>3. p * n - q * n = k - j
  BY <1>1, <1>2
<1>4. (p - q) * n = p * n - q * n
  BY <1>1, <1>2
<1>5. CASE p <= q
  <2>1. (p - q) * n <= 0
    BY <1>5
  <2> QED BY <2>1, <1>3, <1>4
<1>6. CASE p > q
  <2>1. (p - q) * n >= n
    BY <1>6
  <2> QED BY <2>1, <1>3, <1>4
<1> QED BY <1>5, <1>6

\* Positions n apart share a slot.
LEMMA Around ==
  ASSUME NEW n \in Nat \ {0}, NEW k \in Nat
  PROVE  k % n \in 0 .. n - 1 /\ (k + n) % n = k % n
<1>1. 1 * n + k = k + n
  OBVIOUS
<1>2. \A z \in Int : (z * n + k) % n = k % n
  BY Periodic
<1>3. 1 \in Int
  OBVIOUS
<1>4. (1 * n + k) % n = k % n
  BY <1>2, <1>3
<1> QED BY <1>1, <1>4

-----------------------------------------------------------------------------
(* ProducerConsumerFreeQueue, RingQueue and SPSCBoundedQueue               *)

\* The shape of the ring, the places of the two threads, and where their indices are: counters of
\* items that wrap at a multiple of the size.
SpscTypeOK ==
  /\ size \in Nat /\ size >= 2 /\ limit \in Nat \ {0} /\ limit % size = 0
  /\ sent \in Nat /\ received \in Nat /\ received <= sent /\ sent - received <= size - 1
  /\ writeIndex = sent % limit /\ readIndex = received % limit
  /\ ppc \in {"idle", "write", "publish", "guessed"} /\ cpc \in {"idle", "read", "release", "guessed"}

\* Whoever is past its check has room or an item, which the other side can only add to.
SpscChecked ==
  /\ ppc \in {"write", "publish"} => sent - received < size - 1
  /\ cpc \in {"read", "release"} => received < sent

\* Item k + 1 is in slot k, modulo the size, from its write until it is released.
SpscSlots ==
  /\ records = [i \in 0 .. size - 1 |-> records[i]]
  /\ \A k \in received .. sent - 1 : records[k % size] = k + 1
  /\ ppc = "publish" => records[sent % size] = sent + 1
  /\ cpc = "release" => front = received + 1

\* Items only leave while the producer holds its guess, and only come while the consumer does.
SpscGuesses ==
  /\ ppc = "guessed" => pguess \in Nat /\ pguess >= sent - received
  /\ cpc = "guessed" => cguess \in Nat /\ cguess <= sent - received

\* The inductive invariant of the rings for one producer and one consumer.
SpscInv == SpscTypeOK /\ SpscChecked /\ SpscSlots /\ SpscGuesses

\* What the code computes from its indices, in terms of the items sent and received.
LEMMA SpscFacts ==
  ASSUME SpscTypeOK
  PROVE  /\ Spsc!Slot(writeIndex) = sent % size /\ Spsc!Slot(readIndex) = received % size
         /\ Spsc!Step(writeIndex) = (sent + 1) % limit /\ Spsc!Step(readIndex) = (received + 1) % limit
         /\ Spsc!Full <=> sent - received = size - 1
         /\ Spsc!Empty <=> sent = received
         /\ Spsc!Guess(writeIndex, readIndex) = sent - received
<1>0. size \in Nat \ {0} /\ limit \in Nat \ {0} /\ sent \in Nat /\ received \in Nat /\ received <= sent
  BY DEF SpscTypeOK
<1>1. PICK c \in Nat : limit = c * size
  <2>1. PICK c \in Nat, r \in 0 .. size - 1 : limit = c * size + r /\ r = limit % size
    BY <1>0, Quotient
  <2> QED BY <2>1, <1>0 DEF SpscTypeOK
<1>2. PICK q \in Nat : writeIndex = sent - q * limit /\ writeIndex \in Nat
  <2>1. PICK q \in Nat, r \in 0 .. limit - 1 : sent = q * limit + r /\ r = sent % limit
    BY <1>0, Quotient
  <2>2. writeIndex = r
    BY <2>1 DEF SpscTypeOK
  <2>3. q * limit \in Int
    BY <1>0
  <2>4. r = sent - q * limit /\ r \in Nat
    BY <1>0, <2>1, <2>3
  <2> QED BY <2>2, <2>4
<1>3. PICK p \in Nat : readIndex = received - p * limit /\ readIndex \in Nat
  <2>1. PICK z \in Nat, r \in 0 .. limit - 1 : received = z * limit + r /\ r = received % limit
    BY <1>0, Quotient
  <2>2. readIndex = r
    BY <2>1 DEF SpscTypeOK
  <2>3. z * limit \in Int
    BY <1>0
  <2>4. r = received - z * limit /\ r \in Nat
    BY <1>0, <2>1, <2>3
  <2> QED BY <2>2, <2>4
<1>4. \A k \in Nat, z \in Int : /\ (z * size + k) % size = k % size
                                /\ (z * limit + k) % limit = k % limit
  BY <1>0, Periodic
<1>5. /\ -(q * c) \in Int /\ writeIndex = (-(q * c)) * size + sent
      /\ writeIndex + 1 = (-(q * c)) * size + (sent + 1)
      /\ writeIndex + 1 = (-q) * limit + (sent + 1)
  <2>1. (q * c) * size = q * limit
    BY <1>0, <1>1
  <2>2. q * c \in Nat
    BY <1>0, <1>1
  <2> HIDE <1>1
  <2> QED BY <1>0, <1>2, <2>1, <2>2
<1>6. /\ -(p * c) \in Int /\ readIndex = (-(p * c)) * size + received
      /\ readIndex + 1 = (-p) * limit + (received + 1)
  <2>1. (p * c) * size = p * limit
    BY <1>0, <1>1
  <2>2. p * c \in Nat
    BY <1>0, <1>1
  <2> QED BY <1>0, <1>3, <2>1, <2>2
<1>7. /\ Spsc!Slot(writeIndex) = sent % size /\ Spsc!Slot(readIndex) = received % size
      /\ Spsc!Slot(writeIndex + 1) = (sent + 1) % size
  <2>1. sent + 1 \in Nat
    BY <1>0
  <2> QED BY <1>0, <1>4, <1>5, <1>6, <2>1 DEF Spsc!Slot
<1>8. Spsc!Step(writeIndex) = (sent + 1) % limit /\ Spsc!Step(readIndex) = (received + 1) % limit
  <2>1. sent + 1 \in Nat /\ received + 1 \in Nat /\ -q \in Int /\ -p \in Int
    BY <1>0
  <2> QED BY <1>4, <1>5, <1>6, <2>1 DEF Spsc!Step
<1>9. Spsc!Full <=> sent - received = size - 1
  <2>1. CASE sent - received = size - 1
    <3>1. sent + 1 = received + size
      BY <1>0, <2>1
    <3> QED BY <1>0, <1>7, <2>1, <3>1, Around DEF Spsc!Full
  <2>2. CASE sent - received # size - 1
    <3>1. received < sent + 1 /\ (sent + 1) - received < size /\ sent + 1 \in Nat
      BY <1>0, <2>2 DEF SpscTypeOK
    <3> QED BY <1>0, <1>7, <2>2, <3>1, Near DEF Spsc!Full
  <2> QED BY <2>1, <2>2
<1>10. Spsc!Empty <=> sent = received
  <2>1. CASE sent # received
    <3>1. received < sent /\ sent - received < size
      BY <1>0, <2>1 DEF SpscTypeOK
    <3> QED BY <1>0, <1>7, <2>1, <3>1, Near DEF Spsc!Empty
  <2> QED BY <2>1, <1>7 DEF Spsc!Empty
<1>11. Spsc!Guess(writeIndex, readIndex) = sent - received
  <2>1. /\ p * c - q * c \in Int /\ sent - received \in Nat /\ sent - received < size
        /\ writeIndex - readIndex = (p * c - q * c) * size + (sent - received)
    BY <1>0, <1>5, <1>6 DEF SpscTypeOK
  <2>2. (writeIndex - readIndex) % size = (sent - received) % size
    BY <1>4, <2>1
  <2>3. (sent - received) % size = sent - received
    BY <1>0, <2>1
  <2> QED BY <2>2, <2>3 DEF Spsc!Guess
<1> QED BY <1>7, <1>8, <1>9, <1>10, <1>11

\* A new ring is empty, its indices at zero.
LEMMA SpscBegins == Spsc!Init => SpscInv
<1> SUFFICES ASSUME Spsc!Init PROVE SpscInv
  OBVIOUS
<1>1. size \in Nat /\ size >= 2
  BY LockFreeSuiteAssumption DEF LockFreeSuiteAssumption, Spsc!RingAssumption, Spsc!Init
<1>2. limit \in Nat \ {0} /\ limit % size = 0
  <2>1. CASE limit = size
    BY <1>1, <2>1
  <2>2. CASE limit \in SpscLimits /\ limit % size = 0
    BY <2>2, LockFreeSuiteAssumption DEF LockFreeSuiteAssumption, Spsc!RingAssumption
  <2> QED BY <2>1, <2>2 DEF Spsc!Init
<1>3. 0 = 0 % limit
  BY <1>2
<1> QED BY <1>1, <1>2, <1>3 DEF Spsc!Init, SpscInv, SpscTypeOK, SpscChecked, SpscSlots, SpscGuesses

\* write, the check: a ring that is not full stays so until this producer has written.
LEMMA SpscWriteCheck ==
  ASSUME SpscInv, Spsc!WriteCheck, UNCHANGED Spsc!shape
  PROVE  SpscInv'
<1>1. SpscTypeOK' /\ (ppc' \in {"idle", "write"}) /\ (ppc' = "write" => ~Spsc!Full)
  BY DEF SpscInv, SpscTypeOK, Spsc!WriteCheck, Spsc!shape
<1>2. SpscChecked'
  BY <1>1, SpscFacts DEF SpscInv, SpscTypeOK, SpscChecked, Spsc!WriteCheck, Spsc!shape
<1> QED BY <1>1, <1>2 DEF SpscInv, SpscSlots, SpscGuesses, Spsc!WriteCheck, Spsc!shape

\* write, the record: the slot is none of those that hold an item.
LEMMA SpscWriteRecord ==
  ASSUME SpscInv, Spsc!WriteRecord, UNCHANGED Spsc!shape
  PROVE  SpscInv'
<1>0. /\ SpscTypeOK /\ SpscChecked /\ SpscSlots /\ SpscGuesses
      /\ ppc = "write" /\ ppc' = "publish" /\ sent - received < size - 1
      /\ size \in Nat \ {0} /\ sent \in Nat /\ received \in Nat
  BY DEF SpscInv, SpscTypeOK, SpscChecked, Spsc!WriteRecord
<1>1. /\ records' = [records EXCEPT ![sent % size] = sent + 1]
      /\ UNCHANGED <<size, limit, writeIndex, readIndex, pguess, cpc, cguess, front, sent, received>>
  BY <1>0, SpscFacts DEF Spsc!WriteRecord, Spsc!shape
<1>2. SpscTypeOK' /\ SpscChecked' /\ SpscGuesses'
  BY <1>0, <1>1 DEF SpscTypeOK, SpscChecked, SpscGuesses
<1>3. sent % size \in 0 .. size - 1
  BY <1>0
<1>4. records' = [i \in 0 .. size - 1 |-> records'[i]] /\ records'[sent % size] = sent + 1
  BY <1>0, <1>1, <1>3 DEF SpscSlots
<1>5. ASSUME NEW k \in received .. sent - 1 PROVE records'[k % size] = k + 1
  <2>1. k \in Nat /\ k < sent /\ sent - k < size
    BY <1>0 DEF SpscTypeOK
  <2>2. k % size # sent % size
    BY <1>0, <2>1, Near
  <2>3. k % size \in 0 .. size - 1
    BY <1>0, <2>1
  <2>4. records[k % size] = k + 1
    BY <1>0 DEF SpscSlots
  <2>5. \A i \in 0 .. size - 1 : i # sent % size => records'[i] = records[i]
    BY <1>0, <1>1 DEF SpscSlots
  <2> QED BY <2>2, <2>3, <2>4, <2>5
<1>6. SpscSlots'
  BY <1>0, <1>1, <1>4, <1>5 DEF SpscSlots
<1> QED BY <1>2, <1>6 DEF SpscInv

\* write, the index: the item counts as sent.
LEMMA SpscWritePublish ==
  ASSUME SpscInv, Spsc!WritePublish, UNCHANGED Spsc!shape
  PROVE  SpscInv'
<1>0. /\ SpscTypeOK /\ SpscChecked /\ SpscSlots /\ SpscGuesses
      /\ ppc = "publish" /\ ppc' = "idle" /\ sent - received < size - 1
      /\ size \in Nat \ {0} /\ sent \in Nat /\ received \in Nat /\ received <= sent
  BY DEF SpscInv, SpscTypeOK, SpscChecked, Spsc!WritePublish
<1>1. /\ writeIndex' = (sent + 1) % limit /\ sent' = sent + 1
      /\ UNCHANGED <<size, limit, readIndex, records, pguess, cpc, cguess, front, received>>
  BY <1>0, SpscFacts DEF Spsc!WritePublish, Spsc!shape
<1>2. SpscTypeOK' /\ SpscChecked'
  BY <1>0, <1>1 DEF SpscTypeOK, SpscChecked
<1>3. \A k \in received .. sent : records[k % size] = k + 1
  <2> TAKE k \in received .. sent
  <2>1. CASE k = sent
    BY <2>1, <1>0 DEF SpscSlots
  <2>2. CASE k # sent
    <3>1. k \in received .. sent - 1
      BY <2>2, <1>0
    <3> QED BY <3>1, <1>0 DEF SpscSlots
  <2> QED BY <2>1, <2>2
<1>4. SpscSlots'
  <2>1. sent' - 1 = sent
    BY <1>0, <1>1
  <2> QED BY <1>0, <1>1, <1>3, <2>1 DEF SpscSlots
<1>5. SpscGuesses'
  BY <1>0, <1>1 DEF SpscGuesses
<1> QED BY <1>2, <1>4, <1>5 DEF SpscInv

\* read, the check: a ring that is not empty stays so until this consumer has read.
LEMMA SpscReadCheck ==
  ASSUME SpscInv, Spsc!ReadCheck, UNCHANGED Spsc!shape
  PROVE  SpscInv'
<1>1. SpscTypeOK' /\ (cpc' \in {"idle", "read"}) /\ (cpc' = "read" => ~Spsc!Empty)
  BY DEF SpscInv, SpscTypeOK, Spsc!ReadCheck, Spsc!shape
<1>2. SpscChecked'
  BY <1>1, SpscFacts DEF SpscInv, SpscTypeOK, SpscChecked, Spsc!ReadCheck, Spsc!shape
<1> QED BY <1>1, <1>2 DEF SpscInv, SpscSlots, SpscGuesses, Spsc!ReadCheck, Spsc!shape

\* read, the record: the slot of the oldest item holds it.
LEMMA SpscReadRecord ==
  ASSUME SpscInv, Spsc!ReadRecord, UNCHANGED Spsc!shape
  PROVE  SpscInv'
<1>1. /\ front' = records[received % size] /\ cpc' = "release" /\ received < sent
      /\ UNCHANGED <<size, limit, writeIndex, readIndex, records, ppc, pguess, cguess, sent, received>>
  BY SpscFacts DEF SpscInv, SpscChecked, Spsc!ReadRecord, Spsc!shape
<1>2. front' = received + 1
  <2>1. received \in received .. sent - 1
    BY <1>1 DEF SpscInv, SpscTypeOK
  <2> QED BY <1>1, <2>1 DEF SpscInv, SpscSlots
<1> QED BY <1>1, <1>2 DEF SpscInv, SpscTypeOK, SpscChecked, SpscSlots, SpscGuesses

\* read, the index: the slot of the oldest item is given back.
LEMMA SpscReadRelease ==
  ASSUME SpscInv, Spsc!ReadRelease, UNCHANGED Spsc!shape
  PROVE  SpscInv'
<1>0. /\ SpscTypeOK /\ SpscChecked /\ SpscSlots /\ SpscGuesses
      /\ cpc = "release" /\ cpc' = "idle" /\ received < sent
      /\ size \in Nat \ {0} /\ sent \in Nat /\ received \in Nat /\ received <= sent
  BY DEF SpscInv, SpscTypeOK, SpscChecked, Spsc!ReadRelease
<1>1. /\ readIndex' = (received + 1) % limit /\ received' = received + 1
      /\ UNCHANGED <<size, limit, writeIndex, records, ppc, pguess, cguess, front, sent>>
  BY <1>0, SpscFacts DEF Spsc!ReadRelease, Spsc!shape
<1>2. SpscTypeOK' /\ SpscChecked'
  BY <1>0, <1>1 DEF SpscTypeOK, SpscChecked
<1>3. SpscSlots'
  <2>1. \A k \in received' .. sent' - 1 : records'[k % size'] = k + 1
    <3>1. \A k \in received + 1 .. sent - 1 : k \in received .. sent - 1
      BY <1>0
    <3>2. \A k \in received .. sent - 1 : records[k % size] = k + 1
      BY <1>0 DEF SpscSlots
    <3> QED BY <1>1, <3>1, <3>2
  <2>2. records' = [i \in 0 .. size' - 1 |-> records'[i]]
    BY <1>0, <1>1 DEF SpscSlots
  <2> QED BY <1>0, <1>1, <2>1, <2>2 DEF SpscSlots
<1>4. SpscGuesses'
  BY <1>0, <1>1 DEF SpscGuesses
<1> QED BY <1>2, <1>3, <1>4 DEF SpscInv

\* sizeGuess is exact when it is taken, and the other side only moves one way.
LEMMA SpscGuess ==
  ASSUME SpscInv, UNCHANGED Spsc!shape,
         Spsc!ProducerGuess \/ Spsc!ProducerUsesGuess \/ Spsc!ConsumerGuess \/ Spsc!ConsumerUsesGuess
  PROVE  SpscInv'
<1>0. Spsc!Guess(writeIndex, readIndex) = sent - received /\ sent - received \in Nat
  BY SpscFacts DEF SpscInv, SpscTypeOK
<1>1. CASE Spsc!ProducerGuess
  <2>1. /\ pguess' = sent - received /\ ppc' = "guessed"
        /\ UNCHANGED <<size, limit, writeIndex, readIndex, records, cpc, cguess, front, sent, received>>
    BY <1>0, <1>1 DEF Spsc!ProducerGuess, Spsc!shape
  <2>2. SpscTypeOK' /\ SpscChecked'
    BY <2>1 DEF SpscInv, SpscTypeOK, SpscChecked
  <2>3. SpscSlots'
    BY <2>1 DEF SpscInv, SpscSlots
  <2>4. SpscGuesses'
    BY <1>0, <2>1 DEF SpscInv, SpscGuesses
  <2> QED BY <2>2, <2>3, <2>4 DEF SpscInv
<1>2. CASE Spsc!ProducerUsesGuess
  <2>1. /\ ppc' = "idle"
        /\ UNCHANGED <<size, limit, writeIndex, readIndex, records, cpc, cguess, pguess, front, sent, received>>
    BY <1>0, <1>2 DEF Spsc!ProducerUsesGuess, Spsc!shape
  <2>2. SpscTypeOK' /\ SpscChecked'
    BY <2>1 DEF SpscInv, SpscTypeOK, SpscChecked
  <2>3. SpscSlots'
    BY <2>1 DEF SpscInv, SpscSlots
  <2>4. SpscGuesses'
    BY <1>0, <2>1 DEF SpscInv, SpscGuesses
  <2> QED BY <2>2, <2>3, <2>4 DEF SpscInv
<1>3. CASE Spsc!ConsumerGuess
  <2>1. /\ cguess' = sent - received /\ cpc' = "guessed"
        /\ UNCHANGED <<size, limit, writeIndex, readIndex, records, ppc, pguess, front, sent, received>>
    BY <1>0, <1>3 DEF Spsc!ConsumerGuess, Spsc!shape
  <2>2. SpscTypeOK' /\ SpscChecked'
    BY <2>1 DEF SpscInv, SpscTypeOK, SpscChecked
  <2>3. SpscSlots'
    BY <2>1 DEF SpscInv, SpscSlots
  <2>4. SpscGuesses'
    BY <1>0, <2>1 DEF SpscInv, SpscGuesses
  <2> QED BY <2>2, <2>3, <2>4 DEF SpscInv
<1>4. CASE Spsc!ConsumerUsesGuess
  <2>1. /\ cpc' = "idle"
        /\ UNCHANGED <<size, limit, writeIndex, readIndex, records, ppc, pguess, cguess, front, sent, received>>
    BY <1>0, <1>4 DEF Spsc!ConsumerUsesGuess, Spsc!shape
  <2>2. SpscTypeOK' /\ SpscChecked'
    BY <2>1 DEF SpscInv, SpscTypeOK, SpscChecked
  <2>3. SpscSlots'
    BY <2>1 DEF SpscInv, SpscSlots
  <2>4. SpscGuesses'
    BY <1>0, <2>1 DEF SpscInv, SpscGuesses
  <2> QED BY <2>2, <2>3, <2>4 DEF SpscInv
<1> QED BY <1>1, <1>2, <1>3, <1>4

\* Every step of a ring preserves its invariant.
LEMMA SpscInductive == SpscInv /\ [Spsc!Next]_spscVars => SpscInv'
<1> SUFFICES ASSUME SpscInv, [Spsc!Next]_spscVars PROVE SpscInv'
  OBVIOUS
<1>1. CASE UNCHANGED spscVars
  BY <1>1 DEF spscVars, SpscInv, SpscTypeOK, SpscChecked, SpscSlots, SpscGuesses
<1>2. CASE Spsc!Next
  BY <1>2, SpscWriteCheck, SpscWriteRecord, SpscWritePublish, SpscReadCheck, SpscReadRecord,
     SpscReadRelease, SpscGuess
  DEF Spsc!Next, Spsc!Producer, Spsc!Consumer
<1> QED BY <1>1, <1>2

\* Items come out in order and complete, a slot has one user, refusals are exact and guesses safe.
LEMMA SpscMeaning ==
  SpscInv => Spsc!InOrder /\ Spsc!SlotExclusive /\ Spsc!RefusedWhenFull /\ Spsc!GuessBounds
<1> SUFFICES ASSUME SpscInv
             PROVE  Spsc!InOrder /\ Spsc!SlotExclusive /\ Spsc!RefusedWhenFull /\ Spsc!GuessBounds
  OBVIOUS
<1>1. Spsc!InOrder /\ Spsc!GuessBounds
  BY DEF SpscInv, SpscTypeOK, SpscSlots, SpscGuesses, Spsc!InOrder, Spsc!GuessBounds
<1>2. Spsc!RefusedWhenFull
  BY SpscFacts DEF SpscInv, Spsc!RefusedWhenFull
<1>3. Spsc!SlotExclusive
  <2> SUFFICES ASSUME ppc \in {"write", "publish"}, cpc \in {"read", "release"}
               PROVE  Spsc!Slot(writeIndex) # Spsc!Slot(readIndex)
    BY DEF Spsc!SlotExclusive
  <2>1. received < sent /\ sent - received < size /\ size \in Nat \ {0} /\ sent \in Nat /\ received \in Nat
    BY DEF SpscInv, SpscTypeOK, SpscChecked
  <2>2. received % size # sent % size
    BY <2>1, Near
  <2> QED BY <2>2, SpscFacts DEF SpscInv
<1> QED BY <1>1, <1>2, <1>3

-----------------------------------------------------------------------------
(* MPMCBoundedQueue                                                        *)

\* What a node or a client holds.
Held == NodeValues \cup {NoValue}

Writing(x) == pc[x] \in {"write", "publish"}
Reading(x) == pc[x] \in {"read", "release"}

\* The positions between tail and head are claimed by producers only, at most a ring of them; nobody
\* is ahead of its counter.
MpTypeOK ==
  /\ head \in Nat /\ tail \in Nat /\ tail <= head /\ head <= tail + NodeCount
  /\ claimed \in Seq(Held) /\ Len(claimed) = head
  /\ next \in [Nodes!Nodes -> Nat] /\ data \in [Nodes!Nodes -> Held]
  /\ pc \in [Nodes!Clients -> {"idle", "node", "claim", "reload", "write", "publish", "read", "release"}]
  /\ seq \in [Nodes!Clients -> Nat] /\ val \in [Nodes!Clients -> Held]
  /\ \A x \in NodeProducers : ~Reading(x) /\ seq[x] <= head
  /\ \A x \in NodeConsumers : ~Writing(x) /\ seq[x] <= tail

\* A producer with a position of its own: the node's number is still the position.
MpWriters ==
  \A x \in NodeProducers : Writing(x) =>
    /\ tail <= seq[x] /\ seq[x] < head
    /\ next[Nodes!Node(seq[x])] = seq[x] /\ val[x] = claimed[seq[x] + 1]
    /\ pc[x] = "publish" => data[Nodes!Node(seq[x])] = claimed[seq[x] + 1]

\* A consumer with a position of its own: the node holds the value of that position.
MpReaders ==
  \A x \in NodeConsumers : Reading(x) =>
    /\ seq[x] < tail /\ head <= seq[x] + NodeCount
    /\ next[Nodes!Node(seq[x])] = seq[x] + 1 /\ data[Nodes!Node(seq[x])] = claimed[seq[x] + 1]
    /\ pc[x] = "release" => val[x] = claimed[seq[x] + 1]

\* A position has one producer and one consumer.
MpAlone ==
  /\ \A x, y \in NodeProducers : Writing(x) /\ Writing(y) /\ seq[x] = seq[y] => x = y
  /\ \A x, y \in NodeConsumers : Reading(x) /\ Reading(y) /\ seq[x] = seq[y] => x = y

\* A claimed position is being written or filled.
MpFilled ==
  \A s \in tail .. head - 1 :
    \/ \E x \in NodeProducers : Writing(x) /\ seq[x] = s
    \/ next[Nodes!Node(s)] = s + 1 /\ data[Nodes!Node(s)] = claimed[s + 1]

\* A position that can be claimed next is free, unless its node is still being read.
MpFree ==
  \A s \in head .. tail + NodeCount - 1 :
    \/ \E x \in NodeConsumers : Reading(x) /\ seq[x] = s - NodeCount
    \/ next[Nodes!Node(s)] = s

\* The number of a node whose position is over has passed it.
MpPast == \A s \in 0 .. tail - 1 : next[Nodes!Node(s)] > s

\* A client about to claim has seen its node ready, and nobody else can change that while the counter
\* does not move.
MpClaims ==
  /\ \A x \in NodeProducers : pc[x] = "claim" /\ seq[x] = head => next[Nodes!Node(head)] = head
  /\ \A x \in NodeConsumers : pc[x] = "claim" /\ seq[x] = tail => next[Nodes!Node(tail)] = tail + 1

\* The inductive invariant of the queue.
MpInv ==
  /\ MpTypeOK /\ MpWriters /\ MpReaders /\ MpAlone
  /\ MpFilled /\ MpFree /\ MpPast /\ MpClaims

\* The clients and the size of the ring.
LEMMA MpConstants ==
  /\ NodeCount \in Nat \ {0} /\ NodeProducers \cap NodeConsumers = {}
  /\ Nodes!Clients = NodeProducers \cup NodeConsumers
  BY LockFreeSuiteAssumption DEF LockFreeSuiteAssumption, Nodes!MPMCAssumption, Nodes!Clients

\* Positions a ring apart share a node, different ones less than that apart do not.
LEMMA MpNodes ==
  /\ \A a \in Nat : Nodes!Node(a) \in Nodes!Nodes /\ Nodes!Node(a + NodeCount) = Nodes!Node(a)
  /\ \A a, b \in Nat : a # b /\ a - b < NodeCount /\ b - a < NodeCount => Nodes!Node(a) # Nodes!Node(b)
<1>1. \A a \in Nat : Nodes!Node(a) \in Nodes!Nodes /\ Nodes!Node(a + NodeCount) = Nodes!Node(a)
  BY MpConstants, Around DEF Nodes!Node, Nodes!Nodes
<1>2. ASSUME NEW a \in Nat, NEW b \in Nat, a # b, a - b < NodeCount, b - a < NodeCount
      PROVE  Nodes!Node(a) # Nodes!Node(b)
  <2>1. CASE a < b
    BY <1>2, <2>1, Near, MpConstants DEF Nodes!Node
  <2>2. CASE b < a
    BY <1>2, <2>2, Near, MpConstants DEF Nodes!Node
  <2> QED BY <1>2, <2>1, <2>2
<1> QED BY <1>1, <1>2

\* A new queue: every node waits for its first producer.
LEMMA MpBegins == Nodes!Init => MpInv
<1> SUFFICES ASSUME Nodes!Init PROVE MpInv
  OBVIOUS
<1>1. /\ head = 0 /\ tail = 0 /\ claimed = <<>>
      /\ next = [n \in Nodes!Nodes |-> n] /\ data = [n \in Nodes!Nodes |-> NoValue]
      /\ pc = [x \in Nodes!Clients |-> "idle"] /\ seq = [x \in Nodes!Clients |-> 0]
      /\ val = [x \in Nodes!Clients |-> NoValue]
  BY DEF Nodes!Init
<1>2. /\ \A x \in NodeProducers : pc[x] = "idle" /\ seq[x] = 0
      /\ \A x \in NodeConsumers : pc[x] = "idle" /\ seq[x] = 0
  BY <1>1, MpConstants
<1>3. MpTypeOK
  <2>1. next \in [Nodes!Nodes -> Nat] /\ data \in [Nodes!Nodes -> Held]
    BY <1>1 DEF Nodes!Nodes, Held
  <2>2. /\ pc \in [Nodes!Clients -> {"idle", "node", "claim", "reload", "write", "publish", "read", "release"}]
        /\ seq \in [Nodes!Clients -> Nat] /\ val \in [Nodes!Clients -> Held]
    BY <1>1 DEF Held
  <2>3. claimed \in Seq(Held) /\ Len(claimed) = head
    BY <1>1
  <2> QED BY <1>1, <1>2, <2>1, <2>2, <2>3, MpConstants DEF MpTypeOK, Writing, Reading
<1>4. MpWriters /\ MpReaders /\ MpAlone /\ MpClaims
  BY <1>2 DEF MpWriters, MpReaders, MpAlone, MpClaims, Writing, Reading
<1>5. MpFilled /\ MpPast
  BY <1>1 DEF MpFilled, MpPast
<1>6. MpFree
  <2> SUFFICES ASSUME NEW s \in 0 .. NodeCount - 1 PROVE next[Nodes!Node(s)] = s
    BY <1>1, MpConstants DEF MpFree
  <2>1. s % NodeCount = s /\ s \in Nodes!Nodes
    BY MpConstants DEF Nodes!Nodes
  <2> QED BY <1>1, <2>1 DEF Nodes!Node
<1> QED BY <1>3, <1>4, <1>5, <1>6 DEF MpInv

\* Steps of a client that owns no position, neither before nor after: only its own place in the code,
\* its position and its value change.
LEMMA MpQuiet ==
  ASSUME MpInv, NEW c \in Nodes!Clients, NEW l \in {"idle", "node", "claim", "reload"},
         UNCHANGED <<head, tail, next, data, claimed>>, pc' = [pc EXCEPT ![c] = l],
         ~Writing(c), ~Reading(c),
         seq' \in [Nodes!Clients -> Nat], val' \in [Nodes!Clients -> Held],
         \A x \in Nodes!Clients : x # c => seq'[x] = seq[x] /\ val'[x] = val[x],
         c \in NodeProducers =>
           seq'[c] <= head /\ (l = "claim" /\ seq'[c] = head => next[Nodes!Node(head)] = head),
         c \in NodeConsumers =>
           seq'[c] <= tail /\ (l = "claim" /\ seq'[c] = tail => next[Nodes!Node(tail)] = tail + 1)
  PROVE  MpInv'
<1>0. /\ MpTypeOK /\ MpWriters /\ MpReaders /\ MpAlone /\ MpFilled /\ MpFree /\ MpPast /\ MpClaims
      /\ NodeProducers \subseteq Nodes!Clients /\ NodeConsumers \subseteq Nodes!Clients
  BY MpConstants DEF MpInv
<1>1. /\ pc'[c] = l /\ \A x \in Nodes!Clients : x # c => pc'[x] = pc[x] /\ seq'[x] = seq[x] /\ val'[x] = val[x]
      /\ pc' \in [Nodes!Clients -> {"idle", "node", "claim", "reload", "write", "publish", "read", "release"}]
  BY <1>0 DEF MpTypeOK
<1>2. \A x \in Nodes!Clients :
        /\ Writing(x)' <=> Writing(x)
        /\ Reading(x)' <=> Reading(x)
        /\ Writing(x) \/ Reading(x) => x # c
  BY <1>1 DEF Writing, Reading
<1>3. MpTypeOK'
  BY <1>0, <1>1, <1>2 DEF MpTypeOK
<1>4. MpWriters'
  BY <1>0, <1>1, <1>2 DEF MpWriters
<1>5. MpReaders'
  BY <1>0, <1>1, <1>2 DEF MpReaders
<1>6. MpAlone'
  BY <1>0, <1>1, <1>2 DEF MpAlone
<1>7. MpFilled'
  BY <1>0, <1>1, <1>2 DEF MpFilled
<1>8. MpFree'
  BY <1>0, <1>1, <1>2 DEF MpFree
<1>9. MpPast'
  BY <1>0 DEF MpPast
<1>10. MpClaims'
  BY <1>0, <1>1 DEF MpClaims
<1> QED BY <1>3, <1>4, <1>5, <1>6, <1>7, <1>8, <1>9, <1>10 DEF MpInv

\* produce and consume: the first load of the counter.
LEMMA MpEnters ==
  ASSUME MpInv,
         \/ \E x \in NodeProducers, v \in NodeValues : Nodes!produce(x, v)
         \/ \E x \in NodeConsumers : Nodes!consume(x)
  PROVE  MpInv'
<1>0. MpTypeOK /\ NodeProducers \subseteq Nodes!Clients /\ NodeConsumers \subseteq Nodes!Clients
      /\ NodeProducers \cap NodeConsumers = {}
  BY MpConstants DEF MpInv
<1>1. CASE \E x \in NodeProducers, v \in NodeValues : Nodes!produce(x, v)
  <2>1. PICK x \in NodeProducers, v \in NodeValues : Nodes!produce(x, v)
    BY <1>1
  <2>2. /\ pc[x] = "idle" /\ pc' = [pc EXCEPT ![x] = "node"] /\ seq' = [seq EXCEPT ![x] = head]
        /\ val' = [val EXCEPT ![x] = v] /\ UNCHANGED <<head, tail, next, data, claimed>>
    BY <2>1 DEF Nodes!produce, Nodes!Goto
  <2>3. /\ seq' \in [Nodes!Clients -> Nat] /\ val' \in [Nodes!Clients -> Held] /\ seq'[x] = head
        /\ \A y \in Nodes!Clients : y # x => seq'[y] = seq[y] /\ val'[y] = val[y]
    BY <1>0, <2>2 DEF MpTypeOK, Held
  <2>4. head <= head
    BY <1>0 DEF MpTypeOK
  <2> QED BY <1>0, <2>2, <2>3, <2>4, MpQuiet DEF Writing, Reading
<1>2. CASE \E x \in NodeConsumers : Nodes!consume(x)
  <2>1. PICK x \in NodeConsumers : Nodes!consume(x)
    BY <1>2
  <2>2. /\ pc[x] = "idle" /\ pc' = [pc EXCEPT ![x] = "node"] /\ seq' = [seq EXCEPT ![x] = tail]
        /\ UNCHANGED <<head, tail, next, data, val, claimed>>
    BY <2>1 DEF Nodes!consume, Nodes!Goto
  <2>3. /\ seq' \in [Nodes!Clients -> Nat] /\ val' \in [Nodes!Clients -> Held] /\ seq'[x] = tail
        /\ \A y \in Nodes!Clients : y # x => seq'[y] = seq[y] /\ val'[y] = val[y]
    BY <1>0, <2>2 DEF MpTypeOK
  <2>4. tail <= tail
    BY <1>0 DEF MpTypeOK
  <2> QED BY <1>0, <2>2, <2>3, <2>4, MpQuiet DEF Writing, Reading
<1> QED BY <1>1, <1>2

\* The load of the node's number: whoever goes on to claim has seen it right.
LEMMA MpLooks ==
  ASSUME MpInv, NEW c \in Nodes!Clients, Nodes!MyTurn(c) \/ Nodes!GiveUp(c) \/ Nodes!Behind(c)
  PROVE  MpInv'
<1>0. /\ MpTypeOK /\ pc[c] = "node" /\ ~Writing(c) /\ ~Reading(c)
      /\ NodeProducers \cap NodeConsumers = {} /\ Nodes!Clients = NodeProducers \cup NodeConsumers
  BY MpConstants DEF MpInv, Nodes!MyTurn, Nodes!GiveUp, Nodes!Behind, Writing, Reading
<1>1. CASE Nodes!MyTurn(c)
  <2>1. /\ pc' = [pc EXCEPT ![c] = "claim"] /\ UNCHANGED <<head, tail, next, data, seq, val, claimed>>
        /\ next[Nodes!Node(seq[c])] - (IF c \in NodeProducers THEN seq[c] ELSE seq[c] + 1) = 0
    BY <1>1 DEF Nodes!MyTurn, Nodes!Goto, Nodes!Turn, Nodes!Filled
  <2>2. seq[c] \in Nat /\ next[Nodes!Node(seq[c])] \in Nat
    BY <1>0, MpNodes DEF MpTypeOK
  <2>3. /\ c \in NodeProducers => next[Nodes!Node(seq[c])] = seq[c]
        /\ c \in NodeConsumers => next[Nodes!Node(seq[c])] = seq[c] + 1
    BY <1>0, <2>1, <2>2
  <2>4. seq' \in [Nodes!Clients -> Nat] /\ val' \in [Nodes!Clients -> Held] /\ seq' = seq /\ val' = val
    BY <1>0, <2>1 DEF MpTypeOK
  <2>5. (c \in NodeProducers => seq[c] <= head) /\ (c \in NodeConsumers => seq[c] <= tail)
    BY <1>0 DEF MpTypeOK
  <2> QED BY <1>0, <2>1, <2>3, <2>4, <2>5, MpQuiet
<1>2. CASE Nodes!GiveUp(c)
  <2>1. /\ pc' = [pc EXCEPT ![c] = "idle"] /\ seq' = [seq EXCEPT ![c] = 0]
        /\ val' = [val EXCEPT ![c] = NoValue] /\ UNCHANGED <<head, tail, next, data, claimed>>
    BY <1>2 DEF Nodes!GiveUp, Nodes!Goto, Nodes!Return
  <2>2. /\ seq' \in [Nodes!Clients -> Nat] /\ val' \in [Nodes!Clients -> Held] /\ seq'[c] = 0
        /\ \A y \in Nodes!Clients : y # c => seq'[y] = seq[y] /\ val'[y] = val[y]
    BY <1>0, <2>1 DEF MpTypeOK, Held
  <2>3. 0 <= head /\ 0 <= tail
    BY <1>0 DEF MpTypeOK
  <2> QED BY <1>0, <2>1, <2>2, <2>3, MpQuiet
<1>3. CASE Nodes!Behind(c)
  <2>1. pc' = [pc EXCEPT ![c] = "reload"] /\ UNCHANGED <<head, tail, next, data, seq, val, claimed>>
    BY <1>3 DEF Nodes!Behind, Nodes!Goto
  <2>2. seq' \in [Nodes!Clients -> Nat] /\ val' \in [Nodes!Clients -> Held] /\ seq' = seq /\ val' = val
    BY <1>0, <2>1 DEF MpTypeOK
  <2>3. (c \in NodeProducers => seq[c] <= head) /\ (c \in NodeConsumers => seq[c] <= tail)
    BY <1>0 DEF MpTypeOK
  <2> QED BY <1>0, <2>1, <2>2, <2>3, MpQuiet
<1> QED BY <1>1, <1>2, <1>3

\* Another load of the counter, by itself or as the outcome of a compare-exchange that failed.
LEMMA MpReloads ==
  ASSUME MpInv, NEW c \in Nodes!Clients, Nodes!Reload(c) \/ Nodes!ClaimFails(c)
  PROVE  MpInv'
<1>0. /\ MpTypeOK /\ ~Writing(c) /\ ~Reading(c)
      /\ NodeProducers \cap NodeConsumers = {} /\ Nodes!Clients = NodeProducers \cup NodeConsumers
  BY MpConstants DEF MpInv, Nodes!Reload, Nodes!ClaimFails, Writing, Reading
<1>1. /\ pc' = [pc EXCEPT ![c] = "node"] /\ seq' = [seq EXCEPT ![c] = Nodes!Counter(c)]
      /\ UNCHANGED <<head, tail, next, data, val, claimed>>
  BY DEF Nodes!Reload, Nodes!ClaimFails, Nodes!Goto
<1>2. /\ Nodes!Counter(c) \in Nat /\ (c \in NodeProducers => Nodes!Counter(c) <= head)
      /\ (c \in NodeConsumers => Nodes!Counter(c) <= tail)
  BY <1>0 DEF MpTypeOK, Nodes!Counter
<1>3. /\ seq' \in [Nodes!Clients -> Nat] /\ val' \in [Nodes!Clients -> Held] /\ seq'[c] = Nodes!Counter(c)
      /\ \A y \in Nodes!Clients : y # c => seq'[y] = seq[y] /\ val'[y] = val[y]
  BY <1>0, <1>1, <1>2 DEF MpTypeOK
<1> QED BY <1>0, <1>1, <1>2, <1>3, MpQuiet

\* In a ring of more than one node, a node that is ready for the position head is not one that is
\* being written, filled or read.
LEMMA MpReady ==
  ASSUME MpInv, NodeCount > 1, next[Nodes!Node(head)] = head
  PROVE  /\ head < tail + NodeCount
         /\ \A x \in NodeConsumers : Reading(x) => head < seq[x] + NodeCount
<1>0. /\ MpTypeOK /\ head \in Nat /\ tail \in Nat /\ tail <= head /\ head <= tail + NodeCount
      /\ NodeCount \in Nat /\ NodeProducers \subseteq Nodes!Clients /\ NodeConsumers \subseteq Nodes!Clients
  BY MpConstants DEF MpInv, MpTypeOK
<1>1. ASSUME head = tail + NodeCount PROVE FALSE
  <2>1. Nodes!Node(head) = Nodes!Node(tail) /\ tail \in tail .. head - 1
    BY <1>0, <1>1, MpNodes
  <2>2. next[Nodes!Node(tail)] = tail \/ next[Nodes!Node(tail)] = tail + 1
    <3>1. CASE \E x \in NodeProducers : Writing(x) /\ seq[x] = tail
      BY <3>1 DEF MpInv, MpWriters
    <3>2. CASE next[Nodes!Node(tail)] = tail + 1
      BY <3>2
    <3> QED BY <2>1, <3>1, <3>2 DEF MpInv, MpFilled
  <2> QED BY <1>0, <1>1, <2>1, <2>2
<1>2. ASSUME NEW x \in NodeConsumers, Reading(x) PROVE head < seq[x] + NodeCount
  <2>1. seq[x] \in Nat /\ head <= seq[x] + NodeCount /\ next[Nodes!Node(seq[x])] = seq[x] + 1
    BY <1>0, <1>2 DEF MpInv, MpTypeOK, MpReaders
  <2>2. ASSUME head = seq[x] + NodeCount PROVE FALSE
    <3>1. Nodes!Node(head) = Nodes!Node(seq[x])
      BY <2>1, <2>2, MpNodes
    <3> QED BY <1>0, <2>1, <2>2, <3>1
  <2> QED BY <1>0, <2>1, <2>2
<1> QED BY <1>0, <1>1, <1>2

\* A node whose number says that the position tail is filled belongs to a claimed position, which
\* nobody writes any more.
LEMMA MpFull ==
  ASSUME MpInv, next[Nodes!Node(tail)] = tail + 1
  PROVE  /\ tail < head /\ data[Nodes!Node(tail)] = claimed[tail + 1]
         /\ \A x \in NodeProducers : Writing(x) => tail < seq[x]
<1>0. /\ MpTypeOK /\ head \in Nat /\ tail \in Nat /\ tail <= head /\ head <= tail + NodeCount
      /\ NodeCount \in Nat \ {0} /\ NodeProducers \subseteq Nodes!Clients
  BY MpConstants DEF MpInv, MpTypeOK
<1>1. \A x \in NodeProducers : Writing(x) => tail < seq[x]
  <2> SUFFICES ASSUME NEW x \in NodeProducers, Writing(x) PROVE tail < seq[x]
    OBVIOUS
  <2>1. seq[x] \in Nat /\ tail <= seq[x] /\ next[Nodes!Node(seq[x])] = seq[x]
    BY <1>0 DEF MpInv, MpTypeOK, MpWriters
  <2>2. seq[x] # tail
    BY <1>0, <2>1
  <2> QED BY <1>0, <2>1, <2>2
<1>2. ASSUME head = tail PROVE FALSE
  <2>1. tail \in head .. tail + NodeCount - 1
    BY <1>0, <1>2
  <2>2. CASE \E x \in NodeConsumers : Reading(x) /\ seq[x] = tail - NodeCount
    <3>1. PICK x \in NodeConsumers : Reading(x) /\ seq[x] = tail - NodeCount
      BY <2>2
    <3>2. seq[x] \in Nat /\ next[Nodes!Node(seq[x])] = seq[x] + 1 /\ seq[x] + NodeCount = tail
      BY <1>0, <3>1, MpConstants DEF MpInv, MpTypeOK, MpReaders
    <3>3. Nodes!Node(tail) = Nodes!Node(seq[x])
      BY <3>2, MpNodes
    <3> QED BY <1>0, <3>2, <3>3
  <2>3. CASE next[Nodes!Node(tail)] = tail
    BY <1>0, <2>3
  <2> QED BY <2>1, <2>2, <2>3 DEF MpInv, MpFree
<1>3. tail < head
  BY <1>0, <1>2
<1>4. data[Nodes!Node(tail)] = claimed[tail + 1]
  <2>1. tail \in tail .. head - 1
    BY <1>0, <1>3
  <2>2. ~ \E x \in NodeProducers : Writing(x) /\ seq[x] = tail
    BY <1>0, <1>1
  <2> QED BY <2>1, <2>2 DEF MpInv, MpFilled
<1> QED BY <1>1, <1>3, <1>4

\* A producer wins the position head.
LEMMA MpClaimHead ==
  ASSUME MpInv, NodeCount > 1, NEW c \in NodeProducers, Nodes!ClaimHead(c)
  PROVE  MpInv'
<1>0. /\ MpTypeOK /\ MpWriters /\ MpReaders /\ MpAlone /\ MpFilled /\ MpFree /\ MpPast /\ MpClaims
      /\ NodeProducers \subseteq Nodes!Clients /\ NodeConsumers \subseteq Nodes!Clients
      /\ NodeProducers \cap NodeConsumers = {} /\ NodeCount \in Nat
      /\ head \in Nat /\ tail \in Nat /\ tail <= head
  BY MpConstants DEF MpInv, MpTypeOK
<1>1. /\ pc[c] = "claim" /\ seq[c] = head /\ pc' = [pc EXCEPT ![c] = "write"]
      /\ head' = head + 1 /\ claimed' = Append(claimed, val[c])
      /\ UNCHANGED <<tail, next, data, seq, val>>
  BY DEF Nodes!ClaimHead, Nodes!Unmoved, Nodes!Counter, Nodes!Goto
<1>2. /\ next[Nodes!Node(head)] = head /\ head < tail + NodeCount
      /\ \A x \in NodeConsumers : Reading(x) => head < seq[x] + NodeCount
  BY <1>0, <1>1, MpReady DEF MpClaims
<1>3. /\ claimed' \in Seq(Held) /\ Len(claimed') = head + 1 /\ claimed'[head + 1] = val[c]
      /\ \A i \in 1 .. head : claimed'[i] = claimed[i]
  BY <1>0, <1>1 DEF MpTypeOK
<1>4. /\ pc'[c] = "write" /\ \A x \in Nodes!Clients : x # c => pc'[x] = pc[x]
      /\ pc' \in [Nodes!Clients -> {"idle", "node", "claim", "reload", "write", "publish", "read", "release"}]
  BY <1>0, <1>1 DEF MpTypeOK
<1>5. /\ \A x \in NodeProducers : x # c => (Writing(x)' <=> Writing(x))
      /\ Writing(c)' /\ ~Reading(c)'
      /\ \A x \in NodeConsumers : Reading(x)' <=> Reading(x)
      /\ \A x \in NodeConsumers : pc'[x] = pc[x]
  BY <1>0, <1>4 DEF Writing, Reading
<1>6. MpTypeOK'
  <2>1. \A x \in NodeProducers : ~Reading(x)' /\ seq'[x] <= head'
    BY <1>0, <1>1, <1>4 DEF MpTypeOK, Reading
  <2>2. \A x \in NodeConsumers : ~Writing(x)' /\ seq'[x] <= tail'
    BY <1>0, <1>1, <1>5 DEF MpTypeOK, Writing
  <2> QED BY <1>0, <1>1, <1>2, <1>3, <1>4, <2>1, <2>2 DEF MpTypeOK
<1>7. MpWriters'
  <2> SUFFICES ASSUME NEW x \in NodeProducers, Writing(x)'
               PROVE  /\ tail <= seq[x] /\ seq[x] < head + 1
                      /\ next[Nodes!Node(seq[x])] = seq[x] /\ val[x] = claimed'[seq[x] + 1]
                      /\ pc'[x] = "publish" => data[Nodes!Node(seq[x])] = claimed'[seq[x] + 1]
    BY <1>1 DEF MpWriters
  <2>1. CASE x = c
    BY <1>0, <1>1, <1>2, <1>3, <1>4, <2>1
  <2>2. CASE x # c
    <3>1. seq[x] \in Nat /\ tail <= seq[x] /\ seq[x] < head
      BY <1>0, <1>5, <2>2 DEF MpWriters, MpTypeOK
    <3>2. seq[x] + 1 \in 1 .. head
      BY <1>0, <3>1
    <3> QED BY <1>0, <1>3, <1>4, <1>5, <2>2, <3>1, <3>2 DEF MpWriters
  <2> QED BY <2>1, <2>2
<1>8. MpReaders'
  <2> SUFFICES ASSUME NEW x \in NodeConsumers, Reading(x)
               PROVE  /\ seq[x] < tail /\ head + 1 <= seq[x] + NodeCount
                      /\ next[Nodes!Node(seq[x])] = seq[x] + 1
                      /\ data[Nodes!Node(seq[x])] = claimed'[seq[x] + 1]
                      /\ pc[x] = "release" => val[x] = claimed'[seq[x] + 1]
    BY <1>1, <1>5 DEF MpReaders
  <2>1. seq[x] \in Nat /\ seq[x] < tail /\ head < seq[x] + NodeCount
    BY <1>0, <1>2 DEF MpReaders, MpTypeOK
  <2>2. seq[x] + 1 \in 1 .. head /\ head + 1 <= seq[x] + NodeCount
    BY <1>0, <2>1
  <2> QED BY <1>0, <1>3, <2>1, <2>2 DEF MpReaders
<1>9. MpAlone'
  <2>1. \A x \in NodeProducers : x # c /\ Writing(x)' => seq[x] # head
    BY <1>0, <1>5 DEF MpWriters, MpTypeOK
  <2> QED BY <1>0, <1>1, <1>5, <2>1 DEF MpAlone
<1>10. MpFilled'
  <2> SUFFICES ASSUME NEW s \in tail .. (head + 1) - 1
               PROVE  \/ \E x \in NodeProducers : Writing(x)' /\ seq[x] = s
                      \/ next[Nodes!Node(s)] = s + 1 /\ data[Nodes!Node(s)] = claimed'[s + 1]
    BY <1>1 DEF MpFilled
  <2>1. CASE s = head
    BY <1>1, <1>5, <2>1
  <2>2. CASE s # head
    <3>1. s \in tail .. head - 1 /\ s + 1 \in 1 .. head
      BY <1>0, <2>2
    <3>2. CASE \E x \in NodeProducers : Writing(x) /\ seq[x] = s
      BY <1>1, <1>5, <3>2
    <3>3. CASE next[Nodes!Node(s)] = s + 1 /\ data[Nodes!Node(s)] = claimed[s + 1]
      BY <1>3, <3>1, <3>3
    <3> QED BY <1>0, <3>1, <3>2, <3>3 DEF MpFilled
  <2> QED BY <2>1, <2>2
<1>11. MpFree'
  <2>1. \A s \in head + 1 .. tail + NodeCount - 1 : s \in head .. tail + NodeCount - 1
    BY <1>0
  <2> QED BY <1>0, <1>1, <1>5, <2>1 DEF MpFree
<1>12. MpPast'
  BY <1>0, <1>1 DEF MpPast
<1>13. MpClaims'
  <2>1. \A x \in NodeProducers : seq[x] # head + 1
    BY <1>0 DEF MpTypeOK
  <2> QED BY <1>0, <1>1, <1>5, <2>1 DEF MpClaims
<1> QED BY <1>6, <1>7, <1>8, <1>9, <1>10, <1>11, <1>12, <1>13 DEF MpInv

\* A consumer wins the position tail.
LEMMA MpClaimTail ==
  ASSUME MpInv, NEW c \in NodeConsumers, Nodes!ClaimTail(c)
  PROVE  MpInv'
<1>0. /\ MpTypeOK /\ MpWriters /\ MpReaders /\ MpAlone /\ MpFilled /\ MpFree /\ MpPast /\ MpClaims
      /\ NodeProducers \subseteq Nodes!Clients /\ NodeConsumers \subseteq Nodes!Clients
      /\ NodeProducers \cap NodeConsumers = {} /\ NodeCount \in Nat
      /\ head \in Nat /\ tail \in Nat /\ tail <= head /\ head <= tail + NodeCount
  BY MpConstants DEF MpInv, MpTypeOK
<1>1. /\ pc[c] = "claim" /\ seq[c] = tail /\ pc' = [pc EXCEPT ![c] = "read"]
      /\ tail' = tail + 1
      /\ UNCHANGED <<head, next, data, seq, val, claimed>>
  BY <1>0 DEF Nodes!ClaimTail, Nodes!Unmoved, Nodes!Counter, Nodes!Goto
<1>2. /\ next[Nodes!Node(tail)] = tail + 1
      /\ tail < head /\ data[Nodes!Node(tail)] = claimed[tail + 1]
      /\ \A x \in NodeProducers : Writing(x) => tail < seq[x]
  BY <1>0, <1>1, MpFull DEF MpClaims
<1>4. /\ pc'[c] = "read" /\ \A x \in Nodes!Clients : x # c => pc'[x] = pc[x]
      /\ pc' \in [Nodes!Clients -> {"idle", "node", "claim", "reload", "write", "publish", "read", "release"}]
  BY <1>0, <1>1 DEF MpTypeOK
<1>5. /\ \A x \in NodeConsumers : x # c => (Reading(x)' <=> Reading(x))
      /\ Reading(c)' /\ ~Writing(c)'
      /\ \A x \in NodeProducers : Writing(x)' <=> Writing(x)
      /\ \A x \in NodeProducers : pc'[x] = pc[x]
  BY <1>0, <1>4 DEF Writing, Reading
<1>6. MpTypeOK'
  <2>1. \A x \in NodeProducers : ~Reading(x)' /\ seq'[x] <= head'
    BY <1>0, <1>1, <1>5 DEF MpTypeOK, Reading
  <2>2. \A x \in NodeConsumers : ~Writing(x)' /\ seq'[x] <= tail'
    BY <1>0, <1>1, <1>4 DEF MpTypeOK, Writing
  <2> QED BY <1>0, <1>1, <1>2, <1>4, <2>1, <2>2 DEF MpTypeOK
<1>7. MpWriters'
  <2>1. \A x \in NodeProducers : Writing(x) => tail + 1 <= seq[x]
    BY <1>0, <1>2 DEF MpTypeOK
  <2> QED BY <1>0, <1>1, <1>5, <2>1 DEF MpWriters
<1>8. MpReaders'
  <2> SUFFICES ASSUME NEW x \in NodeConsumers, Reading(x)'
               PROVE  /\ seq[x] < tail + 1 /\ head <= seq[x] + NodeCount
                      /\ next[Nodes!Node(seq[x])] = seq[x] + 1
                      /\ data[Nodes!Node(seq[x])] = claimed[seq[x] + 1]
                      /\ pc'[x] = "release" => val[x] = claimed[seq[x] + 1]
    BY <1>1 DEF MpReaders
  <2>1. CASE x = c
    BY <1>0, <1>1, <1>2, <1>4, <2>1
  <2>2. CASE x # c
    <3>1. seq[x] \in Nat /\ seq[x] < tail
      BY <1>0, <1>5, <2>2 DEF MpReaders, MpTypeOK
    <3>2. seq[x] < tail + 1
      BY <1>0, <3>1
    <3> QED BY <1>0, <1>4, <1>5, <2>2, <3>2 DEF MpReaders
  <2> QED BY <2>1, <2>2
<1>9. MpAlone'
  <2>1. \A x \in NodeConsumers : x # c /\ Reading(x)' => seq[x] # tail
    BY <1>0, <1>5 DEF MpReaders, MpTypeOK
  <2> QED BY <1>0, <1>1, <1>5, <2>1 DEF MpAlone
<1>10. MpFilled'
  <2>1. \A s \in tail + 1 .. head - 1 : s \in tail .. head - 1
    BY <1>0
  <2> QED BY <1>0, <1>1, <1>5, <2>1 DEF MpFilled
<1>11. MpFree'
  <2> SUFFICES ASSUME NEW s \in head .. (tail + 1) + NodeCount - 1
               PROVE  \/ \E x \in NodeConsumers : Reading(x)' /\ seq[x] = s - NodeCount
                      \/ next[Nodes!Node(s)] = s
    BY <1>1 DEF MpFree
  <2>1. CASE s = tail + NodeCount
    <3>1. seq[c] = s - NodeCount
      BY <1>0, <1>1, <2>1
    <3> QED BY <1>5, <3>1
  <2>2. CASE s # tail + NodeCount
    <3>1. s \in head .. tail + NodeCount - 1
      BY <1>0, <2>2
    <3>2. CASE \E x \in NodeConsumers : Reading(x) /\ seq[x] = s - NodeCount
      BY <1>5, <3>2
    <3> QED BY <1>0, <3>1, <3>2 DEF MpFree
  <2> QED BY <2>1, <2>2
<1>12. MpPast'
  <2> SUFFICES ASSUME NEW s \in 0 .. (tail + 1) - 1 PROVE next[Nodes!Node(s)] > s
    BY <1>1 DEF MpPast
  <2>1. CASE s = tail
    BY <1>0, <1>2, <2>1
  <2>2. CASE s # tail
    <3>1. s \in 0 .. tail - 1
      BY <1>0, <2>2
    <3> QED BY <1>0, <3>1 DEF MpPast
  <2> QED BY <2>1, <2>2
<1>13. MpClaims'
  <2>1. \A x \in NodeConsumers : seq[x] # tail + 1
    BY <1>0 DEF MpTypeOK
  <2> QED BY <1>0, <1>1, <1>5, <2>1 DEF MpClaims
<1> QED BY <1>6, <1>7, <1>8, <1>9, <1>10, <1>11, <1>12, <1>13 DEF MpInv

\* Steps of a client on the node of its own position change nothing of the others.
LEMMA MpOthers ==
  ASSUME MpInv, NEW c \in Nodes!Clients, Writing(c) \/ Reading(c)
  PROVE  /\ \A x \in NodeProducers : x # c /\ Writing(x) => Nodes!Node(seq[x]) # Nodes!Node(seq[c])
         /\ \A x \in NodeConsumers : x # c /\ Reading(x) => Nodes!Node(seq[x]) # Nodes!Node(seq[c])
         /\ \A s \in tail .. head - 1 : s # seq[c] => Nodes!Node(s) # Nodes!Node(seq[c])
<1>0. /\ MpTypeOK /\ MpWriters /\ MpReaders /\ MpAlone /\ NodeCount \in Nat
      /\ Nodes!Clients = NodeProducers \cup NodeConsumers
      /\ head \in Nat /\ tail \in Nat /\ tail <= head /\ head <= tail + NodeCount
      /\ \A x \in Nodes!Clients : seq[x] \in Nat
  BY MpConstants DEF MpInv, MpTypeOK
<1>1. /\ seq[c] \in Nat /\ seq[c] < head /\ head <= seq[c] + NodeCount
      /\ Writing(c) => c \in NodeProducers /\ tail <= seq[c]
      /\ Reading(c) => c \in NodeConsumers /\ seq[c] < tail
  BY <1>0 DEF MpTypeOK, MpWriters, MpReaders
<1>2. ASSUME NEW x \in Nodes!Clients, x # c, Writing(x) \/ Reading(x)
      PROVE  Nodes!Node(seq[x]) # Nodes!Node(seq[c])
  <2>1. /\ seq[x] \in Nat /\ seq[x] < head /\ head <= seq[x] + NodeCount
        /\ Writing(x) => x \in NodeProducers /\ tail <= seq[x]
        /\ Reading(x) => x \in NodeConsumers /\ seq[x] < tail
    BY <1>0, <1>2 DEF MpTypeOK, MpWriters, MpReaders
  <2>2. seq[x] # seq[c]
    <3>1. CASE Writing(c) /\ Writing(x)
      BY <1>0, <1>1, <1>2, <2>1, <3>1 DEF MpAlone
    <3>2. CASE Reading(c) /\ Reading(x)
      BY <1>0, <1>1, <1>2, <2>1, <3>2 DEF MpAlone
    <3>3. CASE Writing(c) /\ Reading(x)
      BY <1>0, <1>1, <2>1, <3>3
    <3>4. CASE Reading(c) /\ Writing(x)
      BY <1>0, <1>1, <2>1, <3>4
    <3> QED BY <1>2, <3>1, <3>2, <3>3, <3>4
  <2>3. seq[x] - seq[c] < NodeCount /\ seq[c] - seq[x] < NodeCount
    BY <1>0, <1>1, <2>1
  <2> QED BY <1>1, <2>1, <2>2, <2>3, MpNodes
<1>3. ASSUME NEW s \in tail .. head - 1, s # seq[c] PROVE Nodes!Node(s) # Nodes!Node(seq[c])
  <2>1. s \in Nat /\ s - seq[c] < NodeCount /\ seq[c] - s < NodeCount
    BY <1>0, <1>1, <1>3
  <2> QED BY <1>1, <1>3, <2>1, MpNodes
<1> QED BY <1>0, <1>2, <1>3

\* A producer copies its value into its node.
LEMMA MpWrite ==
  ASSUME MpInv, NEW c \in Nodes!Clients, Nodes!Write(c)
  PROVE  MpInv'
<1>0. /\ MpTypeOK /\ MpWriters /\ MpReaders /\ MpAlone /\ MpFilled /\ MpFree /\ MpPast /\ MpClaims
      /\ NodeProducers \subseteq Nodes!Clients /\ NodeConsumers \subseteq Nodes!Clients
      /\ Nodes!Clients = NodeProducers \cup NodeConsumers
  BY MpConstants DEF MpInv
<1>1. /\ pc[c] = "write" /\ pc' = [pc EXCEPT ![c] = "publish"]
      /\ data' = [data EXCEPT ![Nodes!Node(seq[c])] = val[c]]
      /\ UNCHANGED <<head, tail, next, seq, val, claimed>>
  BY DEF Nodes!Write, Nodes!Goto
<1>2. /\ Writing(c) /\ c \in NodeProducers /\ seq[c] \in Nat /\ val[c] \in Held
      /\ val[c] = claimed[seq[c] + 1] /\ Nodes!Node(seq[c]) \in Nodes!Nodes
  BY <1>0, <1>1, MpNodes DEF MpTypeOK, MpWriters, Writing
<1>3. /\ \A x \in NodeProducers : x # c /\ Writing(x) => Nodes!Node(seq[x]) # Nodes!Node(seq[c])
      /\ \A x \in NodeConsumers : x # c /\ Reading(x) => Nodes!Node(seq[x]) # Nodes!Node(seq[c])
      /\ \A s \in tail .. head - 1 : s # seq[c] => Nodes!Node(s) # Nodes!Node(seq[c])
  BY <1>2, MpOthers
<1>4. /\ pc'[c] = "publish" /\ \A x \in Nodes!Clients : x # c => pc'[x] = pc[x]
      /\ pc' \in [Nodes!Clients -> {"idle", "node", "claim", "reload", "write", "publish", "read", "release"}]
  BY <1>0, <1>1 DEF MpTypeOK
<1>5. /\ \A x \in Nodes!Clients : (Writing(x)' <=> Writing(x)) /\ (Reading(x)' <=> Reading(x))
      /\ \A x \in NodeConsumers : Reading(x) => x # c
  BY <1>0, <1>1, <1>4 DEF Writing, Reading
<1>6. /\ data' \in [Nodes!Nodes -> Held] /\ data'[Nodes!Node(seq[c])] = claimed[seq[c] + 1]
      /\ \A n \in Nodes!Nodes : n # Nodes!Node(seq[c]) => data'[n] = data[n]
  BY <1>0, <1>1, <1>2 DEF MpTypeOK
<1>7. /\ \A x \in Nodes!Clients : Nodes!Node(seq[x]) \in Nodes!Nodes
      /\ \A s \in tail .. head - 1 : Nodes!Node(s) \in Nodes!Nodes
  BY <1>0, MpNodes DEF MpTypeOK
<1>8. MpTypeOK'
  BY <1>0, <1>1, <1>4, <1>5, <1>6 DEF MpTypeOK
<1>9. MpWriters'
  <2> SUFFICES ASSUME NEW x \in NodeProducers, Writing(x)
               PROVE  /\ tail <= seq[x] /\ seq[x] < head
                      /\ next[Nodes!Node(seq[x])] = seq[x] /\ val[x] = claimed[seq[x] + 1]
                      /\ pc'[x] = "publish" => data'[Nodes!Node(seq[x])] = claimed[seq[x] + 1]
    BY <1>0, <1>1, <1>5 DEF MpWriters
  <2>1. CASE x = c
    BY <1>0, <1>2, <1>6, <2>1 DEF MpWriters
  <2>2. CASE x # c
    BY <1>0, <1>3, <1>4, <1>6, <1>7, <2>2 DEF MpWriters
  <2> QED BY <2>1, <2>2
<1>10. MpReaders'
  <2> SUFFICES ASSUME NEW x \in NodeConsumers, Reading(x)
               PROVE  /\ seq[x] < tail /\ head <= seq[x] + NodeCount
                      /\ next[Nodes!Node(seq[x])] = seq[x] + 1
                      /\ data'[Nodes!Node(seq[x])] = claimed[seq[x] + 1]
                      /\ pc'[x] = "release" => val[x] = claimed[seq[x] + 1]
    BY <1>0, <1>1, <1>5 DEF MpReaders
  <2>1. x # c
    BY <1>5
  <2> QED BY <1>0, <1>3, <1>4, <1>6, <1>7, <2>1 DEF MpReaders
<1>11. MpAlone' /\ MpFree' /\ MpPast'
  BY <1>0, <1>1, <1>5 DEF MpAlone, MpFree, MpPast
<1>12. MpFilled'
  <2> SUFFICES ASSUME NEW s \in tail .. head - 1
               PROVE  \/ \E x \in NodeProducers : Writing(x) /\ seq[x] = s
                      \/ next[Nodes!Node(s)] = s + 1 /\ data'[Nodes!Node(s)] = claimed[s + 1]
    BY <1>0, <1>1, <1>5 DEF MpFilled
  <2>1. CASE s = seq[c]
    BY <1>2, <2>1
  <2>2. CASE s # seq[c]
    BY <1>0, <1>3, <1>6, <1>7, <2>2 DEF MpFilled
  <2> QED BY <2>1, <2>2
<1>13. MpClaims'
  BY <1>0, <1>1, <1>4 DEF MpClaims
<1> QED BY <1>8, <1>9, <1>10, <1>11, <1>12, <1>13 DEF MpInv

\* A consumer copies the value out of its node.
LEMMA MpRead ==
  ASSUME MpInv, NEW c \in Nodes!Clients, Nodes!Read(c)
  PROVE  MpInv'
<1>0. /\ MpTypeOK /\ MpWriters /\ MpReaders /\ MpAlone /\ MpFilled /\ MpFree /\ MpPast /\ MpClaims
      /\ NodeProducers \subseteq Nodes!Clients /\ NodeConsumers \subseteq Nodes!Clients
      /\ Nodes!Clients = NodeProducers \cup NodeConsumers
  BY MpConstants DEF MpInv
<1>1. /\ pc[c] = "read" /\ pc' = [pc EXCEPT ![c] = "release"]
      /\ val' = [val EXCEPT ![c] = data[Nodes!Node(seq[c])]]
      /\ UNCHANGED <<head, tail, next, data, seq, claimed>>
  BY DEF Nodes!Read, Nodes!Goto
<1>2. /\ Reading(c) /\ c \in NodeConsumers /\ data[Nodes!Node(seq[c])] \in Held
      /\ data[Nodes!Node(seq[c])] = claimed[seq[c] + 1]
  BY <1>0, <1>1, MpNodes DEF MpTypeOK, MpReaders, Reading
<1>3. /\ val' \in [Nodes!Clients -> Held] /\ val'[c] = claimed[seq[c] + 1]
      /\ \A x \in Nodes!Clients : x # c => val'[x] = val[x]
  BY <1>0, <1>1, <1>2 DEF MpTypeOK
<1>4. /\ pc'[c] = "release" /\ \A x \in Nodes!Clients : x # c => pc'[x] = pc[x]
      /\ pc' \in [Nodes!Clients -> {"idle", "node", "claim", "reload", "write", "publish", "read", "release"}]
  BY <1>0, <1>1 DEF MpTypeOK
<1>5. /\ \A x \in Nodes!Clients : (Writing(x)' <=> Writing(x)) /\ (Reading(x)' <=> Reading(x))
      /\ \A x \in NodeProducers : Writing(x) => x # c
  BY <1>0, <1>1, <1>4 DEF Writing, Reading
<1>6. MpTypeOK'
  BY <1>0, <1>1, <1>3, <1>4, <1>5 DEF MpTypeOK
<1>7. MpWriters'
  BY <1>0, <1>1, <1>3, <1>4, <1>5 DEF MpWriters
<1>8. MpReaders'
  BY <1>0, <1>1, <1>3, <1>4, <1>5 DEF MpReaders
<1>9. MpAlone' /\ MpFree' /\ MpPast' /\ MpFilled'
  BY <1>0, <1>1, <1>5 DEF MpAlone, MpFree, MpPast, MpFilled
<1>10. MpClaims'
  BY <1>0, <1>1, <1>4 DEF MpClaims
<1> QED BY <1>6, <1>7, <1>8, <1>9, <1>10 DEF MpInv

\* A client gives up its position: only the number of its node and what the client itself holds change.
LEMMA MpLeaves ==
  ASSUME MpTypeOK, NEW c \in Nodes!Clients, NEW m \in Nat,
         next' = [next EXCEPT ![Nodes!Node(seq[c])] = m], Nodes!Return(c),
         UNCHANGED <<head, tail, data, claimed>>
  PROVE  /\ MpTypeOK' /\ ~Writing(c)' /\ ~Reading(c)'
         /\ \A x \in Nodes!Clients : x # c =>
              /\ pc'[x] = pc[x] /\ seq'[x] = seq[x] /\ val'[x] = val[x]
              /\ (Writing(x)' <=> Writing(x)) /\ (Reading(x)' <=> Reading(x))
         /\ pc'[c] = "idle" /\ next'[Nodes!Node(seq[c])] = m
         /\ \A n \in Nodes!Nodes : n # Nodes!Node(seq[c]) => next'[n] = next[n]
<1>0. /\ NodeProducers \subseteq Nodes!Clients /\ NodeConsumers \subseteq Nodes!Clients
      /\ Nodes!Node(seq[c]) \in Nodes!Nodes
  BY MpConstants, MpNodes DEF MpTypeOK
<1>1. /\ pc' = [pc EXCEPT ![c] = "idle"] /\ seq' = [seq EXCEPT ![c] = 0] /\ val' = [val EXCEPT ![c] = NoValue]
  BY DEF Nodes!Return, Nodes!Goto
<1>2. /\ next' \in [Nodes!Nodes -> Nat] /\ next'[Nodes!Node(seq[c])] = m
      /\ \A n \in Nodes!Nodes : n # Nodes!Node(seq[c]) => next'[n] = next[n]
  BY <1>0 DEF MpTypeOK
<1>3. /\ pc' \in [Nodes!Clients -> {"idle", "node", "claim", "reload", "write", "publish", "read", "release"}]
      /\ seq' \in [Nodes!Clients -> Nat] /\ val' \in [Nodes!Clients -> Held]
      /\ pc'[c] = "idle" /\ seq'[c] = 0
      /\ \A x \in Nodes!Clients : x # c => pc'[x] = pc[x] /\ seq'[x] = seq[x] /\ val'[x] = val[x]
  BY <1>1 DEF MpTypeOK, Held
<1>4. /\ ~Writing(c)' /\ ~Reading(c)'
      /\ \A x \in Nodes!Clients : x # c => (Writing(x)' <=> Writing(x)) /\ (Reading(x)' <=> Reading(x))
  BY <1>3 DEF Writing, Reading
<1>5. /\ \A x \in NodeProducers : ~Reading(x)' /\ seq'[x] <= head
      /\ \A x \in NodeConsumers : ~Writing(x)' /\ seq'[x] <= tail
  <2>1. head \in Nat /\ tail \in Nat
    BY DEF MpTypeOK
  <2>2. /\ \A x \in NodeProducers : x = c \/ (~Reading(x) /\ seq[x] <= head)
        /\ \A x \in NodeConsumers : x = c \/ (~Writing(x) /\ seq[x] <= tail)
    BY DEF MpTypeOK
  <2> QED BY <1>0, <1>3, <2>1, <2>2 DEF Writing, Reading
<1>6. MpTypeOK'
  BY <1>2, <1>3, <1>5 DEF MpTypeOK
<1> QED BY <1>2, <1>3, <1>4, <1>6

\* A producer hands its node over: the position counts as filled.
LEMMA MpPublish ==
  ASSUME MpInv, NodeCount > 1, NEW c \in Nodes!Clients, Nodes!Publish(c)
  PROVE  MpInv'
<1>0. /\ MpTypeOK /\ MpWriters /\ MpReaders /\ MpAlone /\ MpFilled /\ MpFree /\ MpPast /\ MpClaims
      /\ NodeProducers \subseteq Nodes!Clients /\ NodeConsumers \subseteq Nodes!Clients
      /\ Nodes!Clients = NodeProducers \cup NodeConsumers /\ NodeCount \in Nat
      /\ head \in Nat /\ tail \in Nat /\ tail <= head /\ head <= tail + NodeCount
  BY MpConstants DEF MpInv, MpTypeOK
<1> DEFINE m == seq[c] + 1
<1>1. /\ pc[c] = "publish" /\ Nodes!Return(c) /\ next' = [next EXCEPT ![Nodes!Node(seq[c])] = m]
      /\ UNCHANGED <<head, tail, data, claimed>>
  BY DEF Nodes!Publish, Nodes!Filled
<1>2. /\ Writing(c) /\ ~Reading(c) /\ c \in NodeProducers /\ seq[c] \in Nat /\ m \in Nat /\ m = seq[c] + 1
      /\ tail <= seq[c] /\ seq[c] < head /\ next[Nodes!Node(seq[c])] = seq[c]
      /\ data[Nodes!Node(seq[c])] = claimed[seq[c] + 1] /\ Nodes!Node(seq[c]) \in Nodes!Nodes
  <2>1. Writing(c) /\ ~Reading(c) /\ c \in NodeProducers
    BY <1>0, <1>1 DEF MpTypeOK, Writing, Reading
  <2>2. seq[c] \in Nat
    BY <1>0 DEF MpTypeOK
  <2>3. /\ tail <= seq[c] /\ seq[c] < head /\ next[Nodes!Node(seq[c])] = seq[c]
        /\ data[Nodes!Node(seq[c])] = claimed[seq[c] + 1]
    BY <1>0, <1>1, <2>1 DEF MpWriters
  <2> QED BY <2>1, <2>2, <2>3, MpNodes
<1>3. /\ \A x \in NodeProducers : x # c /\ Writing(x) => Nodes!Node(seq[x]) # Nodes!Node(seq[c])
      /\ \A x \in NodeConsumers : x # c /\ Reading(x) => Nodes!Node(seq[x]) # Nodes!Node(seq[c])
      /\ \A s \in tail .. head - 1 : s # seq[c] => Nodes!Node(s) # Nodes!Node(seq[c])
  BY <1>2, MpOthers
<1> HIDE DEF m
<1>4. /\ MpTypeOK' /\ ~Writing(c)' /\ ~Reading(c)'
      /\ \A x \in Nodes!Clients : x # c =>
           /\ pc'[x] = pc[x] /\ seq'[x] = seq[x] /\ val'[x] = val[x]
           /\ (Writing(x)' <=> Writing(x)) /\ (Reading(x)' <=> Reading(x))
      /\ pc'[c] = "idle" /\ next'[Nodes!Node(seq[c])] = m
      /\ \A n \in Nodes!Nodes : n # Nodes!Node(seq[c]) => next'[n] = next[n]
  <2>1. MpTypeOK /\ m \in Nat
    BY <1>0, <1>2
  <2> QED BY <1>1, <2>1, MpLeaves
<1>5. /\ \A x \in Nodes!Clients : Nodes!Node(seq[x]) \in Nodes!Nodes
      /\ \A s \in Nat : Nodes!Node(s) \in Nodes!Nodes
      /\ \A x \in NodeProducers : Writing(x)' => x # c /\ Writing(x)
      /\ \A x \in NodeConsumers : (Reading(x)' <=> Reading(x)) /\ (Reading(x) => x # c)
  <2>1. \A x \in Nodes!Clients : Nodes!Node(seq[x]) \in Nodes!Nodes
    BY <1>0, MpNodes DEF MpTypeOK
  <2>2. \A x \in NodeProducers : Writing(x)' => x # c /\ Writing(x)
    BY <1>0, <1>4 DEF Writing
  <2>3. \A x \in NodeConsumers : (Reading(x)' <=> Reading(x)) /\ (Reading(x) => x # c)
    BY <1>0, <1>2, <1>4 DEF Reading
  <2> QED BY <2>1, <2>2, <2>3, MpNodes
<1>6. MpWriters'
  <2> SUFFICES ASSUME NEW x \in NodeProducers, Writing(x)'
               PROVE  /\ tail <= seq'[x] /\ seq'[x] < head
                      /\ next'[Nodes!Node(seq'[x])] = seq'[x] /\ val'[x] = claimed[seq'[x] + 1]
                      /\ pc'[x] = "publish" => data[Nodes!Node(seq'[x])] = claimed[seq'[x] + 1]
    BY <1>1 DEF MpWriters, Nodes!Node
  <2>1. x # c /\ Writing(x) /\ seq'[x] = seq[x] /\ val'[x] = val[x] /\ pc'[x] = pc[x]
    BY <1>0, <1>4, <1>5
  <2>2. next'[Nodes!Node(seq[x])] = next[Nodes!Node(seq[x])]
    BY <1>0, <1>3, <1>4, <1>5, <2>1
  <2> QED BY <1>0, <2>1, <2>2 DEF MpWriters
<1>7. MpReaders'
  <2> SUFFICES ASSUME NEW x \in NodeConsumers, Reading(x)'
               PROVE  /\ seq'[x] < tail /\ head <= seq'[x] + NodeCount
                      /\ next'[Nodes!Node(seq'[x])] = seq'[x] + 1
                      /\ data[Nodes!Node(seq'[x])] = claimed[seq'[x] + 1]
                      /\ pc'[x] = "release" => val'[x] = claimed[seq'[x] + 1]
    BY <1>1 DEF MpReaders, Nodes!Node
  <2>1. x # c /\ Reading(x) /\ seq'[x] = seq[x] /\ val'[x] = val[x] /\ pc'[x] = pc[x]
    BY <1>0, <1>4, <1>5
  <2>2. next'[Nodes!Node(seq[x])] = next[Nodes!Node(seq[x])]
    BY <1>0, <1>3, <1>4, <1>5, <2>1
  <2> QED BY <1>0, <2>1, <2>2 DEF MpReaders
<1>8. MpAlone'
  <2>1. \A x \in NodeProducers : Writing(x)' => Writing(x) /\ seq'[x] = seq[x]
    BY <1>0, <1>4, <1>5
  <2>2. \A x \in NodeConsumers : Reading(x)' => Reading(x) /\ seq'[x] = seq[x]
    BY <1>0, <1>4, <1>5
  <2> QED BY <1>0, <2>1, <2>2 DEF MpAlone
<1>9. MpFilled'
  <2> SUFFICES ASSUME NEW s \in tail .. head - 1
               PROVE  \/ \E x \in NodeProducers : Writing(x)' /\ seq'[x] = s
                      \/ next'[Nodes!Node(s)] = s + 1 /\ data[Nodes!Node(s)] = claimed[s + 1]
    BY <1>1 DEF MpFilled, Nodes!Node
  <2>1. CASE s = seq[c]
    BY <1>2, <1>4, <2>1
  <2>2. CASE s # seq[c]
    <3>1. next'[Nodes!Node(s)] = next[Nodes!Node(s)]
      BY <1>0, <1>3, <1>4, <1>5, <2>2
    <3>2. CASE \E x \in NodeProducers : Writing(x) /\ seq[x] = s
      BY <1>0, <1>4, <2>2, <3>2
    <3> QED BY <1>0, <3>1, <3>2 DEF MpFilled
  <2> QED BY <2>1, <2>2
<1>10. MpFree'
  <2> SUFFICES ASSUME NEW s \in head .. tail + NodeCount - 1
               PROVE  \/ \E x \in NodeConsumers : Reading(x)' /\ seq'[x] = s - NodeCount
                      \/ next'[Nodes!Node(s)] = s
    BY <1>1 DEF MpFree, Nodes!Node
  <2>1. CASE \E x \in NodeConsumers : Reading(x) /\ seq[x] = s - NodeCount
    BY <1>0, <1>4, <1>5, <2>1
  <2>2. CASE next[Nodes!Node(s)] = s
    <3>1. s \in Nat /\ s # seq[c] /\ s - seq[c] < NodeCount /\ seq[c] - s < NodeCount
      BY <1>0, <1>2
    <3>2. Nodes!Node(s) # Nodes!Node(seq[c])
      BY <1>2, <3>1, MpNodes
    <3> QED BY <1>4, <1>5, <2>2, <3>1, <3>2
  <2> QED BY <1>0, <2>1, <2>2 DEF MpFree
<1>11. MpPast'
  <2> SUFFICES ASSUME NEW s \in 0 .. tail - 1 PROVE next'[Nodes!Node(s)] > s
    BY <1>1 DEF MpPast, Nodes!Node
  <2>1. CASE Nodes!Node(s) = Nodes!Node(seq[c])
    BY <1>0, <1>2, <1>4, <2>1
  <2>2. CASE Nodes!Node(s) # Nodes!Node(seq[c])
    <3>1. s \in Nat
      BY <1>0
    <3> QED BY <1>0, <1>4, <1>5, <2>2, <3>1 DEF MpPast
  <2> QED BY <2>1, <2>2
<1>12. MpClaims'
  <2>1. ASSUME next[Nodes!Node(head)] = head PROVE next'[Nodes!Node(head)] = head
    <3>1. head < tail + NodeCount
      BY <2>1, MpReady
    <3>2. head # seq[c] /\ head - seq[c] < NodeCount /\ seq[c] - head < NodeCount
      BY <1>0, <1>2, <3>1
    <3>3. Nodes!Node(head) # Nodes!Node(seq[c])
      BY <1>0, <1>2, <3>2, MpNodes
    <3> QED BY <1>0, <1>4, <1>5, <2>1, <3>3
  <2>2. ASSUME next[Nodes!Node(tail)] = tail + 1 PROVE next'[Nodes!Node(tail)] = tail + 1
    <3>1. tail < seq[c]
      BY <1>2, <2>2, MpFull
    <3>2. tail - seq[c] < NodeCount /\ seq[c] - tail < NodeCount
      BY <1>0, <1>2, <3>1
    <3>3. Nodes!Node(tail) # Nodes!Node(seq[c])
      BY <1>0, <1>2, <3>1, <3>2, MpNodes
    <3> QED BY <1>0, <1>4, <1>5, <2>2, <3>3
  <2>3. \A x \in Nodes!Clients : pc'[x] = "claim" => pc[x] = "claim" /\ seq'[x] = seq[x]
    BY <1>4
  <2>4. /\ \A x \in NodeProducers : pc'[x] = "claim" /\ seq'[x] = head => next'[Nodes!Node(head)] = head
        /\ \A x \in NodeConsumers : pc'[x] = "claim" /\ seq'[x] = tail => next'[Nodes!Node(tail)] = tail + 1
    BY <1>0, <2>1, <2>2, <2>3 DEF MpClaims
  <2> QED BY <1>1, <2>4 DEF MpClaims, Nodes!Node
<1> QED BY <1>4, <1>6, <1>7, <1>8, <1>9, <1>10, <1>11, <1>12 DEF MpInv

\* A consumer hands its node over: the position one ring later is free.
LEMMA MpRelease ==
  ASSUME MpInv, NodeCount > 1, NEW c \in Nodes!Clients, Nodes!Release(c)
  PROVE  MpInv'
<1>0. /\ MpTypeOK /\ MpWriters /\ MpReaders /\ MpAlone /\ MpFilled /\ MpFree /\ MpPast /\ MpClaims
      /\ NodeProducers \subseteq Nodes!Clients /\ NodeConsumers \subseteq Nodes!Clients
      /\ Nodes!Clients = NodeProducers \cup NodeConsumers /\ NodeCount \in Nat
      /\ head \in Nat /\ tail \in Nat /\ tail <= head /\ head <= tail + NodeCount
  BY MpConstants DEF MpInv, MpTypeOK
<1> DEFINE m == seq[c] + NodeCount
<1>1. /\ pc[c] = "release" /\ Nodes!Return(c) /\ next' = [next EXCEPT ![Nodes!Node(seq[c])] = m]
      /\ UNCHANGED <<head, tail, data, claimed>>
  BY DEF Nodes!Release, Nodes!Freed
<1>2. /\ Reading(c) /\ ~Writing(c) /\ c \in NodeConsumers /\ seq[c] \in Nat
      /\ m \in Nat /\ m = seq[c] + NodeCount
      /\ seq[c] < tail /\ head <= seq[c] + NodeCount /\ next[Nodes!Node(seq[c])] = seq[c] + 1
      /\ Nodes!Node(seq[c]) \in Nodes!Nodes /\ Nodes!Node(m) = Nodes!Node(seq[c])
  <2>1. Reading(c) /\ ~Writing(c) /\ c \in NodeConsumers
    BY <1>0, <1>1 DEF MpTypeOK, Writing, Reading
  <2>2. seq[c] \in Nat /\ m \in Nat
    BY <1>0 DEF MpTypeOK
  <2>3. seq[c] < tail /\ head <= seq[c] + NodeCount /\ next[Nodes!Node(seq[c])] = seq[c] + 1
    BY <1>0, <2>1 DEF MpReaders
  <2> QED BY <2>1, <2>2, <2>3, MpNodes
<1>3. /\ \A x \in NodeProducers : x # c /\ Writing(x) => Nodes!Node(seq[x]) # Nodes!Node(seq[c])
      /\ \A x \in NodeConsumers : x # c /\ Reading(x) => Nodes!Node(seq[x]) # Nodes!Node(seq[c])
      /\ \A s \in tail .. head - 1 : s # seq[c] => Nodes!Node(s) # Nodes!Node(seq[c])
  BY <1>2, MpOthers
<1> HIDE DEF m
<1>4. /\ MpTypeOK' /\ ~Writing(c)' /\ ~Reading(c)'
      /\ \A x \in Nodes!Clients : x # c =>
           /\ pc'[x] = pc[x] /\ seq'[x] = seq[x] /\ val'[x] = val[x]
           /\ (Writing(x)' <=> Writing(x)) /\ (Reading(x)' <=> Reading(x))
      /\ pc'[c] = "idle" /\ next'[Nodes!Node(seq[c])] = m
      /\ \A n \in Nodes!Nodes : n # Nodes!Node(seq[c]) => next'[n] = next[n]
  <2>1. MpTypeOK /\ m \in Nat
    BY <1>0, <1>2
  <2> QED BY <1>1, <2>1, MpLeaves
<1>5. /\ \A x \in Nodes!Clients : Nodes!Node(seq[x]) \in Nodes!Nodes
      /\ \A s \in Nat : Nodes!Node(s) \in Nodes!Nodes
      /\ \A x \in NodeConsumers : Reading(x)' => x # c /\ Reading(x)
      /\ \A x \in NodeProducers : (Writing(x)' <=> Writing(x)) /\ (Writing(x) => x # c)
  <2>1. \A x \in Nodes!Clients : Nodes!Node(seq[x]) \in Nodes!Nodes
    BY <1>0, MpNodes DEF MpTypeOK
  <2>2. \A x \in NodeConsumers : Reading(x)' => x # c /\ Reading(x)
    BY <1>0, <1>4 DEF Reading
  <2>3. \A x \in NodeProducers : (Writing(x)' <=> Writing(x)) /\ (Writing(x) => x # c)
    BY <1>0, <1>2, <1>4 DEF Writing
  <2> QED BY <2>1, <2>2, <2>3, MpNodes
<1>6. MpWriters'
  <2> SUFFICES ASSUME NEW x \in NodeProducers, Writing(x)'
               PROVE  /\ tail <= seq'[x] /\ seq'[x] < head
                      /\ next'[Nodes!Node(seq'[x])] = seq'[x] /\ val'[x] = claimed[seq'[x] + 1]
                      /\ pc'[x] = "publish" => data[Nodes!Node(seq'[x])] = claimed[seq'[x] + 1]
    BY <1>1 DEF MpWriters, Nodes!Node
  <2>1. x # c /\ Writing(x) /\ seq'[x] = seq[x] /\ val'[x] = val[x] /\ pc'[x] = pc[x]
    BY <1>0, <1>4, <1>5
  <2>2. next'[Nodes!Node(seq[x])] = next[Nodes!Node(seq[x])]
    BY <1>0, <1>3, <1>4, <1>5, <2>1
  <2> QED BY <1>0, <2>1, <2>2 DEF MpWriters
<1>7. MpReaders'
  <2> SUFFICES ASSUME NEW x \in NodeConsumers, Reading(x)'
               PROVE  /\ seq'[x] < tail /\ head <= seq'[x] + NodeCount
                      /\ next'[Nodes!Node(seq'[x])] = seq'[x] + 1
                      /\ data[Nodes!Node(seq'[x])] = claimed[seq'[x] + 1]
                      /\ pc'[x] = "release" => val'[x] = claimed[seq'[x] + 1]
    BY <1>1 DEF MpReaders, Nodes!Node
  <2>1. x # c /\ Reading(x) /\ seq'[x] = seq[x] /\ val'[x] = val[x] /\ pc'[x] = pc[x]
    BY <1>0, <1>4, <1>5
  <2>2. next'[Nodes!Node(seq[x])] = next[Nodes!Node(seq[x])]
    BY <1>0, <1>3, <1>4, <1>5, <2>1
  <2> QED BY <1>0, <2>1, <2>2 DEF MpReaders
<1>8. MpAlone'
  <2>1. \A x \in NodeProducers : Writing(x)' => Writing(x) /\ seq'[x] = seq[x]
    BY <1>0, <1>4, <1>5
  <2>2. \A x \in NodeConsumers : Reading(x)' => Reading(x) /\ seq'[x] = seq[x]
    BY <1>0, <1>4, <1>5
  <2> QED BY <1>0, <2>1, <2>2 DEF MpAlone
<1>9. MpFilled'
  <2> SUFFICES ASSUME NEW s \in tail .. head - 1
               PROVE  \/ \E x \in NodeProducers : Writing(x)' /\ seq'[x] = s
                      \/ next'[Nodes!Node(s)] = s + 1 /\ data[Nodes!Node(s)] = claimed[s + 1]
    BY <1>1 DEF MpFilled, Nodes!Node
  <2>1. s # seq[c]
    BY <1>0, <1>2
  <2>2. next'[Nodes!Node(s)] = next[Nodes!Node(s)]
    <3>1. s \in Nat
      BY <1>0
    <3> QED BY <1>3, <1>4, <1>5, <2>1, <3>1
  <2>3. CASE \E x \in NodeProducers : Writing(x) /\ seq[x] = s
    BY <1>0, <1>4, <1>5, <2>3
  <2> QED BY <1>0, <2>2, <2>3 DEF MpFilled
<1>10. MpFree'
  <2> SUFFICES ASSUME NEW s \in head .. tail + NodeCount - 1
               PROVE  \/ \E x \in NodeConsumers : Reading(x)' /\ seq'[x] = s - NodeCount
                      \/ next'[Nodes!Node(s)] = s
    BY <1>1 DEF MpFree, Nodes!Node
  <2>1. CASE s = m
    BY <1>2, <1>4, <2>1
  <2>2. CASE s # m /\ \E x \in NodeConsumers : Reading(x) /\ seq[x] = s - NodeCount
    <3>1. PICK x \in NodeConsumers : Reading(x) /\ seq[x] = s - NodeCount
      BY <2>2
    <3>2. x # c
      BY <1>0, <1>2, <2>2, <3>1
    <3> QED BY <1>0, <1>4, <3>1, <3>2
  <2>3. CASE s # m /\ next[Nodes!Node(s)] = s
    <3>1. s \in Nat /\ s - m < NodeCount /\ m - s < NodeCount
      BY <1>0, <1>2
    <3>2. Nodes!Node(s) # Nodes!Node(seq[c])
      BY <1>2, <2>3, <3>1, MpNodes
    <3> QED BY <1>4, <1>5, <2>3, <3>1, <3>2
  <2> QED BY <1>0, <2>1, <2>2, <2>3 DEF MpFree
<1>11. MpPast'
  <2> SUFFICES ASSUME NEW s \in 0 .. tail - 1 PROVE next'[Nodes!Node(s)] > s
    BY <1>1 DEF MpPast, Nodes!Node
  <2>1. CASE Nodes!Node(s) = Nodes!Node(seq[c])
    BY <1>0, <1>2, <1>4, <2>1
  <2>2. CASE Nodes!Node(s) # Nodes!Node(seq[c])
    <3>1. s \in Nat
      BY <1>0
    <3> QED BY <1>0, <1>4, <1>5, <2>2, <3>1 DEF MpPast
  <2> QED BY <2>1, <2>2
<1>12. MpClaims'
  <2>1. ASSUME next[Nodes!Node(head)] = head PROVE next'[Nodes!Node(head)] = head
    <3>1. head < seq[c] + NodeCount
      BY <1>2, <2>1, MpReady
    <3>2. head # seq[c] /\ head - seq[c] < NodeCount /\ seq[c] - head < NodeCount
      BY <1>0, <1>2, <3>1
    <3>3. Nodes!Node(head) # Nodes!Node(seq[c])
      BY <1>0, <1>2, <3>2, MpNodes
    <3> QED BY <1>0, <1>4, <1>5, <2>1, <3>3
  <2>2. ASSUME next[Nodes!Node(tail)] = tail + 1 PROVE next'[Nodes!Node(tail)] = tail + 1
    <3>1. Nodes!Node(tail) # Nodes!Node(seq[c])
      BY <1>0, <1>2, <2>2
    <3> QED BY <1>0, <1>4, <1>5, <2>2, <3>1
  <2>3. \A x \in Nodes!Clients : pc'[x] = "claim" => pc[x] = "claim" /\ seq'[x] = seq[x]
    BY <1>4
  <2>4. /\ \A x \in NodeProducers : pc'[x] = "claim" /\ seq'[x] = head => next'[Nodes!Node(head)] = head
        /\ \A x \in NodeConsumers : pc'[x] = "claim" /\ seq'[x] = tail => next'[Nodes!Node(tail)] = tail + 1
    BY <1>0, <2>1, <2>2, <2>3 DEF MpClaims
  <2> QED BY <1>1, <2>4 DEF MpClaims, Nodes!Node
<1> QED BY <1>4, <1>6, <1>7, <1>8, <1>9, <1>10, <1>11, <1>12 DEF MpInv

\* Every step of the queue preserves its invariant, in a ring of more than one node.
LEMMA MpInductive == ASSUME NodeCount > 1 PROVE MpInv /\ [Nodes!Next]_nodeVars => MpInv'
<1> SUFFICES ASSUME MpInv, [Nodes!Next]_nodeVars PROVE MpInv'
  OBVIOUS
<1>1. CASE UNCHANGED nodeVars
  <2>1. UNCHANGED <<head, tail, next, data, pc, seq, val, claimed>>
    BY <1>1 DEF nodeVars
  <2>2. MpTypeOK' /\ MpWriters' /\ MpReaders' /\ MpAlone'
    BY <2>1 DEF MpInv, MpTypeOK, MpWriters, MpReaders, MpAlone, Writing, Reading
  <2>3. MpFilled' /\ MpFree' /\ MpPast' /\ MpClaims'
    BY <2>1 DEF MpInv, MpFilled, MpFree, MpPast, MpClaims, Writing, Reading
  <2> QED BY <2>2, <2>3 DEF MpInv
<1>2. CASE \/ \E x \in NodeProducers, v \in NodeValues : Nodes!produce(x, v)
           \/ \E x \in NodeConsumers : Nodes!consume(x)
  BY <1>2, MpEnters
<1>3. ASSUME NEW c \in Nodes!Clients, Nodes!Inside(c) PROVE MpInv'
  <2>1. CASE Nodes!ClaimHead(c)
    <3>1. c \in NodeProducers
      BY <2>1 DEF Nodes!ClaimHead
    <3> QED BY <2>1, <3>1, MpClaimHead
  <2>2. CASE Nodes!ClaimTail(c)
    <3>1. c \in NodeConsumers
      BY <2>2 DEF Nodes!ClaimTail
    <3> QED BY <2>2, <3>1, MpClaimTail
  <2> QED BY <1>3, <2>1, <2>2, MpLooks, MpReloads, MpWrite, MpPublish, MpRead, MpRelease DEF Nodes!Inside
<1> QED BY <1>1, <1>2, <1>3 DEF Nodes!Next

\* Values come out in the order of their positions, and whoever works on a node is alone there.
LEMMA MpMeaning == MpInv => Nodes!HandsOutInOrder /\ Nodes!NodeExclusive
<1> SUFFICES ASSUME MpInv PROVE Nodes!HandsOutInOrder /\ Nodes!NodeExclusive
  OBVIOUS
<1>1. Nodes!HandsOutInOrder
  BY DEF MpInv, MpReaders, Reading, Nodes!HandsOutInOrder
<1>2. ASSUME NEW c \in Nodes!Clients, NEW d \in Nodes!Clients, c # d,
             pc[c] \in Nodes!Exclusive, pc[d] \in Nodes!Exclusive
      PROVE  Nodes!Node(seq[c]) # Nodes!Node(seq[d])
  <2>1. (Writing(c) \/ Reading(c)) /\ (Writing(d) \/ Reading(d))
    BY <1>2 DEF Nodes!Exclusive, Writing, Reading
  <2>2. (Writing(d) => d \in NodeProducers) /\ (Reading(d) => d \in NodeConsumers)
    BY MpConstants DEF MpInv, MpTypeOK
  <2> QED BY <1>2, <2>1, <2>2, MpOthers
<1> QED BY <1>1, <1>2 DEF Nodes!NodeExclusive

\* The only step from the node's number back to idle is the refusal.
LEMMA MpRefuses ==
  ASSUME MpInv, Nodes!Next, NEW c \in Nodes!Clients, pc[c] = "node", pc'[c] = "idle"
  PROVE  Nodes!Turn(c) < 0
<1>0. MpTypeOK /\ NodeProducers \subseteq Nodes!Clients /\ NodeConsumers \subseteq Nodes!Clients
  BY MpConstants DEF MpInv
<1>1. ASSUME NEW d \in Nodes!Clients, NEW l, pc' = [pc EXCEPT ![d] = l], pc[d] # "node" \/ l # "idle"
      PROVE  FALSE
  BY <1>0, <1>1 DEF MpTypeOK
<1>2. ASSUME NEW d \in NodeProducers, NEW v \in NodeValues, Nodes!produce(d, v) PROVE FALSE
  BY <1>0, <1>1, <1>2 DEF Nodes!produce, Nodes!Goto
<1>3. ASSUME NEW d \in NodeConsumers, Nodes!consume(d) PROVE FALSE
  BY <1>0, <1>1, <1>3 DEF Nodes!consume, Nodes!Goto
<1>4. PICK d \in Nodes!Clients : Nodes!Inside(d)
  BY <1>2, <1>3 DEF Nodes!Next
<1>5. Nodes!GiveUp(d)
  <2>1. CASE Nodes!MyTurn(d) \/ Nodes!Behind(d) \/ Nodes!Reload(d) \/ Nodes!ClaimFails(d)
    BY <1>1, <2>1 DEF Nodes!MyTurn, Nodes!Behind, Nodes!Reload, Nodes!ClaimFails, Nodes!Goto
  <2>2. CASE Nodes!ClaimHead(d) \/ Nodes!ClaimTail(d) \/ Nodes!Write(d) \/ Nodes!Read(d)
    BY <1>1, <2>2 DEF Nodes!ClaimHead, Nodes!ClaimTail, Nodes!Write, Nodes!Read, Nodes!Goto
  <2>3. CASE Nodes!Publish(d) \/ Nodes!Release(d)
    BY <1>1, <2>3 DEF Nodes!Publish, Nodes!Release, Nodes!Return, Nodes!Goto
  <2> QED BY <1>4, <2>1, <2>2, <2>3 DEF Nodes!Inside
<1>6. pc' = [pc EXCEPT ![d] = "idle"] /\ Nodes!Turn(d) < 0
  BY <1>5 DEF Nodes!GiveUp, Nodes!Return, Nodes!Goto
<1>7. d = c
  BY <1>0, <1>6 DEF MpTypeOK
<1> QED BY <1>6, <1>7

\* A producer is refused by a full ring or by a node that is being copied out.
LEMMA MpRefusedFull ==
  ASSUME MpInv, NEW c \in NodeProducers, pc[c] = "node", Nodes!Turn(c) < 0
  PROVE  \/ head - tail >= NodeCount
         \/ \E x \in NodeConsumers : pc[x] \in {"read", "release"} /\ seq[x] = seq[c] - NodeCount
<1>0. /\ MpTypeOK /\ MpWriters /\ MpFilled /\ MpFree /\ MpPast /\ NodeCount \in Nat \ {0}
      /\ head \in Nat /\ tail \in Nat /\ tail <= head /\ c \in Nodes!Clients
      /\ seq[c] \in Nat /\ seq[c] <= head /\ Nodes!Node(seq[c]) \in Nodes!Nodes
  BY MpConstants, MpNodes DEF MpInv, MpTypeOK
<1>1. next[Nodes!Node(seq[c])] \in Nat /\ next[Nodes!Node(seq[c])] < seq[c]
  BY <1>0 DEF MpTypeOK, Nodes!Turn
<1>2. CASE seq[c] < tail
  <2>1. seq[c] \in 0 .. tail - 1
    BY <1>0, <1>2
  <2> QED BY <1>0, <1>1, <2>1 DEF MpPast
<1>3. CASE tail <= seq[c] /\ seq[c] < head
  <2>1. seq[c] \in tail .. head - 1
    BY <1>0, <1>3
  <2>2. CASE \E x \in NodeProducers : Writing(x) /\ seq[x] = seq[c]
    BY <1>0, <1>1, <2>2 DEF MpWriters
  <2>3. CASE next[Nodes!Node(seq[c])] = seq[c] + 1
    BY <1>0, <1>1, <2>3
  <2> QED BY <1>0, <2>1, <2>2, <2>3 DEF MpFilled
<1>4. CASE seq[c] = head /\ head - tail < NodeCount
  <2>1. seq[c] \in head .. tail + NodeCount - 1
    BY <1>0, <1>4
  <2>2. next[Nodes!Node(seq[c])] # seq[c]
    BY <1>0, <1>1
  <2> QED BY <1>0, <2>1, <2>2 DEF MpFree, Reading
<1> QED BY <1>0, <1>2, <1>3, <1>4

\* A consumer is turned away from a position that nobody has claimed or finished.
LEMMA MpRefusedEmpty ==
  ASSUME MpInv, NEW c \in NodeConsumers, pc[c] = "node", Nodes!Turn(c) < 0
  PROVE  \/ seq[c] >= head
         \/ \E x \in NodeProducers : pc[x] \in {"write", "publish"} /\ seq[x] = seq[c]
<1>0. /\ MpTypeOK /\ MpFilled /\ MpPast /\ c \notin NodeProducers
      /\ head \in Nat /\ tail \in Nat /\ tail <= head /\ c \in Nodes!Clients
      /\ seq[c] \in Nat /\ seq[c] <= tail /\ Nodes!Node(seq[c]) \in Nodes!Nodes
  BY MpConstants, MpNodes DEF MpInv, MpTypeOK
<1>1. next[Nodes!Node(seq[c])] \in Nat /\ next[Nodes!Node(seq[c])] < seq[c] + 1
  BY <1>0 DEF MpTypeOK, Nodes!Turn, Nodes!Filled
<1>2. CASE seq[c] < tail
  <2>1. seq[c] \in 0 .. tail - 1
    BY <1>0, <1>2
  <2> QED BY <1>0, <1>1, <2>1 DEF MpPast
<1>3. CASE seq[c] = tail /\ tail < head
  <2>1. seq[c] \in tail .. head - 1
    BY <1>0, <1>3
  <2>2. next[Nodes!Node(seq[c])] # seq[c] + 1
    BY <1>0, <1>1
  <2> QED BY <1>0, <2>1, <2>2 DEF MpFilled, Writing
<1> QED BY <1>0, <1>2, <1>3

-----------------------------------------------------------------------------
(* WorkStealingQueue                                                       *)

\* The items between _top and Bot are to be had: _bottom, except that a pop that has decremented it
\* has not decided yet.
Bot == IF opc \in {"pop_top", "pop_compete", "pop_restore"} THEN ob ELSE bottom
Item(i) == buffer[Steal!Slot(i)]

OwnerPlaces ==
  {"idle", "push_write", "push_publish", "pop_decrement", "pop_top", "pop_compete", "pop_restore"}

WsTypeOK ==
  /\ bottom \in Nat /\ top \in Nat \ {0} /\ pushed \in Nat
  /\ buffer \in [0 .. StealCapacity - 1 -> Nat]
  /\ opc \in OwnerPlaces /\ ob \in Nat /\ ot \in Nat /\ oval \in Nat
  /\ tpc \in [Thieves -> {"idle", "look", "bottom", "read", "compete"}]
  /\ tt \in [Thieves -> Nat] /\ tval \in [Thieves -> Nat]
  /\ popped \in Seq(Nat) /\ stolen \in Seq(Nat)

\* What the owner knows at each of its steps.
WsOwner ==
  /\ top <= Bot /\ Bot <= top + StealCapacity
  /\ opc \in {"push_write", "push_publish", "pop_decrement"} => ob = bottom
  /\ opc \in {"pop_top", "pop_compete", "pop_restore"} => ob = bottom + 1
  /\ opc \in {"push_write", "push_publish"} => bottom < top + StealCapacity
  /\ opc = "push_publish" => Item(bottom) = pushed + 1
  /\ opc = "pop_compete" => ot = bottom /\ ot <= top /\ oval = Item(bottom)
  /\ opc = "pop_restore" => top = ob

\* The slots from _top to Bot hold exactly the items nobody has got, the older ones first.
WsItems ==
  /\ \A i, j \in top .. Bot - 1 : i < j => Item(i) < Item(j)
  /\ \A i \in top .. Bot - 1 : Item(i) \in 1 .. pushed /\ Item(i) \notin Elems(popped) \cup Elems(stolen)
  /\ \A v \in 1 .. pushed : v \in Elems(popped) \cup Elems(stolen) \/ \E i \in top .. Bot - 1 : v = Item(i)

\* Nobody has got an item twice; thieves have got them in order, and older ones than are left.
WsTaken ==
  /\ Elems(popped) \cup Elems(stolen) \subseteq 1 .. pushed
  /\ Distinct(popped) /\ Distinct(stolen) /\ Elems(popped) \cap Elems(stolen) = {}
  /\ \A i, j \in 1 .. Len(stolen) : i < j => stolen[i] < stolen[j]
  /\ \A v \in Elems(stolen), i \in top .. Bot - 1 : v < Item(i)

\* A thief whose _top is still right has an item to steal, and the right one.
WsThieves ==
  \A h \in Thieves :
    /\ tt[h] <= top
    /\ tpc[h] \in {"read", "compete"} /\ tt[h] = top => top < Bot
    /\ tpc[h] = "compete" /\ tt[h] = top => tval[h] = Item(top)

\* The inductive invariant of the queue.
WsInv == WsTypeOK /\ WsOwner /\ WsItems /\ WsTaken /\ WsThieves

\* Slots of positions less than the capacity apart differ.
LEMMA WsSlots ==
  /\ StealCapacity \in Nat \ {0}
  /\ \A a \in Nat : Steal!Slot(a) \in 0 .. StealCapacity - 1
  /\ \A a, b \in Nat : a < b /\ b - a < StealCapacity => Steal!Slot(a) # Steal!Slot(b)
<1>1. StealCapacity \in Nat \ {0}
  BY LockFreeSuiteAssumption DEF LockFreeSuiteAssumption, Steal!WorkStealingAssumption
<1> QED BY <1>1, Near, Around DEF Steal!Slot

\* A new queue is empty.
LEMMA WsBegins == Steal!Init => WsInv
<1> SUFFICES ASSUME Steal!Init PROVE WsInv
  OBVIOUS
<1>1. /\ bottom = 1 /\ top = 1 /\ pushed = 0 /\ popped = <<>> /\ stolen = <<>>
      /\ buffer = [i \in 0 .. StealCapacity - 1 |-> 0] /\ opc = "idle" /\ ob = 0 /\ ot = 0 /\ oval = 0
      /\ tpc = [h \in Thieves |-> "idle"] /\ tt = [h \in Thieves |-> 0] /\ tval = [h \in Thieves |-> 0]
  BY DEF Steal!Init
<1>2. Bot = 1 /\ Elems(popped) = {} /\ Elems(stolen) = {} /\ Len(stolen) = 0
  BY <1>1 DEF Bot, Elems
<1>3. WsTypeOK
  BY <1>1 DEF WsTypeOK, OwnerPlaces
<1>4. WsOwner
  BY <1>1, <1>2, WsSlots DEF WsOwner
<1>5. WsItems /\ WsThieves
  BY <1>1, <1>2 DEF WsItems, WsThieves
<1>6. WsTaken
  BY <1>1, <1>2 DEF WsTaken, Distinct
<1> QED BY <1>3, <1>4, <1>5, <1>6 DEF WsInv

\* A step of the owner that moves none of the items that are to be had.
LEMMA WsSame ==
  ASSUME WsInv, UNCHANGED <<top, buffer, pushed, popped, stolen, tpc, tt, tval>>, Bot' = Bot
  PROVE  WsItems' /\ WsTaken' /\ WsThieves'
<1>1. \A i \in Nat : Item(i)' = Item(i)
  BY DEF Item, Steal!Slot
<1>2. WsTypeOK /\ WsOwner /\ top \in Nat /\ (\A i \in top .. Bot - 1 : i \in Nat)
  BY DEF WsInv, WsTypeOK, WsOwner
<1>3. WsItems'
  BY <1>1, <1>2 DEF WsInv, WsItems
<1>4. WsTaken'
  BY <1>1, <1>2 DEF WsInv, WsTaken
<1>5. WsThieves'
  BY <1>1, <1>2 DEF WsInv, WsThieves
<1> QED BY <1>3, <1>4, <1>5

\* push and pop, their first look: only the owner's locals change.
LEMMA WsOwnerLooks ==
  ASSUME WsInv, Steal!PushLoad \/ Steal!PopLoad
  PROVE  WsInv'
<1>0. WsTypeOK /\ WsOwner /\ opc = "idle" /\ Bot = bottom /\ bottom \in Nat /\ top \in Nat
  BY DEF WsInv, WsTypeOK, Steal!PushLoad, Steal!PopLoad, Bot
<1>1. /\ UNCHANGED <<bottom, top, buffer, pushed, popped, stolen, tpc, tt, tval>>
      /\ \/ opc' = "idle" /\ ob' = 0 /\ ot' = 0 /\ oval' = 0
         \/ /\ opc' = "push_write" /\ ob' = bottom /\ ot' = top /\ oval' = 0
            /\ ~(bottom >= top + StealCapacity)
         \/ opc' = "pop_decrement" /\ ob' = bottom /\ ot' = top /\ oval' = 0
  <2>1. CASE Steal!PushLoad
    BY <2>1 DEF Steal!PushLoad, Steal!OwnerGoes, Steal!Full, Steal!thieves
  <2>2. CASE Steal!PopLoad
    BY <2>2 DEF Steal!PopLoad, Steal!OwnerGoes, Steal!thieves
  <2> QED BY <2>1, <2>2
<1>2. Bot' = Bot
  BY <1>0, <1>1 DEF Bot
<1>3. WsTypeOK'
  BY <1>0, <1>1 DEF WsTypeOK, OwnerPlaces
<1>4. WsOwner'
  BY <1>0, <1>1, <1>2, WsSlots DEF WsOwner
<1> QED BY <1>1, <1>2, <1>3, <1>4, WsSame DEF WsInv

\* pop decrements _bottom and has not decided, or finds the queue empty and restores it.
LEMMA WsBottom ==
  ASSUME WsInv, Steal!PopDecrement \/ Steal!PopRestore
  PROVE  WsInv'
<1>0. /\ WsTypeOK /\ WsOwner /\ bottom \in Nat /\ top \in Nat \ {0} /\ ob \in Nat /\ ot \in Nat /\ oval \in Nat
      /\ top <= Bot
  BY DEF WsInv, WsTypeOK, WsOwner
<1>1. CASE Steal!PopDecrement
  <2>1. /\ opc = "pop_decrement" /\ bottom' = ob - 1 /\ opc' = "pop_top" /\ ob' = ob /\ ot' = ot /\ oval' = oval
        /\ UNCHANGED <<top, buffer, pushed, popped, stolen, tpc, tt, tval>>
    BY <1>1 DEF Steal!PopDecrement, Steal!OwnerGoes, Steal!thieves
  <2>2. ob = bottom /\ Bot = bottom /\ Bot' = Bot
    BY <1>0, <2>1 DEF WsOwner, Bot
  <2>3. bottom' \in Nat /\ ob' = bottom' + 1
    BY <1>0, <2>1, <2>2
  <2>4. WsTypeOK'
    BY <1>0, <2>1, <2>3 DEF WsTypeOK, OwnerPlaces
  <2>5. WsOwner'
    BY <1>0, <2>1, <2>2, <2>3 DEF WsOwner
  <2> QED BY <2>1, <2>2, <2>4, <2>5, WsSame DEF WsInv
<1>2. CASE Steal!PopRestore
  <2>1. /\ opc = "pop_restore" /\ bottom' = ob /\ opc' = "idle" /\ ob' = 0 /\ ot' = 0 /\ oval' = 0
        /\ UNCHANGED <<top, buffer, pushed, popped, stolen, tpc, tt, tval>>
    BY <1>2 DEF Steal!PopRestore, Steal!Restored, Steal!OwnerGoes, Steal!thieves
  <2>2. Bot = ob /\ Bot' = Bot
    BY <1>0, <2>1 DEF WsOwner, Bot
  <2>3. WsTypeOK'
    BY <1>0, <2>1 DEF WsTypeOK, OwnerPlaces
  <2>4. WsOwner'
    BY <1>0, <2>1, <2>2 DEF WsOwner
  <2> QED BY <2>1, <2>2, <2>3, <2>4, WsSame DEF WsInv
<1> QED BY <1>1, <1>2

\* push writes the item into a slot that none of the items to be had is in.
LEMMA WsPushWrite ==
  ASSUME WsInv, Steal!PushWrite
  PROVE  WsInv'
<1>0. /\ WsTypeOK /\ WsOwner /\ WsItems /\ WsTaken /\ WsThieves
      /\ bottom \in Nat /\ top \in Nat /\ pushed \in Nat /\ StealCapacity \in Nat
      /\ opc = "push_write" /\ ob = bottom /\ Bot = bottom /\ bottom < top + StealCapacity /\ top <= bottom
  BY WsSlots DEF WsInv, WsTypeOK, WsOwner, Steal!PushWrite, Bot
<1>1. /\ buffer' = [buffer EXCEPT ![Steal!Slot(bottom)] = pushed + 1]
      /\ opc' = "push_publish" /\ ob' = ob /\ ot' = ot /\ oval' = oval
      /\ UNCHANGED <<bottom, top, pushed, popped, stolen, tpc, tt, tval>>
  BY <1>0 DEF Steal!PushWrite, Steal!OwnerGoes, Steal!thieves
<1>2. Bot' = Bot
  BY <1>0, <1>1 DEF Bot
<1>3. /\ buffer' \in [0 .. StealCapacity - 1 -> Nat] /\ buffer'[Steal!Slot(bottom)] = pushed + 1
      /\ \A n \in 0 .. StealCapacity - 1 : n # Steal!Slot(bottom) => buffer'[n] = buffer[n]
  <2>1. Steal!Slot(bottom) \in 0 .. StealCapacity - 1 /\ pushed + 1 \in Nat
    BY <1>0, WsSlots
  <2>2. buffer \in [0 .. StealCapacity - 1 -> Nat]
    BY <1>0 DEF WsTypeOK
  <2> QED BY <1>1, <2>1, <2>2
<1>4. \A i \in top .. Bot - 1 : Item(i)' = Item(i)
  <2> TAKE i \in top .. Bot - 1
  <2>1. i \in Nat /\ i < bottom /\ bottom - i < StealCapacity
    BY <1>0
  <2>2. Steal!Slot(i) # Steal!Slot(bottom) /\ Steal!Slot(i) \in 0 .. StealCapacity - 1
    BY <1>0, <2>1, WsSlots
  <2>3. buffer'[Steal!Slot(i)] = buffer[Steal!Slot(i)]
    BY <1>3, <2>2
  <2> QED BY <2>3 DEF Item, Steal!Slot
<1>5. WsTypeOK'
  BY <1>0, <1>1, <1>3 DEF WsTypeOK, OwnerPlaces
<1>6. WsOwner'
  <2>1. Item(bottom)' = pushed + 1
    BY <1>1, <1>3 DEF Item, Steal!Slot
  <2> QED BY <1>0, <1>1, <1>2, <2>1 DEF WsOwner
<1>7. WsItems'
  BY <1>0, <1>1, <1>2, <1>4 DEF WsItems
<1>8. WsTaken'
  BY <1>0, <1>1, <1>2, <1>4 DEF WsTaken
<1>9. WsThieves'
  <2>1. top < Bot => top \in top .. Bot - 1
    BY <1>0
  <2>2. top < Bot => Item(top)' = Item(top)
    <3>1. \A i \in top .. Bot - 1 : buffer'[i % StealCapacity] = buffer[i % StealCapacity]
      BY <1>4 DEF Item, Steal!Slot
    <3> QED BY <1>1, <2>1, <3>1 DEF Item, Steal!Slot
  <2> QED BY <1>0, <1>1, <1>2, <2>2 DEF WsThieves
<1> QED BY <1>5, <1>6, <1>7, <1>8, <1>9 DEF WsInv

\* push hands the item over to the thieves: the youngest of those to be had.
LEMMA WsPushPublish ==
  ASSUME WsInv, Steal!PushPublish
  PROVE  WsInv'
<1>0. /\ WsTypeOK /\ WsOwner /\ WsItems /\ WsTaken /\ WsThieves
      /\ bottom \in Nat /\ top \in Nat /\ pushed \in Nat /\ StealCapacity \in Nat
      /\ opc = "push_publish" /\ ob = bottom /\ Bot = bottom /\ bottom < top + StealCapacity /\ top <= bottom
      /\ Item(bottom) = pushed + 1
  BY WsSlots DEF WsInv, WsTypeOK, WsOwner, Steal!PushPublish, Bot
<1>1. /\ bottom' = bottom + 1 /\ pushed' = pushed + 1
      /\ opc' = "idle" /\ ob' = 0 /\ ot' = 0 /\ oval' = 0
      /\ UNCHANGED <<top, buffer, popped, stolen, tpc, tt, tval>>
  BY <1>0 DEF Steal!PushPublish, Steal!OwnerGoes, Steal!thieves
<1>2. Bot' = bottom + 1
  BY <1>0, <1>1 DEF Bot
<1>3. \A i \in Nat : Item(i)' = Item(i)
  BY <1>1 DEF Item, Steal!Slot
<1>4. \A i \in top .. (bottom + 1) - 1 : i \in Nat /\ (i = bottom \/ i \in top .. Bot - 1)
  BY <1>0
<1>5. WsTypeOK'
  BY <1>0, <1>1 DEF WsTypeOK, OwnerPlaces
<1>6. WsOwner'
  BY <1>0, <1>1, <1>2 DEF WsOwner
<1>7. WsItems'
  <2>1. ASSUME NEW i \in top .. (bottom + 1) - 1, NEW j \in top .. (bottom + 1) - 1, i < j
        PROVE  Item(i) < Item(j)
    <3>1. i \in top .. Bot - 1
      BY <1>0, <2>1
    <3>2. CASE j = bottom
      <4>1. Item(i) \in 1 .. pushed
        BY <1>0, <3>1 DEF WsItems
      <4> QED BY <1>0, <3>2, <4>1
    <3>3. CASE j \in top .. Bot - 1
      BY <1>0, <2>1, <3>1, <3>3 DEF WsItems
    <3> QED BY <1>4, <3>2, <3>3
  <2>2. ASSUME NEW i \in top .. (bottom + 1) - 1
        PROVE  Item(i) \in 1 .. pushed + 1 /\ Item(i) \notin Elems(popped) \cup Elems(stolen)
    <3>1. CASE i = bottom
      <4>1. pushed + 1 \notin 1 .. pushed /\ pushed + 1 \in 1 .. pushed + 1
        BY <1>0
      <4> QED BY <1>0, <3>1, <4>1 DEF WsTaken
    <3>2. CASE i \in top .. Bot - 1
      <4>1. Item(i) \in 1 .. pushed /\ Item(i) \notin Elems(popped) \cup Elems(stolen)
        BY <1>0, <3>2 DEF WsItems
      <4> QED BY <1>0, <4>1
    <3> QED BY <1>4, <3>1, <3>2
  <2>3. ASSUME NEW v \in 1 .. pushed + 1
        PROVE  \/ v \in Elems(popped) \cup Elems(stolen)
               \/ \E i \in top .. (bottom + 1) - 1 : v = Item(i)
    <3>1. CASE v = pushed + 1
      <4>1. bottom \in top .. (bottom + 1) - 1
        BY <1>0
      <4> QED BY <1>0, <3>1, <4>1
    <3>2. CASE v \in 1 .. pushed
      <4>1. \A i \in top .. Bot - 1 : i \in top .. (bottom + 1) - 1
        BY <1>0
      <4> QED BY <1>0, <3>2, <4>1 DEF WsItems
    <3> QED BY <1>0, <3>1, <3>2
  <2> QED BY <1>1, <1>2, <1>3, <1>4, <2>1, <2>2, <2>3 DEF WsItems
<1>8. WsTaken'
  <2>1. \A v \in Elems(stolen), i \in top .. (bottom + 1) - 1 : v < Item(i)
    <3> SUFFICES ASSUME NEW v \in Elems(stolen), NEW i \in top .. (bottom + 1) - 1 PROVE v < Item(i)
      OBVIOUS
    <3>1. CASE i = bottom
      <4>1. v \in 1 .. pushed
        BY <1>0 DEF WsTaken
      <4> QED BY <1>0, <3>1, <4>1
    <3>2. CASE i \in top .. Bot - 1
      BY <1>0, <3>2 DEF WsTaken
    <3> QED BY <1>4, <3>1, <3>2
  <2>2. Elems(popped) \cup Elems(stolen) \subseteq 1 .. pushed + 1
    <3>1. 1 .. pushed \subseteq 1 .. pushed + 1
      BY <1>0
    <3> QED BY <1>0, <3>1 DEF WsTaken
  <2> QED BY <1>0, <1>1, <1>2, <1>3, <1>4, <2>1, <2>2 DEF WsTaken
<1>9. WsThieves'
  <2>1. top < bottom => top < bottom + 1
    BY <1>0
  <2> QED BY <1>0, <1>1, <1>2, <1>3, <2>1 DEF WsThieves
<1> QED BY <1>5, <1>6, <1>7, <1>8, <1>9 DEF WsInv

\* An item leaves the queue: the history with one item more.
LEMMA WsTakes ==
  ASSUME WsInv, NEW k \in top .. Bot - 1
  PROVE  /\ Item(k) \in Nat /\ Item(k) \in 1 .. pushed
         /\ Append(popped, Item(k)) \in Seq(Nat) /\ Distinct(Append(popped, Item(k)))
         /\ Elems(Append(popped, Item(k))) = Elems(popped) \cup {Item(k)}
         /\ Append(stolen, Item(k)) \in Seq(Nat) /\ Distinct(Append(stolen, Item(k)))
         /\ Elems(Append(stolen, Item(k))) = Elems(stolen) \cup {Item(k)}
         /\ Item(k) \notin Elems(popped) /\ Item(k) \notin Elems(stolen)
         /\ Len(Append(stolen, Item(k))) = Len(stolen) + 1 /\ Append(stolen, Item(k))[Len(stolen) + 1] = Item(k)
         /\ \A i \in 1 .. Len(stolen) : Append(stolen, Item(k))[i] = stolen[i]
<1>1. /\ pushed \in Nat /\ popped \in Seq(Nat) /\ stolen \in Seq(Nat) /\ Distinct(popped) /\ Distinct(stolen)
      /\ Item(k) \in 1 .. pushed /\ Item(k) \notin Elems(popped) \cup Elems(stolen)
  BY DEF WsInv, WsTypeOK, WsItems, WsTaken
<1>2. Item(k) \in Nat
  BY <1>1
<1> DEFINE v == Item(k)
<1>3. v \in Nat /\ v \notin Elems(popped) /\ v \notin Elems(stolen) /\ v \in 1 .. pushed
  BY <1>1, <1>2
<1> HIDE DEF v
<1>4. /\ Append(popped, v) \in Seq(Nat) /\ Distinct(Append(popped, v))
      /\ Elems(Append(popped, v)) = Elems(popped) \cup {v}
      /\ Append(stolen, v) \in Seq(Nat) /\ Distinct(Append(stolen, v))
      /\ Elems(Append(stolen, v)) = Elems(stolen) \cup {v}
  BY <1>1, <1>3, ElemsAppend
<1>5. /\ Len(Append(stolen, v)) = Len(stolen) + 1 /\ Append(stolen, v)[Len(stolen) + 1] = v
      /\ \A i \in 1 .. Len(stolen) : Append(stolen, v)[i] = stolen[i]
  BY <1>1, <1>3
<1> QED BY <1>3, <1>4, <1>5 DEF v

\* Taking the youngest item leaves the others in order; thieves have not got past it.
LEMMA WsTakeNewest ==
  ASSUME WsInv, top < Bot, UNCHANGED <<buffer, pushed, stolen, tpc, tt, tval>>,
         popped' = Append(popped, Item(Bot - 1)),
         \/ top' = top /\ Bot' = Bot - 1 /\ top < Bot - 1
         \/ top' = top + 1 /\ Bot' = Bot /\ Bot = top + 1
  PROVE  WsItems' /\ WsTaken' /\ WsThieves'
<1>0. /\ WsTypeOK /\ WsItems /\ WsTaken /\ WsThieves /\ top \in Nat /\ Bot \in Nat /\ pushed \in Nat
      /\ stolen \in Seq(Nat)
  BY DEF WsInv, WsTypeOK, Bot
<1> DEFINE e == Item(Bot - 1)
<1>1. Bot - 1 \in top .. Bot - 1
  BY <1>0
<1>2. /\ e \in Nat /\ e \in 1 .. pushed /\ popped' = Append(popped, e) /\ popped' \in Seq(Nat)
      /\ Distinct(popped') /\ Elems(popped') = Elems(popped) \cup {e}
      /\ e \notin Elems(popped) /\ e \notin Elems(stolen)
  BY <1>1, WsTakes
<1>3. \A i \in top .. Bot - 1 : i < Bot - 1 => Item(i) < e
  BY <1>0, <1>1 DEF WsItems
<1>4. \A i \in top .. Bot - 1 : i # Bot - 1 => i < Bot - 1 /\ i \in Nat
  BY <1>0
<1> HIDE DEF e
<1>5. \A i \in Nat : Item(i)' = Item(i)
  BY DEF Item, Steal!Slot
<1>6. \A i \in top' .. Bot' - 1 : i \in Nat /\ i \in top .. Bot - 1 /\ i < Bot - 1
  BY <1>0
<1>7. \A i \in top .. Bot - 1 : i # Bot - 1 => i \in top' .. Bot' - 1
  BY <1>0
<1>8. \A i \in top .. Bot - 1 : Item(i) \in 1 .. pushed /\ (i # Bot - 1 => Item(i) # e)
  <2>1. \A i \in top .. Bot - 1 : Item(i) \in 1 .. pushed
    BY <1>0 DEF WsItems
  <2>2. \A i \in top .. Bot - 1 : Item(i) \in Nat
    BY <1>0, <2>1
  <2> QED BY <1>2, <1>3, <1>4, <2>1, <2>2
<1>9. WsItems'
  <2>1. \A i, j \in top' .. Bot' - 1 : i < j => Item(i)' < Item(j)'
    BY <1>0, <1>5, <1>6 DEF WsItems
  <2>2. \A i \in top' .. Bot' - 1 : Item(i)' \in 1 .. pushed /\ Item(i)' \notin Elems(popped') \cup Elems(stolen)
    <3> TAKE i \in top' .. Bot' - 1
    <3>1. i \in Nat /\ i \in top .. Bot - 1 /\ i # Bot - 1
      BY <1>0, <1>6
    <3>2. Item(i) \in 1 .. pushed /\ Item(i) # e /\ Item(i) \notin Elems(popped) \cup Elems(stolen)
      BY <1>0, <1>8, <3>1 DEF WsItems
    <3> QED BY <1>2, <1>5, <3>1, <3>2
  <2>3. \A v \in 1 .. pushed :
          v \in Elems(popped') \cup Elems(stolen) \/ \E i \in top' .. Bot' - 1 : v = Item(i)'
    <3> TAKE v \in 1 .. pushed
    <3>1. CASE v \in Elems(popped) \cup Elems(stolen)
      BY <1>2, <3>1
    <3>2. ASSUME NEW i \in top .. Bot - 1, v = Item(i)
          PROVE  v \in Elems(popped') \/ \E j \in top' .. Bot' - 1 : v = Item(j)'
      <4>1. CASE i = Bot - 1
        BY <1>2, <3>2, <4>1 DEF e
      <4>2. CASE i # Bot - 1
        BY <1>4, <1>5, <1>7, <3>2, <4>2
      <4> QED BY <4>1, <4>2
    <3> QED BY <1>0, <3>1, <3>2 DEF WsItems
  <2> QED BY <2>1, <2>2, <2>3 DEF WsItems
<1>10. WsTaken'
  <2>1. \A v \in Elems(stolen), i \in top' .. Bot' - 1 : v < Item(i)'
    BY <1>0, <1>5, <1>6 DEF WsTaken
  <2>2. Elems(popped') \cup Elems(stolen) \subseteq 1 .. pushed /\ Elems(popped') \cap Elems(stolen) = {}
    BY <1>0, <1>2 DEF WsTaken
  <2> QED BY <1>0, <1>2, <2>1, <2>2 DEF WsTaken
<1>11. WsThieves'
  <2> SUFFICES ASSUME NEW h \in Thieves
               PROVE  /\ tt[h] <= top'
                      /\ tpc[h] \in {"read", "compete"} /\ tt[h] = top' => top' < Bot'
                      /\ tpc[h] = "compete" /\ tt[h] = top' => tval[h] = Item(top)'
    BY DEF WsThieves
  <2>1. tt[h] \in Nat /\ tt[h] <= top
    BY <1>0 DEF WsTypeOK, WsThieves
  <2>2. CASE top' = top /\ Bot' = Bot - 1 /\ top < Bot - 1
    <3>1. Item(top)' = Item(top)
      BY <2>2 DEF Item, Steal!Slot
    <3> QED BY <1>0, <2>2, <3>1 DEF WsThieves
  <2>3. CASE top' = top + 1
    BY <1>0, <2>1, <2>3
  <2> QED BY <2>2, <2>3
<1> QED BY <1>9, <1>10, <1>11

\* pop looks at _top again: empty, the last item, or one that no thief can reach.
LEMMA WsPopTop ==
  ASSUME WsInv, Steal!PopTop
  PROVE  WsInv'
<1>0. /\ WsTypeOK /\ WsOwner /\ bottom \in Nat /\ top \in Nat \ {0} /\ ob \in Nat
      /\ opc = "pop_top" /\ Bot = ob /\ ob = bottom + 1 /\ top <= ob /\ ob <= top + StealCapacity
      /\ StealCapacity \in Nat \ {0}
  BY WsSlots DEF WsInv, WsTypeOK, WsOwner, Steal!PopTop, Bot
<1>1. UNCHANGED <<bottom, top, buffer, pushed, stolen, tpc, tt, tval>>
  BY DEF Steal!PopTop, Steal!thieves
<1>2. ob - 1 = bottom /\ buffer[Steal!PopSlot(ob)] = Item(bottom)
  BY <1>0 DEF Steal!PopSlot, Item
<1>3. Item(bottom) \in Nat
  BY <1>0, WsSlots DEF WsTypeOK, Item
<1>4. CASE top > ob - 1 /\ Steal!OwnerGoes("pop_restore", ob, top, oval) /\ UNCHANGED popped
  <2>1. opc' = "pop_restore" /\ ob' = ob /\ ot' = top /\ oval' = oval
    BY <1>4 DEF Steal!OwnerGoes
  <2>2. Bot' = Bot /\ top = ob
    BY <1>0, <1>1, <1>4, <2>1 DEF Bot
  <2>3. WsTypeOK'
    BY <1>0, <1>1, <1>4, <2>1 DEF WsTypeOK, OwnerPlaces
  <2>4. WsOwner'
    BY <1>0, <1>1, <2>1, <2>2 DEF WsOwner
  <2> QED BY <1>1, <1>4, <2>2, <2>3, <2>4, WsSame DEF WsInv
<1>5. CASE top = ob - 1 /\ Steal!OwnerGoes("pop_compete", ob, top, Item(bottom)) /\ UNCHANGED popped
  <2>1. opc' = "pop_compete" /\ ob' = ob /\ ot' = top /\ oval' = Item(bottom)
    BY <1>5 DEF Steal!OwnerGoes
  <2>2. Bot' = Bot /\ top = bottom /\ Item(bottom)' = Item(bottom)
    BY <1>0, <1>1, <1>2, <1>5, <2>1 DEF Bot, Item, Steal!Slot
  <2>3. WsTypeOK'
    BY <1>0, <1>1, <1>3, <1>5, <2>1 DEF WsTypeOK, OwnerPlaces
  <2>4. WsOwner'
    BY <1>0, <1>1, <2>1, <2>2 DEF WsOwner
  <2> QED BY <1>1, <1>5, <2>2, <2>3, <2>4, WsSame DEF WsInv
<1>6. CASE /\ top < ob - 1 /\ Steal!OwnerGoes("idle", ob, top, Item(bottom))
           /\ popped' = Append(popped, Item(bottom))
  <2>1. opc' = "idle" /\ ob' = 0 /\ ot' = 0 /\ oval' = 0
    BY <1>6 DEF Steal!OwnerGoes
  <2>2. Bot' = Bot - 1 /\ bottom = Bot - 1 /\ top < Bot - 1 /\ top < Bot
    BY <1>0, <1>1, <1>6, <2>1 DEF Bot
  <2>3. popped' \in Seq(Nat)
    BY <1>0, <1>3, <1>6 DEF WsTypeOK
  <2>4. WsTypeOK'
    BY <1>0, <1>1, <2>1, <2>3 DEF WsTypeOK, OwnerPlaces
  <2>5. WsOwner'
    BY <1>0, <1>1, <2>1, <2>2 DEF WsOwner
  <2> QED BY <1>1, <1>6, <2>2, <2>4, <2>5, WsTakeNewest DEF WsInv
<1>7. \/ top > ob - 1 /\ Steal!OwnerGoes("pop_restore", ob, top, oval) /\ UNCHANGED popped
      \/ top = ob - 1 /\ Steal!OwnerGoes("pop_compete", ob, top, Item(bottom)) /\ UNCHANGED popped
      \/ /\ top < ob - 1 /\ Steal!OwnerGoes("idle", ob, top, Item(bottom))
         /\ popped' = Append(popped, Item(bottom))
  <2>1. \/ top > ob - 1 /\ Steal!OwnerGoes("pop_restore", ob, top, oval) /\ UNCHANGED popped
        \/ /\ top <= ob - 1 /\ top = ob - 1
           /\ Steal!OwnerGoes("pop_compete", ob, top, buffer[Steal!PopSlot(ob)]) /\ UNCHANGED popped
        \/ /\ top <= ob - 1 /\ top # ob - 1
           /\ Steal!OwnerGoes("idle", ob, top, buffer[Steal!PopSlot(ob)])
           /\ popped' = Append(popped, buffer[Steal!PopSlot(ob)])
    BY DEF Steal!PopTop, Steal!IsLast
  <2> QED BY <1>0, <1>2, <2>1
<1> QED BY <1>4, <1>5, <1>6, <1>7

\* pop competes for the last item: it takes it, or finds that a thief has.
LEMMA WsPopCompete ==
  ASSUME WsInv, Steal!PopCompete
  PROVE  WsInv'
<1>0. /\ WsTypeOK /\ WsOwner /\ bottom \in Nat /\ top \in Nat \ {0} /\ ob \in Nat /\ oval \in Nat
      /\ opc = "pop_compete" /\ Bot = ob /\ ob = bottom + 1 /\ top <= ob /\ ob <= top + StealCapacity
      /\ ot = bottom /\ ot <= top /\ oval = Item(bottom) /\ StealCapacity \in Nat \ {0}
  BY WsSlots DEF WsInv, WsTypeOK, WsOwner, Steal!PopCompete, Bot
<1>1. /\ UNCHANGED <<bottom, buffer, pushed, stolen, tpc, tt, tval>>
      /\ opc' = "pop_restore" /\ ob' = ob /\ ot' = ot /\ oval' = oval
      /\ IF top = ot THEN top' = ot + 1 /\ popped' = Append(popped, oval) ELSE UNCHANGED <<top, popped>>
  BY DEF Steal!PopCompete, Steal!OwnerGoes, Steal!thieves
<1>2. Bot' = Bot
  BY <1>0, <1>1 DEF Bot
<1>3. CASE top = ot
  <2>1. /\ top' = top + 1 /\ Bot = top + 1 /\ top < Bot /\ bottom = Bot - 1
        /\ popped' = Append(popped, Item(Bot - 1))
    BY <1>0, <1>1, <1>3
  <2>2. popped' \in Seq(Nat) /\ top' \in Nat \ {0}
    <3>1. popped \in Seq(Nat)
      BY <1>0 DEF WsTypeOK
    <3> QED BY <1>0, <1>1, <2>1, <3>1
  <2>3. WsTypeOK'
    BY <1>0, <1>1, <2>2 DEF WsTypeOK, OwnerPlaces
  <2>4. WsOwner'
    BY <1>0, <1>1, <1>2, <2>1 DEF WsOwner
  <2>5. WsItems' /\ WsTaken' /\ WsThieves'
    BY <1>1, <1>2, <2>1, WsTakeNewest
  <2> QED BY <2>3, <2>4, <2>5 DEF WsInv
<1>4. CASE top # ot
  <2>1. UNCHANGED <<top, popped>> /\ top = ob
    BY <1>0, <1>1, <1>4
  <2>2. WsTypeOK'
    BY <1>0, <1>1, <2>1 DEF WsTypeOK, OwnerPlaces
  <2>3. WsOwner'
    BY <1>0, <1>1, <1>2, <2>1 DEF WsOwner
  <2> QED BY <1>1, <1>2, <2>1, <2>2, <2>3, WsSame DEF WsInv
<1> QED BY <1>3, <1>4

\* Steps of a thief that leave the queue alone: its _top is an old one, and when it goes on to compete
\* with one that is still right, there is an item and it has read the right one.
LEMMA WsThiefLooks ==
  ASSUME WsInv, NEW h \in Thieves, NEW l \in {"idle", "look", "bottom", "read", "compete"},
         NEW t \in Nat, NEW v \in Nat,
         UNCHANGED <<bottom, top, buffer, opc, ob, ot, oval, pushed, popped, stolen>>,
         tpc' = [tpc EXCEPT ![h] = l], tt' = [tt EXCEPT ![h] = t], tval' = [tval EXCEPT ![h] = v],
         t <= top, l \in {"read", "compete"} /\ t = top => top < Bot,
         l = "compete" /\ t = top => v = Item(top)
  PROVE  WsInv'
<1>0. WsTypeOK /\ WsOwner /\ WsItems /\ WsTaken /\ WsThieves
  BY DEF WsInv
<1>1. Bot' = Bot /\ (\A i : Item(i)' = Item(i)) /\ Item(top)' = Item(top) /\ Item(bottom)' = Item(bottom)
  BY DEF Bot, Item, Steal!Slot
<1>2. /\ tpc' \in [Thieves -> {"idle", "look", "bottom", "read", "compete"}]
      /\ tt' \in [Thieves -> Nat] /\ tval' \in [Thieves -> Nat]
      /\ tpc'[h] = l /\ tt'[h] = t /\ tval'[h] = v
      /\ \A g \in Thieves : g # h => tpc'[g] = tpc[g] /\ tt'[g] = tt[g] /\ tval'[g] = tval[g]
  BY <1>0 DEF WsTypeOK
<1>3. WsTypeOK'
  BY <1>0, <1>2 DEF WsTypeOK
<1>4. WsOwner'
  BY <1>0, <1>1 DEF WsOwner
<1>5. WsItems' /\ WsTaken'
  BY <1>0, <1>1 DEF WsItems, WsTaken
<1>6. WsThieves'
  <2> SUFFICES ASSUME NEW g \in Thieves
               PROVE  /\ tt'[g] <= top
                      /\ tpc'[g] \in {"read", "compete"} /\ tt'[g] = top => top < Bot
                      /\ tpc'[g] = "compete" /\ tt'[g] = top => tval'[g] = Item(top)
    BY <1>1 DEF WsThieves
  <2>1. CASE g = h
    BY <1>2, <2>1
  <2>2. CASE g # h
    BY <1>0, <1>2, <2>2 DEF WsThieves
  <2> QED BY <2>1, <2>2
<1> QED BY <1>3, <1>4, <1>5, <1>6 DEF WsInv

\* A thief takes the oldest item.
LEMMA WsStealWin ==
  ASSUME WsInv, NEW h \in Thieves, tpc[h] = "compete", top = tt[h],
         top' = top + 1, stolen' = Append(stolen, tval[h]),
         tpc' = [tpc EXCEPT ![h] = "idle"], tt' = [tt EXCEPT ![h] = 0], tval' = [tval EXCEPT ![h] = 0],
         UNCHANGED <<bottom, buffer, opc, ob, ot, oval, pushed, popped>>
  PROVE  WsInv'
<1>0. /\ WsTypeOK /\ WsOwner /\ WsItems /\ WsTaken /\ WsThieves /\ top \in Nat \ {0} /\ bottom \in Nat
      /\ ob \in Nat /\ Bot \in Nat /\ pushed \in Nat /\ stolen \in Seq(Nat) /\ StealCapacity \in Nat
  BY WsSlots DEF WsInv, WsTypeOK, Bot
<1>1. top < Bot /\ tval[h] = Item(top)
  BY <1>0 DEF WsThieves
<1> DEFINE e == Item(top)
<1>2. top \in top .. Bot - 1
  BY <1>0, <1>1
<1>3. /\ e \in Nat /\ e \in 1 .. pushed /\ stolen' = Append(stolen, e) /\ stolen' \in Seq(Nat)
      /\ Distinct(stolen') /\ Elems(stolen') = Elems(stolen) \cup {e}
      /\ e \notin Elems(popped) /\ e \notin Elems(stolen)
      /\ Len(stolen') = Len(stolen) + 1 /\ stolen'[Len(stolen) + 1] = e
      /\ \A i \in 1 .. Len(stolen) : stolen'[i] = stolen[i]
  BY <1>1, <1>2, WsTakes
<1>4. \A i \in top .. Bot - 1 : top < i => e < Item(i)
  BY <1>0, <1>2 DEF WsItems
<1>5. \A v \in Elems(stolen) : v < e
  BY <1>0, <1>2 DEF WsTaken
<1>6. e = Item(top)
  OBVIOUS
<1> HIDE DEF e
<1>7. Bot' = Bot /\ (\A i \in Nat : Item(i)' = Item(i)) /\ Item(bottom)' = Item(bottom)
  BY DEF Bot, Item, Steal!Slot
<1>8. \A i \in top + 1 .. Bot - 1 : i \in Nat /\ i \in top .. Bot - 1 /\ top < i
  BY <1>0
<1>9. \A i \in top .. Bot - 1 : i = top \/ (i \in top + 1 .. Bot - 1 /\ i \in Nat)
  BY <1>0
<1>10. /\ tpc' \in [Thieves -> {"idle", "look", "bottom", "read", "compete"}]
       /\ tt' \in [Thieves -> Nat] /\ tval' \in [Thieves -> Nat]
       /\ tpc'[h] = "idle" /\ tt'[h] = 0
       /\ \A g \in Thieves : g # h => tpc'[g] = tpc[g] /\ tt'[g] = tt[g] /\ tval'[g] = tval[g]
  BY <1>0 DEF WsTypeOK
<1>11. WsTypeOK'
  BY <1>0, <1>3, <1>10 DEF WsTypeOK
<1>12. WsOwner'
  <2>1. opc = "pop_restore" => FALSE
    BY <1>0, <1>1 DEF WsOwner, Bot
  <2>2. top + 1 <= Bot /\ Bot <= (top + 1) + StealCapacity
    BY <1>0, <1>1 DEF WsOwner
  <2>3. opc \in {"push_write", "push_publish"} => bottom < (top + 1) + StealCapacity
    BY <1>0 DEF WsOwner
  <2>4. opc = "pop_compete" => ot <= top + 1
    BY <1>0 DEF WsOwner
  <2> QED BY <1>0, <1>7, <2>1, <2>2, <2>3, <2>4 DEF WsOwner
<1>13. WsItems'
  <2>1. \A i, j \in top + 1 .. Bot - 1 : i < j => Item(i) < Item(j)
    BY <1>0, <1>8 DEF WsItems
  <2>2. ASSUME NEW i \in top + 1 .. Bot - 1
        PROVE  Item(i) \in 1 .. pushed /\ Item(i) \notin Elems(popped) \cup Elems(stolen')
    <3>1. Item(i) \in 1 .. pushed /\ Item(i) \notin Elems(popped) \cup Elems(stolen) /\ e < Item(i)
      BY <1>0, <1>4, <1>8 DEF WsItems
    <3>2. Item(i) # e
      BY <1>0, <1>3, <3>1
    <3> QED BY <1>3, <3>1, <3>2
  <2>3. \A v \in 1 .. pushed :
          v \in Elems(popped) \cup Elems(stolen') \/ \E i \in top + 1 .. Bot - 1 : v = Item(i)
    <3> TAKE v \in 1 .. pushed
    <3>1. CASE v \in Elems(popped) \cup Elems(stolen)
      BY <1>3, <3>1
    <3>2. ASSUME NEW i \in top .. Bot - 1, v = Item(i)
          PROVE  v \in Elems(stolen') \/ \E j \in top + 1 .. Bot - 1 : v = Item(j)
      <4>1. CASE i = top
        BY <1>3, <1>6, <3>2, <4>1
      <4>2. CASE i \in top + 1 .. Bot - 1
        BY <3>2, <4>2
      <4> QED BY <1>9, <4>1, <4>2
    <3> QED BY <1>0, <3>1, <3>2 DEF WsItems
  <2> QED BY <1>7, <1>8, <2>1, <2>2, <2>3 DEF WsItems
<1>14. WsTaken'
  <2>1. ASSUME NEW v \in Elems(stolen'), NEW i \in top + 1 .. Bot - 1 PROVE v < Item(i)
    <3>1. CASE v = e
      BY <1>4, <1>8, <3>1
    <3>2. CASE v \in Elems(stolen)
      BY <1>0, <1>8, <3>2 DEF WsTaken
    <3> QED BY <1>3, <3>1, <3>2
  <2>2. Elems(popped) \cup Elems(stolen') \subseteq 1 .. pushed /\ Elems(popped) \cap Elems(stolen') = {}
    BY <1>0, <1>3 DEF WsTaken
  <2>3. ASSUME NEW i \in 1 .. Len(stolen'), NEW j \in 1 .. Len(stolen'), i < j
        PROVE  stolen'[i] < stolen'[j]
    <3>1. i \in 1 .. Len(stolen) /\ Len(stolen) \in Nat
      BY <1>0, <1>3, <2>3
    <3>2. CASE j = Len(stolen) + 1
      <4>1. stolen[i] \in Elems(stolen)
        BY <3>1 DEF Elems
      <4> QED BY <1>3, <1>5, <3>1, <3>2, <4>1
    <3>3. CASE j \in 1 .. Len(stolen)
      BY <1>0, <1>3, <2>3, <3>1, <3>3 DEF WsTaken
    <3>4. j = Len(stolen) + 1 \/ j \in 1 .. Len(stolen)
      <4>1. Len(stolen') = Len(stolen) + 1
        BY <1>3
      <4>2. j \in 1 .. Len(stolen) + 1
        BY <4>1
      <4> QED BY <3>1, <4>2
    <3> QED BY <3>2, <3>3, <3>4
  <2> QED BY <1>0, <1>3, <1>7, <1>8, <2>1, <2>2, <2>3 DEF WsTaken
<1>15. WsThieves'
  <2> SUFFICES ASSUME NEW g \in Thieves PROVE tt'[g] <= top + 1 /\ tt'[g] # top + 1
    BY DEF WsThieves
  <2>1. CASE g = h
    BY <1>0, <1>10, <2>1
  <2>2. CASE g # h
    <3>1. tt[g] \in Nat /\ tt[g] <= top
      BY <1>0 DEF WsTypeOK, WsThieves
    <3> QED BY <1>0, <1>10, <2>2, <3>1
  <2> QED BY <2>1, <2>2
<1> QED BY <1>11, <1>12, <1>13, <1>14, <1>15 DEF WsInv

\* Every step of a thief preserves the invariant.
LEMMA WsSteals ==
  ASSUME WsInv, NEW h \in Thieves, Steal!Steal(h)
  PROVE  WsInv'
<1>0. /\ WsTypeOK /\ WsThieves /\ top \in Nat /\ bottom \in Nat /\ tt[h] \in Nat /\ tval[h] \in Nat
      /\ tt[h] <= top /\ Bot \in Nat /\ bottom <= Bot /\ Item(tt[h]) \in Nat
  <2>1. WsTypeOK /\ WsThieves /\ top \in Nat /\ bottom \in Nat /\ tt[h] \in Nat /\ tval[h] \in Nat /\ tt[h] <= top
    BY DEF WsInv, WsTypeOK, WsThieves
  <2>2. Bot \in Nat /\ bottom <= Bot
    BY DEF WsInv, WsTypeOK, WsOwner, Bot
  <2> QED BY <2>1, <2>2, WsSlots DEF WsTypeOK, Item
<1>1. CASE Steal!StealTop(h)
  <2>1. /\ tpc' = [tpc EXCEPT ![h] = "look"] /\ tt' = [tt EXCEPT ![h] = top] /\ tval' = [tval EXCEPT ![h] = 0]
        /\ UNCHANGED <<bottom, top, buffer, opc, ob, ot, oval, pushed, popped, stolen>>
    BY <1>1 DEF Steal!StealTop, Steal!ThiefGoes, Steal!owner
  <2>2. top <= top
    BY <1>0
  <2> QED BY <1>0, <2>1, <2>2, WsThiefLooks
<1>2. CASE Steal!StealLook(h)
  <2>1. /\ UNCHANGED <<bottom, top, buffer, opc, ob, ot, oval, pushed, popped, stolen>>
        /\ tval' = [tval EXCEPT ![h] = 0]
        /\ \/ tpc' = [tpc EXCEPT ![h] = "idle"] /\ tt' = [tt EXCEPT ![h] = 0]
           \/ tpc' = [tpc EXCEPT ![h] = "bottom"] /\ tt' = [tt EXCEPT ![h] = tt[h]]
    BY <1>2 DEF Steal!StealLook, Steal!ThiefGoes, Steal!owner
  <2>2. 0 <= top
    BY <1>0
  <2> QED BY <1>0, <2>1, <2>2, WsThiefLooks
<1>3. CASE Steal!StealBottom(h)
  <2>1. /\ UNCHANGED <<bottom, top, buffer, opc, ob, ot, oval, pushed, popped, stolen>>
        /\ tval' = [tval EXCEPT ![h] = 0]
        /\ \/ tpc' = [tpc EXCEPT ![h] = "idle"] /\ tt' = [tt EXCEPT ![h] = 0]
           \/ /\ tpc' = [tpc EXCEPT ![h] = "read"] /\ tt' = [tt EXCEPT ![h] = tt[h]]
              /\ ~(tt[h] >= bottom)
    BY <1>3 DEF Steal!StealBottom, Steal!ThiefGoes, Steal!owner
  <2>2. 0 <= top /\ (~(tt[h] >= bottom) /\ tt[h] = top => top < Bot)
    BY <1>0
  <2> QED BY <1>0, <2>1, <2>2, WsThiefLooks
<1>4. CASE Steal!StealRead(h)
  <2>1. /\ UNCHANGED <<bottom, top, buffer, opc, ob, ot, oval, pushed, popped, stolen>>
        /\ tval' = [tval EXCEPT ![h] = Item(tt[h])] /\ tpc[h] = "read"
        /\ tpc' = [tpc EXCEPT ![h] = "compete"] /\ tt' = [tt EXCEPT ![h] = tt[h]]
    BY <1>4 DEF Steal!StealRead, Steal!ThiefGoes, Steal!owner, Steal!StealSlot, Item
  <2>2. tt[h] = top => top < Bot /\ Item(tt[h]) = Item(top)
    BY <1>0, <2>1 DEF WsThieves
  <2> QED BY <1>0, <2>1, <2>2, WsThiefLooks
<1>5. CASE Steal!StealCompete(h)
  <2>1. CASE top = tt[h]
    <3>1. /\ tpc[h] = "compete" /\ top' = top + 1 /\ stolen' = Append(stolen, tval[h])
          /\ tpc' = [tpc EXCEPT ![h] = "idle"] /\ tt' = [tt EXCEPT ![h] = 0] /\ tval' = [tval EXCEPT ![h] = 0]
          /\ UNCHANGED <<bottom, buffer, opc, ob, ot, oval, pushed, popped>>
      BY <1>5, <2>1 DEF Steal!StealCompete, Steal!ThiefGoes, Steal!owner
    <3> QED BY <2>1, <3>1, WsStealWin
  <2>2. CASE top # tt[h]
    <3>1. /\ tpc' = [tpc EXCEPT ![h] = "bottom"] /\ tt' = [tt EXCEPT ![h] = top]
          /\ tval' = [tval EXCEPT ![h] = 0]
          /\ UNCHANGED <<bottom, top, buffer, opc, ob, ot, oval, pushed, popped, stolen>>
      BY <1>5, <2>2 DEF Steal!StealCompete, Steal!ThiefGoes, Steal!owner
    <3>2. top <= top
      BY <1>0
    <3> QED BY <1>0, <3>1, <3>2, WsThiefLooks
  <2> QED BY <2>1, <2>2
<1> QED BY <1>1, <1>2, <1>3, <1>4, <1>5 DEF Steal!Steal

\* Every step of the queue preserves its invariant.
LEMMA WsInductive == WsInv /\ [Steal!Next]_stealVars => WsInv'
<1> SUFFICES ASSUME WsInv, [Steal!Next]_stealVars PROVE WsInv'
  OBVIOUS
<1>1. CASE UNCHANGED stealVars
  <2>1. /\ UNCHANGED <<bottom, top, buffer, opc, ob, ot, oval, tpc, tt, tval, pushed, popped, stolen>>
        /\ Bot' = Bot /\ Item(bottom)' = Item(bottom)
    BY <1>1 DEF stealVars, Bot, Item, Steal!Slot
  <2>2. WsTypeOK'
    BY <2>1 DEF WsInv, WsTypeOK
  <2>3. WsOwner'
    BY <2>1 DEF WsInv, WsOwner
  <2> QED BY <2>1, <2>2, <2>3, WsSame DEF WsInv
<1>2. CASE Steal!Next
  BY <1>2, WsOwnerLooks, WsBottom, WsPushWrite, WsPushPublish, WsPopTop, WsPopCompete, WsSteals
  DEF Steal!Next, Steal!Push, Steal!Pop
<1> QED BY <1>1, <1>2

\* Two histories without repetition that share nothing, one after the other, have no repetition.
LEMMA DistinctConcat ==
  ASSUME NEW s \in Seq(Nat), NEW r \in Seq(Nat), Distinct(s), Distinct(r), Elems(s) \cap Elems(r) = {}
  PROVE  Steal!IsInjective(s \o r)
<1> DEFINE c == s \o r
<1>1. /\ c \in Seq(Nat) /\ Len(c) = Len(s) + Len(r) /\ Len(s) \in Nat /\ Len(r) \in Nat
      /\ \A i \in 1 .. Len(s) : c[i] = s[i]
      /\ \A i \in 1 .. Len(c) : i > Len(s) => c[i] = r[i - Len(s)]
  OBVIOUS
<1>2. DOMAIN c = 1 .. Len(c)
  BY <1>1
<1> HIDE DEF c
<1>3. \A i \in 1 .. Len(c) : i \in 1 .. Len(s) \/ (i > Len(s) /\ i - Len(s) \in 1 .. Len(r))
  BY <1>1
<1>4. /\ \A i \in 1 .. Len(s) : c[i] \in Elems(s)
      /\ \A i \in 1 .. Len(c) : i > Len(s) /\ i - Len(s) \in 1 .. Len(r) => c[i] \in Elems(r)
  BY <1>1 DEF Elems
<1>5. ASSUME NEW i \in 1 .. Len(c), NEW j \in 1 .. Len(c), c[i] = c[j] PROVE i = j
  <2>1. CASE i \in 1 .. Len(s) /\ j \in 1 .. Len(s)
    BY <1>1, <1>5, <2>1 DEF Distinct
  <2>2. CASE i > Len(s) /\ i - Len(s) \in 1 .. Len(r) /\ j > Len(s) /\ j - Len(s) \in 1 .. Len(r)
    <3>1. r[i - Len(s)] = r[j - Len(s)]
      BY <1>1, <1>5, <2>2
    <3>2. i - Len(s) = j - Len(s)
      BY <2>2, <3>1 DEF Distinct
    <3> QED BY <1>1, <3>2
  <2>3. CASE i \in 1 .. Len(s) /\ j > Len(s) /\ j - Len(s) \in 1 .. Len(r)
    BY <1>4, <1>5, <2>3
  <2>4. CASE j \in 1 .. Len(s) /\ i > Len(s) /\ i - Len(s) \in 1 .. Len(r)
    BY <1>4, <1>5, <2>4
  <2> QED BY <1>3, <2>1, <2>2, <2>3, <2>4
<1>6. Steal!IsInjective(c)
  BY <1>2, <1>5 DEF Steal!IsInjective
<1> QED BY <1>6 DEF c

\* What the owner and the thieves have got, as the model says it.
LEMMA WsGot ==
  ASSUME WsInv
  PROVE  /\ Steal!Range(popped) = Elems(popped) /\ Steal!Range(stolen) = Elems(stolen)
         /\ DOMAIN stolen = 1 .. Len(stolen)
<1>1. popped \in Seq(Nat) /\ stolen \in Seq(Nat)
  BY DEF WsInv, WsTypeOK
<1>2. DOMAIN popped = 1 .. Len(popped) /\ DOMAIN stolen = 1 .. Len(stolen)
  BY <1>1
<1> QED BY <1>2 DEF Steal!Range, Elems

\* No item is handed out twice, none is lost, and thieves get them in order.
LEMMA WsMeaning == WsInv => Steal!TakenOnce /\ Steal!NothingLost /\ Steal!StolenInOrder
<1> SUFFICES ASSUME WsInv PROVE Steal!TakenOnce /\ Steal!NothingLost /\ Steal!StolenInOrder
  OBVIOUS
<1>1. Steal!Taken = Elems(popped) \cup Elems(stolen)
  BY WsGot DEF Steal!Taken
<1>2. Steal!TakenOnce
  BY <1>1, DistinctConcat DEF WsInv, WsTypeOK, WsTaken, Steal!TakenOnce
<1>3. Steal!NothingLost
  <2> SUFFICES ASSUME opc = "idle" PROVE Steal!Live = (1 .. pushed) \ Steal!Taken
    BY DEF Steal!NothingLost
  <2>1. Bot = bottom
    BY DEF Bot
  <2>2. Steal!Live = {Item(i) : i \in top .. bottom - 1}
    BY DEF Steal!Live, Item
  <2>3. \A v : v \in {Item(i) : i \in top .. bottom - 1} <=> v \in (1 .. pushed) \ Steal!Taken
    BY <1>1, <2>1 DEF WsInv, WsItems
  <2> QED BY <2>2, <2>3
<1>4. Steal!StolenInOrder
  BY WsGot DEF WsInv, WsTaken, Steal!StolenInOrder
<1> QED BY <1>2, <1>3, <1>4

\* The item a pop hands out is the last of those to be had.
LEMMA WsPopsLast ==
  ASSUME WsInv, Steal!Next, popped' # popped
  PROVE  top < Bot /\ popped' = Append(popped, Item(Bot - 1))
<1>0. /\ WsTypeOK /\ WsOwner /\ bottom \in Nat /\ top \in Nat /\ ob \in Nat
  BY DEF WsInv, WsTypeOK
<1>1. CASE Steal!PopTop
  <2>1. opc = "pop_top" /\ Bot = ob /\ ob = bottom + 1
    BY <1>0, <1>1 DEF Steal!PopTop, WsOwner, Bot
  <2>2. top <= ob - 1 /\ popped' = Append(popped, buffer[Steal!PopSlot(ob)])
    BY <1>1 DEF Steal!PopTop
  <2> QED BY <1>0, <2>1, <2>2 DEF Item, Steal!PopSlot
<1>2. CASE Steal!PopCompete
  <2>1. opc = "pop_compete" /\ Bot = ob /\ ob = bottom + 1 /\ ot = bottom /\ oval = Item(bottom)
    BY <1>0, <1>2 DEF Steal!PopCompete, WsOwner, Bot
  <2>2. top = ot /\ popped' = Append(popped, oval)
    BY <1>2 DEF Steal!PopCompete
  <2>3. Bot - 1 = bottom /\ top < Bot
    BY <1>0, <2>1, <2>2
  <2> QED BY <2>1, <2>2, <2>3
<1>3. CASE Steal!Push
  BY <1>3 DEF Steal!Push, Steal!PushLoad, Steal!PushWrite, Steal!PushPublish
<1>4. CASE Steal!PopLoad \/ Steal!PopDecrement \/ Steal!PopRestore
  BY <1>4 DEF Steal!PopLoad, Steal!PopDecrement, Steal!PopRestore
<1>5. ASSUME NEW h \in Thieves, Steal!Steal(h) PROVE UNCHANGED popped
  BY <1>5 DEF Steal!Steal, Steal!StealTop, Steal!StealLook, Steal!StealBottom, Steal!StealRead,
     Steal!StealCompete
<1> QED BY <1>1, <1>2, <1>3, <1>4, <1>5 DEF Steal!Next, Steal!Pop

\* ... and so the youngest that is still to be had.
LEMMA WsPopsNewest ==
  ASSUME WsInv, Steal!Next, popped' # popped,
         NEW v \in (1 .. pushed) \ (Steal!Taken \cup Steal!Range(popped'))
  PROVE  v < popped'[Len(popped')]
<1>0. top \in Nat /\ Bot \in Nat /\ popped \in Seq(Nat) /\ Len(popped) \in Nat
  BY DEF WsInv, WsTypeOK, Bot
<1>1. top < Bot /\ popped' = Append(popped, Item(Bot - 1))
  BY WsPopsLast
<1>2. Bot - 1 \in top .. Bot - 1
  BY <1>0, <1>1
<1>3. Item(Bot - 1) \in Nat
  BY <1>2, WsTakes
<1>4. Len(popped') = Len(popped) + 1 /\ popped'[Len(popped')] = Item(Bot - 1) /\ popped' \in Seq(Nat)
  BY <1>0, <1>1, <1>3
<1>5. Item(Bot - 1) \in Steal!Range(popped')
  <2>1. Len(popped') \in DOMAIN popped'
    BY <1>0, <1>4
  <2> QED BY <1>4, <2>1 DEF Steal!Range
<1>6. v \notin Elems(popped) \cup Elems(stolen) /\ v # Item(Bot - 1)
  BY <1>5, WsGot DEF Steal!Taken
<1>7. PICK i \in top .. Bot - 1 : v = Item(i)
  BY <1>6 DEF WsInv, WsItems
<1>8. i < Bot - 1
  BY <1>0, <1>6, <1>7
<1>9. Item(i) < Item(Bot - 1)
  BY <1>2, <1>8 DEF WsInv, WsItems
<1> QED BY <1>4, <1>7, <1>9

-----------------------------------------------------------------------------
(* The queues of the suite                                                 *)

\* The rings for one producer and one consumer keep their invariant.
LEMMA SpscQueues == LockFreeSpec => [](focus = "spsc" => SpscInv)
<1> DEFINE I == focus = "spsc" => SpscInv
<1>1. LockFreeInit => I
  BY SpscBegins DEF LockFreeInit
<1>2. I /\ [LockFreeNext]_lockFreeVars => I'
  <2> SUFFICES ASSUME I, [LockFreeNext]_lockFreeVars, focus' = "spsc" PROVE SpscInv'
    OBVIOUS
  <2>1. focus = "spsc"
    BY DEF LockFreeNext, lockFreeVars
  <2>2. [Spsc!Next]_spscVars
    BY <2>1 DEF LockFreeNext, lockFreeVars
  <2> QED BY <2>1, <2>2, SpscInductive
<1> QED BY <1>1, <1>2, PTL DEF LockFreeSpec

\* MPMCBoundedQueue keeps its invariant, in a ring of more than one node.
LEMMA MpQueues == ASSUME NodeCount > 1 PROVE LockFreeSpec => [](focus = "nodes" => MpInv)
<1> DEFINE I == focus = "nodes" => MpInv
<1>1. LockFreeInit => I
  BY MpBegins DEF LockFreeInit
<1>2. I /\ [LockFreeNext]_lockFreeVars => I'
  <2> SUFFICES ASSUME I, [LockFreeNext]_lockFreeVars, focus' = "nodes" PROVE MpInv'
    OBVIOUS
  <2>1. focus = "nodes"
    BY DEF LockFreeNext, lockFreeVars
  <2>2. [Nodes!Next]_nodeVars
    BY <2>1 DEF LockFreeNext, lockFreeVars
  <2> QED BY <2>1, <2>2, MpInductive
<1> QED BY <1>1, <1>2, PTL DEF LockFreeSpec

\* WorkStealingQueue keeps its invariant.
LEMMA WsQueues == LockFreeSpec => [](focus = "steal" => WsInv)
<1> DEFINE I == focus = "steal" => WsInv
<1>1. LockFreeInit => I
  BY WsBegins DEF LockFreeInit
<1>2. I /\ [LockFreeNext]_lockFreeVars => I'
  <2> SUFFICES ASSUME I, [LockFreeNext]_lockFreeVars, focus' = "steal" PROVE WsInv'
    OBVIOUS
  <2>1. focus = "steal"
    BY DEF LockFreeNext, lockFreeVars
  <2>2. [Steal!Next]_stealVars
    BY <2>1 DEF LockFreeNext, lockFreeVars
  <2> QED BY <2>1, <2>2, WsInductive
<1> QED BY <1>1, <1>2, PTL DEF LockFreeSpec

\* Every item of a lock-free queue is handed out once, in order and complete, and nobody works on a slot
\* another thread works on: WorkStealingQueue for any number of thieves and any capacity, MPMCBoundedQueue
\* for any number of clients and any ring of at least two nodes (with one node the number that says
\* filled is the one that says free), the single-producer rings for any size and any multiple of it at
\* which their indices wrap; each for any number of items.
THEOREM ItemsAreHandedOutOnce ==
  ASSUME NodeCount > 1
  PROVE  LockFreeSpec => []ItemsHandedOutOnce
<1>1. /\ (focus = "steal" => WsInv) /\ (focus = "nodes" => MpInv) /\ (focus = "spsc" => SpscInv)
      => ItemsHandedOutOnce
  BY WsMeaning, MpMeaning, SpscMeaning DEF ItemsHandedOutOnce
<1> QED BY <1>1, WsQueues, MpQueues, SpscQueues, PTL

\* A step of the suite is one of the queue in focus, or leaves a queue's variables alone.
LEMMA QueueSteps ==
  ASSUME [LockFreeNext]_lockFreeVars
  PROVE  /\ UNCHANGED nodeVars \/ (focus = "nodes" /\ Nodes!Next)
         /\ UNCHANGED stealVars \/ (focus = "steal" /\ Steal!Next)
  BY DEF LockFreeNext, lockFreeVars

\* A refusal is justified: a producer of MPMCBoundedQueue is refused only by a full ring or a node that is
\* just being copied out, a consumer only by a position nobody has finished, and pop of WorkStealingQueue
\* hands out the youngest item there is; for the same queues as above.
THEOREM RefusalsAreJustified ==
  ASSUME NodeCount > 1
  PROVE  LockFreeSpec => RefusalsJustified
<1>1. (focus = "nodes" => MpInv) /\ [LockFreeNext]_lockFreeVars =>
        [\A p \in NodeProducers : pc[p] = "node" /\ pc'[p] = "idle" =>
           \/ head - tail >= NodeCount
           \/ \E c \in NodeConsumers : pc[c] \in {"read", "release"} /\ seq[c] = seq[p] - NodeCount]_(Nodes!vars)
  <2> SUFFICES ASSUME focus = "nodes" => MpInv, [LockFreeNext]_lockFreeVars, ~UNCHANGED nodeVars,
                      NEW p \in NodeProducers, pc[p] = "node", pc'[p] = "idle"
               PROVE  \/ head - tail >= NodeCount
                      \/ \E c \in NodeConsumers : pc[c] \in {"read", "release"} /\ seq[c] = seq[p] - NodeCount
    BY DEF nodeVars, Nodes!vars
  <2>1. MpInv /\ Nodes!Next /\ p \in Nodes!Clients
    BY QueueSteps, MpConstants
  <2>2. Nodes!Turn(p) < 0
    BY <2>1, MpRefuses
  <2> QED BY <2>1, <2>2, MpRefusedFull
<1>2. (focus = "nodes" => MpInv) /\ [LockFreeNext]_lockFreeVars =>
        [\A c \in NodeConsumers : pc[c] = "node" /\ pc'[c] = "idle" =>
           \/ seq[c] >= head
           \/ \E p \in NodeProducers : pc[p] \in {"write", "publish"} /\ seq[p] = seq[c]]_(Nodes!vars)
  <2> SUFFICES ASSUME focus = "nodes" => MpInv, [LockFreeNext]_lockFreeVars, ~UNCHANGED nodeVars,
                      NEW c \in NodeConsumers, pc[c] = "node", pc'[c] = "idle"
               PROVE  \/ seq[c] >= head
                      \/ \E p \in NodeProducers : pc[p] \in {"write", "publish"} /\ seq[p] = seq[c]
    BY DEF nodeVars, Nodes!vars
  <2>1. MpInv /\ Nodes!Next /\ c \in Nodes!Clients
    BY QueueSteps, MpConstants
  <2>2. Nodes!Turn(c) < 0
    BY <2>1, MpRefuses
  <2> QED BY <2>1, <2>2, MpRefusedEmpty
<1>3. (focus = "steal" => WsInv) /\ [LockFreeNext]_lockFreeVars =>
        [popped' # popped => \A v \in (1 .. pushed) \ (Steal!Taken \cup Steal!Range(popped')) :
                               v < popped'[Len(popped')]]_(Steal!vars)
  <2> SUFFICES ASSUME focus = "steal" => WsInv, [LockFreeNext]_lockFreeVars, popped' # popped,
                      NEW v \in (1 .. pushed) \ (Steal!Taken \cup Steal!Range(popped'))
               PROVE  v < popped'[Len(popped')]
    OBVIOUS
  <2>1. WsInv /\ Steal!Next
    BY QueueSteps DEF stealVars
  <2> QED BY <2>1, WsPopsNewest
<1>4. LockFreeSpec => Nodes!RefusedOnlyWhenFull
  BY <1>1, MpQueues, PTL DEF LockFreeSpec, Nodes!RefusedOnlyWhenFull
<1>5. LockFreeSpec => Nodes!EmptyOnlyWhenUnfilled
  BY <1>2, MpQueues, PTL DEF LockFreeSpec, Nodes!EmptyOnlyWhenUnfilled
<1>6. LockFreeSpec => Steal!OwnerTakesNewest
  BY <1>3, WsQueues, PTL DEF LockFreeSpec, Steal!OwnerTakesNewest
<1> QED BY <1>4, <1>5, <1>6 DEF RefusalsJustified
=============================================================================
