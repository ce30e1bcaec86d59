----------------------------- MODULE PoolProofs -----------------------------
(***************************************************************************)
(* The pools of PoolSuite, for every number of threads, work items, tasks  *)
(* and clients.  Each part has its inductive invariant (FixedInv, TaskInv, *)
(* AsyncInv, SimpleSeen; BGThreadPool's is in BGThreadPoolProofs), and the *)
(* suite's properties follow because its steps are steps of one instance.  *)
(***************************************************************************)
EXTENDS PoolSuite, FiniteSetTheorems, TLAPS

\* The instances' Cardinality is the one the library's theorems are about.
LEMMA SameCount ==
  \A S : /\ FixedPool!Cardinality(S) = Cardinality(S)
         /\ TaskPool!Cardinality(S) = Cardinality(S)
<1>1. ASSUME NEW S PROVE FixedPool!Cardinality(S) = Cardinality(S)
  BY Zenon DEF FixedPool!Cardinality, Cardinality
<1>2. ASSUME NEW S PROVE TaskPool!Cardinality(S) = Cardinality(S)
  BY Zenon DEF TaskPool!Cardinality, Cardinality
<1> QED BY <1>1, <1>2

-----------------------------------------------------------------------------
(* PosixFixedThreadPool.                                                   *)

FixedTypes ==
  /\ f_pc \in [FixedPool!Procs -> {"none", "check", "wait", "run", "exited", "done"}]
  /\ bgthreads \in SUBSET FixedPool!Threads
  /\ shutDown \in BOOLEAN /\ paused \in BOOLEAN
  /\ f_queue \in Seq(Jobs) /\ f_accepted \in Seq(Jobs) /\ f_started \in Seq(Jobs)

\* Only the destructor sets shutting_down_, only a thread that has seen it
\* leaves, and then none is left when the destructor returns.
FixedDown ==
  /\ shutDown <=> f_pc[0] # "none"
  /\ f_pc[0] \in {"none", "check", "wait", "done"}
  /\ \A w \in FixedPool!Threads : f_pc[w] # "done"
  /\ \A w \in FixedPool!Threads : f_pc[w] = "exited" => shutDown

FixedInv ==
  /\ FixedTypes /\ FixedDown
  /\ FixedPool!NoSleeperWithWork /\ FixedPool!ThreadAccounting
  /\ FixedPool!NoThreadOutlivesPool /\ FixedPool!FifoExactlyOnce

LEMMA FixedBasics ==
  ASSUME FixedPool!FixedPoolAssumption
  PROVE  /\ MaxThreads \in Nat \ {0} /\ 0 \in FixedPool!Procs /\ 0 \notin FixedPool!Threads
         /\ \A w : w \in FixedPool!Procs <=> w = 0 \/ w \in FixedPool!Threads
         /\ IsFiniteSet(FixedPool!Threads) /\ Cardinality(FixedPool!Threads) = MaxThreads
<1>1. MaxThreads \in Nat \ {0}
  BY DEF FixedPool!FixedPoolAssumption
<1>2. IsFiniteSet(1 .. MaxThreads) /\ Cardinality(1 .. MaxThreads) = MaxThreads
  BY <1>1, FS_Interval
<1> QED BY <1>1, <1>2 DEF FixedPool!Procs, FixedPool!Threads

LEMMA FixedInit ==
  ASSUME FixedPool!FixedPoolAssumption, FixedPool!Init
  PROVE  FixedInv
<1>1. FixedTypes
  BY FixedBasics DEF FixedPool!Init, FixedTypes
<1>2. FixedDown
  BY FixedBasics DEF FixedPool!Init, FixedDown
<1>3. FixedPool!NoSleeperWithWork /\ FixedPool!NoThreadOutlivesPool
  BY FixedBasics DEF FixedPool!Init, FixedPool!NoSleeperWithWork, FixedPool!NoThreadOutlivesPool
<1>4. FixedPool!FifoExactlyOnce
  BY DEF FixedPool!Init, FixedPool!FifoExactlyOnce
<1>5. FixedPool!ThreadAccounting
  <2>1. PICK eager \in BOOLEAN :
          /\ f_pc = [w \in FixedPool!Procs |-> IF w # 0 /\ eager THEN "check" ELSE "none"]
          /\ numThreads = IF eager THEN MaxThreads ELSE 0
          /\ bgthreads = IF eager THEN FixedPool!Threads ELSE {}
    BY DEF FixedPool!Init
  <2>2. CASE eager
    <3>1. bgthreads = FixedPool!Threads /\ numThreads = MaxThreads
      BY <2>1, <2>2
    <3>2. \A w \in FixedPool!Threads : f_pc[w] = "check"
      BY <2>1, <2>2, FixedBasics
    <3> QED BY <3>1, <3>2, FixedBasics, SameCount DEF FixedPool!ThreadAccounting
  <2>3. CASE ~eager
    <3>1. bgthreads = {} /\ numThreads = 0 /\ \A w \in FixedPool!Threads : f_pc[w] = "none"
      BY <2>1, <2>3, FixedBasics
    <3> QED BY <3>1, FS_EmptySet, SameCount DEF FixedPool!ThreadAccounting
  <2> QED BY <2>2, <2>3
<1> QED BY <1>1, <1>2, <1>3, <1>4, <1>5 DEF FixedInv

\* A work item enters the queue; the threads are there from now on.
LEMMA FixedSchedule ==
  ASSUME FixedPool!FixedPoolAssumption, FixedInv, NEW j \in Jobs, FixedPool!Schedule(j)
  PROVE  FixedInv'
<1>1. /\ ~shutDown /\ UNCHANGED <<shutDown, paused, f_started>>
      /\ f_queue' = Append(f_queue, j) /\ f_accepted' = Append(f_accepted, j)
      /\ numThreads' = MaxThreads
      /\ bgthreads' = bgthreads \cup {w \in FixedPool!Threads : f_pc[w] = "none"}
  BY DEF FixedPool!Schedule, FixedPool!PushBack, FixedPool!StartMissing
<1>2. \A w \in FixedPool!Threads : f_pc[w] \in {"none", "check", "wait", "run"}
  BY <1>1, FixedBasics DEF FixedInv, FixedTypes, FixedDown
<1> DEFINE p == FixedPool!InitPool(f_pc)
<1>3. /\ p \in [FixedPool!Procs -> {"none", "check", "wait", "run", "exited", "done"}]
      /\ p[0] = f_pc[0]
      /\ \A w \in FixedPool!Threads : p[w] \in {"check", "wait", "run"} /\ (p[w] = "wait" => f_pc[w] = "wait")
  BY <1>2, FixedBasics DEF FixedPool!InitPool, FixedInv, FixedTypes
<1> HIDE DEF p
<1>4. f_pc' = IF f_queue = <<>> THEN FixedPool!Broadcast(p) ELSE p
  BY DEF FixedPool!Schedule, FixedPool!ScheduleBroadcast, p
<1>5. /\ f_pc' \in [FixedPool!Procs -> {"none", "check", "wait", "run", "exited", "done"}]
      /\ \A w \in FixedPool!Threads : f_pc'[w] \in {"check", "wait", "run"}
      /\ \A w \in FixedPool!Threads : f_pc'[w] = "wait" => f_pc[w] = "wait" /\ f_queue # <<>>
      /\ f_pc'[0] = "none"
  <2>1. f_pc[0] = "none"
    BY <1>1 DEF FixedInv, FixedDown
  <2>2. CASE f_queue = <<>>
    <3>1. f_pc' = FixedPool!Broadcast(p)
      BY <1>4, <2>2
    <3> QED BY <1>3, <2>1, <2>2, <3>1, FixedBasics DEF FixedPool!Broadcast
  <2>3. CASE f_queue # <<>>
    BY <1>3, <1>4, <2>1, <2>3, FixedBasics
  <2> QED BY <2>2, <2>3
<1>6. bgthreads' = FixedPool!Threads
  BY <1>1, <1>2 DEF FixedInv, FixedPool!ThreadAccounting
<1>7. FixedTypes'
  BY <1>1, <1>5, <1>6 DEF FixedInv, FixedTypes
<1>8. FixedDown'
  BY <1>1, <1>5 DEF FixedInv, FixedDown
<1>9. FixedPool!ThreadAccounting'
  <2>1. numThreads' = Cardinality(bgthreads')
    BY <1>1, <1>6, FixedBasics
  <2>2. bgthreads' = {w \in FixedPool!Threads : f_pc'[w] \notin {"none", "exited"}}
    BY <1>5, <1>6
  <2> QED BY <2>1, <2>2, SameCount DEF FixedPool!ThreadAccounting
<1>10. FixedPool!NoThreadOutlivesPool'
  BY <1>5 DEF FixedPool!NoThreadOutlivesPool
<1>11. FixedPool!NoSleeperWithWork'
  BY <1>1, <1>5 DEF FixedInv, FixedPool!NoSleeperWithWork, FixedPool!MustWait
<1>12. FixedPool!FifoExactlyOnce'
  <2>1. Append(f_started \o f_queue, j) = f_started \o Append(f_queue, j)
    <3>1. f_started \in Seq(Jobs) /\ f_queue \in Seq(Jobs)
      BY DEF FixedInv, FixedTypes
    <3> QED BY <3>1
  <2> QED BY <1>1, <2>1 DEF FixedInv, FixedPool!FifoExactlyOnce
<1> QED BY <1>7, <1>8, <1>9, <1>10, <1>11, <1>12 DEF FixedInv

\* A step that changes pc alone, and gives up no thread.
LEMMA FixedKeeps ==
  ASSUME FixedInv, f_pc' \in [FixedPool!Procs -> {"none", "check", "wait", "run", "exited", "done"}],
         \A w \in FixedPool!Threads :
            \/ f_pc'[w] = f_pc[w]
            \/ f_pc[w] \in {"check", "wait", "run"} /\ f_pc'[w] \in {"check", "wait", "run"},
         UNCHANGED <<numThreads, bgthreads>>
  PROVE  FixedPool!ThreadAccounting'
<1>0. bgthreads = {w \in FixedPool!Threads : f_pc[w] \notin {"none", "exited"}}
  BY DEF FixedInv, FixedPool!ThreadAccounting
<1>1. bgthreads' = {w \in FixedPool!Threads : f_pc'[w] \notin {"none", "exited"}}
  BY <1>0
<1> QED BY <1>1, SameCount DEF FixedInv, FixedPool!ThreadAccounting

LEMMA FixedClients ==
  ASSUME FixedPool!FixedPoolAssumption, FixedInv,
         FixedPool!Pause \/ FixedPool!Resume \/ FixedPool!Destroy \/ FixedPool!DestroyWait
  PROVE  FixedInv'
<1>1. UNCHANGED <<numThreads, bgthreads, f_queue, f_accepted, f_started>>
  BY DEF FixedPool!Pause, FixedPool!Resume, FixedPool!Destroy, FixedPool!DestroyWait
<1>2. /\ f_pc' \in [FixedPool!Procs -> {"none", "check", "wait", "run", "exited", "done"}]
      /\ \A w \in FixedPool!Threads :
            f_pc'[w] = f_pc[w] \/ (f_pc[w] = "wait" /\ f_pc'[w] = "check")
      /\ f_pc'[0] = "done" => f_pc[0] = "done"
      /\ f_pc[0] # "none" => f_pc'[0] # "none"
      /\ f_pc'[0] \in {"none", "check", "wait", "done"}
  BY FixedBasics
     DEF FixedPool!Pause, FixedPool!Resume, FixedPool!Destroy, FixedPool!DestroyWait,
         FixedPool!ResumeBroadcast, FixedPool!Broadcast, FixedInv,
         FixedTypes, FixedDown
<1>3. FixedTypes'
  BY <1>1, <1>2
     DEF FixedInv, FixedTypes, FixedPool!Pause, FixedPool!Resume, FixedPool!Destroy,
         FixedPool!DestroyWait
<1>4. FixedDown'
  <2>1. CASE FixedPool!Pause
    BY <2>1, FixedBasics DEF FixedPool!Pause, FixedInv, FixedDown
  <2>2. CASE FixedPool!Resume
    BY <1>2, <2>2, FixedBasics
       DEF FixedPool!Resume, FixedPool!ResumeBroadcast, FixedPool!Broadcast, FixedInv, FixedTypes,
           FixedDown
  <2>3. CASE FixedPool!Destroy
    BY <1>2, <2>3, FixedBasics
       DEF FixedPool!Destroy, FixedPool!Broadcast, FixedInv, FixedTypes, FixedDown
  <2>4. CASE FixedPool!DestroyWait
    BY <1>2, <2>4, FixedBasics DEF FixedPool!DestroyWait, FixedInv, FixedTypes, FixedDown
  <2> QED BY <2>1, <2>2, <2>3, <2>4
<1>5. FixedPool!ThreadAccounting'
  <2>1. \A w \in FixedPool!Threads :
          \/ f_pc'[w] = f_pc[w]
          \/ f_pc[w] \in {"check", "wait", "run"} /\ f_pc'[w] \in {"check", "wait", "run"}
    BY <1>2
  <2> QED BY <1>1, <1>2, <2>1, FixedKeeps
<1>6. FixedPool!NoThreadOutlivesPool'
  <2>1. SUFFICES ASSUME f_pc'[0] = "done", NEW w \in FixedPool!Threads
                 PROVE  f_pc'[w] \in {"none", "exited"}
    BY DEF FixedPool!NoThreadOutlivesPool
  <2>2. f_pc[w] \in {"none", "exited"}
    BY <1>2, <2>1 DEF FixedInv, FixedPool!NoThreadOutlivesPool
  <2> QED BY <1>2, <2>2
<1>7. FixedPool!FifoExactlyOnce'
  BY <1>1 DEF FixedInv, FixedPool!FifoExactlyOnce
<1>8. FixedPool!NoSleeperWithWork'
  <2>1. CASE FixedPool!Pause \/ FixedPool!DestroyWait
    <3>1. FixedPool!MustWait => FixedPool!MustWait'
      BY <1>1, <2>1 DEF FixedPool!Pause, FixedPool!DestroyWait, FixedPool!MustWait
    <3> QED BY <1>2, <3>1 DEF FixedInv, FixedPool!NoSleeperWithWork
  <2>2. CASE FixedPool!Resume \/ FixedPool!Destroy
    <3>1. \A w \in FixedPool!Threads : f_pc'[w] # "wait"
      BY <2>2, FixedBasics
         DEF FixedPool!Resume, FixedPool!Destroy, FixedPool!ResumeBroadcast, FixedPool!Broadcast,
             FixedInv, FixedTypes
    <3> QED BY <3>1 DEF FixedPool!NoSleeperWithWork
  <2> QED BY <2>1, <2>2
<1> QED BY <1>3, <1>4, <1>5, <1>6, <1>7, <1>8 DEF FixedInv

\* The destructor returns: no thread is counted, so bgthreads_ is empty.
LEMMA FixedDone ==
  ASSUME FixedPool!FixedPoolAssumption, FixedInv, FixedPool!DestroyDone
  PROVE  FixedInv'
<1>1. bgthreads = {}
  <2>1. IsFiniteSet(bgthreads)
    BY FixedBasics, FS_Subset DEF FixedInv, FixedTypes
  <2>2. Cardinality(bgthreads) = 0
    BY SameCount
       DEF FixedInv, FixedPool!ThreadAccounting, FixedPool!DestroyDone, FixedPool!AllThreadsLeft
  <2> QED BY <2>1, <2>2, FS_EmptySet
<1>2. \A w \in FixedPool!Threads : f_pc[w] \in {"none", "exited"}
  BY <1>1, FixedBasics DEF FixedInv, FixedTypes, FixedPool!ThreadAccounting
<1>3. /\ f_pc' \in [FixedPool!Procs -> {"none", "check", "wait", "run", "exited", "done"}]
      /\ \A w \in FixedPool!Threads : f_pc'[w] = f_pc[w]
      /\ f_pc'[0] = "done" /\ f_pc[0] = "check"
      /\ UNCHANGED <<numThreads, bgthreads, shutDown, paused, f_queue, f_accepted, f_started>>
  BY <1>1, FixedBasics DEF FixedPool!DestroyDone, FixedInv, FixedTypes
<1>4. FixedTypes' /\ FixedDown'
  BY <1>3, FixedBasics DEF FixedInv, FixedTypes, FixedDown
<1>5. FixedPool!ThreadAccounting'
  <2>1. \A w \in FixedPool!Threads :
          \/ f_pc'[w] = f_pc[w]
          \/ f_pc[w] \in {"check", "wait", "run"} /\ f_pc'[w] \in {"check", "wait", "run"}
    BY <1>3
  <2> QED BY <1>3, <2>1, FixedKeeps
<1>6. FixedPool!NoThreadOutlivesPool' /\ FixedPool!FifoExactlyOnce' /\ FixedPool!NoSleeperWithWork'
  BY <1>2, <1>3
     DEF FixedInv, FixedPool!NoThreadOutlivesPool, FixedPool!FifoExactlyOnce,
         FixedPool!NoSleeperWithWork, FixedPool!MustWait
<1> QED BY <1>4, <1>5, <1>6 DEF FixedInv

LEMMA FixedWaits ==
  ASSUME FixedPool!FixedPoolAssumption, FixedInv,
         \/ \E w \in FixedPool!Threads : FixedPool!BGWait(w) \/ FixedPool!BGFinish(w)
         \/ \E w \in FixedPool!Procs : FixedPool!SpuriousWakeup(w)
  PROVE  FixedInv'
<1>1. PICK w \in FixedPool!Procs :
        \/ w \in FixedPool!Threads /\ (FixedPool!BGWait(w) \/ FixedPool!BGFinish(w))
        \/ FixedPool!SpuriousWakeup(w)
  BY FixedBasics
<1>2. /\ f_pc[w] \in {"check", "run", "wait"}
      /\ \E v \in {"check", "wait"} : f_pc' = [f_pc EXCEPT ![w] = v] /\ (v = "wait" => FixedPool!MustWait)
      /\ UNCHANGED <<numThreads, bgthreads, shutDown, paused, f_queue, f_accepted, f_started>>
  BY <1>1 DEF FixedPool!BGWait, FixedPool!BGFinish, FixedPool!SpuriousWakeup
<1>3. PICK v \in {"check", "wait"} : f_pc' = [f_pc EXCEPT ![w] = v] /\ (v = "wait" => FixedPool!MustWait)
  BY <1>2
<1>4. /\ f_pc' \in [FixedPool!Procs -> {"none", "check", "wait", "run", "exited", "done"}]
      /\ f_pc'[w] = v
      /\ \A x \in FixedPool!Procs : x # w => f_pc'[x] = f_pc[x]
  BY <1>3 DEF FixedInv, FixedTypes
<1>5. FixedTypes' /\ FixedDown'
  BY <1>2, <1>4, FixedBasics DEF FixedInv, FixedTypes, FixedDown
<1>6. FixedPool!ThreadAccounting'
  <2>1. \A x \in FixedPool!Threads :
          \/ f_pc'[x] = f_pc[x]
          \/ f_pc[x] \in {"check", "wait", "run"} /\ f_pc'[x] \in {"check", "wait", "run"}
    BY <1>2, <1>4, FixedBasics
  <2> QED BY <1>2, <1>4, <2>1, FixedKeeps
<1>7. FixedPool!NoThreadOutlivesPool'
  BY <1>2, <1>4, FixedBasics DEF FixedInv, FixedPool!NoThreadOutlivesPool
<1>8. FixedPool!FifoExactlyOnce'
  BY <1>2 DEF FixedInv, FixedPool!FifoExactlyOnce
<1>9. FixedPool!NoSleeperWithWork'
  <2>1. FixedPool!MustWait' <=> FixedPool!MustWait
    BY <1>2 DEF FixedPool!MustWait
  <2> QED BY <1>3, <1>4, <2>1, FixedBasics DEF FixedInv, FixedPool!NoSleeperWithWork
<1> QED BY <1>5, <1>6, <1>7, <1>8, <1>9 DEF FixedInv

LEMMA FixedExit ==
  ASSUME FixedPool!FixedPoolAssumption, FixedInv, NEW w \in FixedPool!Threads, FixedPool!BGExit(w)
  PROVE  FixedInv'
<1>1. /\ f_pc[w] = "check" /\ shutDown /\ bgthreads' = bgthreads \ {w} /\ numThreads' = numThreads - 1
      /\ UNCHANGED <<shutDown, paused, f_queue, f_accepted, f_started>>
  BY DEF FixedPool!BGExit, FixedPool!EraseEntry
<1>2. /\ f_pc' \in [FixedPool!Procs -> {"none", "check", "wait", "run", "exited", "done"}]
      /\ f_pc'[w] = "exited"
      /\ \A x \in FixedPool!Procs : x # w => f_pc'[x] = IF f_pc[x] = "wait" THEN "check" ELSE f_pc[x]
  BY <1>1, FixedBasics
     DEF FixedPool!BGExit, FixedPool!ExitBroadcast, FixedPool!Broadcast, FixedInv, FixedTypes
<1>3. FixedTypes'
  BY <1>1, <1>2 DEF FixedInv, FixedTypes
<1>4. FixedDown'
  BY <1>1, <1>2, FixedBasics DEF FixedInv, FixedDown
<1>5. FixedPool!ThreadAccounting'
  <2>1. bgthreads' = {x \in FixedPool!Threads : f_pc'[x] \notin {"none", "exited"}}
    BY <1>1, <1>2, FixedBasics DEF FixedInv, FixedPool!ThreadAccounting
  <2>2. w \in bgthreads /\ IsFiniteSet(bgthreads)
    BY <1>1, FixedBasics, FS_Subset DEF FixedInv, FixedTypes, FixedPool!ThreadAccounting
  <2>3. Cardinality(bgthreads \ {w}) = Cardinality(bgthreads) - 1
    BY <2>2, FS_RemoveElement
  <2>4. numThreads = Cardinality(bgthreads)
    BY SameCount DEF FixedInv, FixedPool!ThreadAccounting
  <2> QED BY <1>1, <2>1, <2>3, <2>4, SameCount DEF FixedPool!ThreadAccounting
<1>6. FixedPool!NoThreadOutlivesPool'
  BY <1>1, <1>2, FixedBasics DEF FixedInv, FixedPool!NoThreadOutlivesPool
<1>7. FixedPool!FifoExactlyOnce'
  BY <1>1 DEF FixedInv, FixedPool!FifoExactlyOnce
<1>8. FixedPool!NoSleeperWithWork'
  BY <1>2, FixedBasics DEF FixedInv, FixedTypes, FixedPool!NoSleeperWithWork
<1> QED BY <1>3, <1>4, <1>5, <1>6, <1>7, <1>8 DEF FixedInv

LEMMA FixedTake ==
  ASSUME FixedPool!FixedPoolAssumption, FixedInv, NEW w \in FixedPool!Threads, FixedPool!BGTake(w)
  PROVE  FixedInv'
<1>1. /\ f_pc[w] = "check" /\ ~FixedPool!MustWait /\ ~shutDown /\ f_queue # <<>> /\ ~paused
      /\ f_started' = Append(f_started, Head(f_queue)) /\ f_queue' = Tail(f_queue)
      /\ UNCHANGED <<numThreads, bgthreads, shutDown, paused, f_accepted>>
  BY DEF FixedPool!BGTake, FixedPool!MustWait
<1>2. /\ f_pc' \in [FixedPool!Procs -> {"none", "check", "wait", "run", "exited", "done"}]
      /\ f_pc'[w] = "run"
      /\ \A x \in FixedPool!Procs : x # w => f_pc'[x] = f_pc[x]
  BY <1>1, FixedBasics DEF FixedPool!BGTake, FixedInv, FixedTypes
<1>3. /\ f_started' \o f_queue' = f_started \o f_queue
      /\ f_started' \in Seq(Jobs) /\ f_queue' \in Seq(Jobs)
  <2>1. f_started \in Seq(Jobs) /\ f_queue \in Seq(Jobs)
    BY DEF FixedInv, FixedTypes
  <2> QED BY <1>1, <2>1
<1>4. FixedTypes'
  BY <1>1, <1>2, <1>3 DEF FixedInv, FixedTypes
<1>5. FixedDown'
  BY <1>1, <1>2, FixedBasics DEF FixedInv, FixedDown
<1>6. FixedPool!ThreadAccounting'
  <2>1. \A x \in FixedPool!Threads :
          \/ f_pc'[x] = f_pc[x]
          \/ f_pc[x] \in {"check", "wait", "run"} /\ f_pc'[x] \in {"check", "wait", "run"}
    BY <1>1, <1>2, FixedBasics
  <2> QED BY <1>1, <1>2, <2>1, FixedKeeps
<1>7. FixedPool!NoThreadOutlivesPool'
  BY <1>1, <1>2, FixedBasics DEF FixedInv, FixedPool!NoThreadOutlivesPool
<1>8. FixedPool!FifoExactlyOnce'
  BY <1>1, <1>3 DEF FixedInv, FixedPool!FifoExactlyOnce
<1>9. FixedPool!NoSleeperWithWork'
  <2>1. \A x \in FixedPool!Threads : f_pc'[x] # "wait"
    BY <1>1, <1>2, FixedBasics DEF FixedInv, FixedPool!NoSleeperWithWork
  <2> QED BY <2>1 DEF FixedPool!NoSleeperWithWork
<1> QED BY <1>4, <1>5, <1>6, <1>7, <1>8, <1>9 DEF FixedInv

\* Every step of PosixFixedThreadPool keeps its invariant.
LEMMA FixedStep ==
  ASSUME FixedPool!FixedPoolAssumption, FixedInv, FixedPool!Next \/ UNCHANGED fixedVars
  PROVE  FixedInv'
<1>1. CASE UNCHANGED fixedVars
  BY <1>1
     DEF fixedVars, FixedInv, FixedTypes, FixedDown, FixedPool!NoSleeperWithWork,
         FixedPool!MustWait, FixedPool!ThreadAccounting, FixedPool!NoThreadOutlivesPool,
         FixedPool!FifoExactlyOnce
<1>2. CASE FixedPool!Next
  BY <1>2, FixedSchedule, FixedClients, FixedDone, FixedWaits, FixedExit, FixedTake
     DEF FixedPool!Next, FixedPool!BGThread
<1> QED BY <1>1, <1>2

-----------------------------------------------------------------------------
(* TaskThreadPool.                                                         *)

TaskBusy == {w \in TaskPool!Threads : t_pc[w] = "run"}

TaskTypes ==
  /\ t_pc \in [TaskPool!Threads -> {"check", "wait", "run", "exited"}]
  /\ t_queue \in Seq(ClientTasks) /\ added \in Seq(ClientTasks) /\ t_taken \in Seq(ClientTasks)
  /\ complete \in BOOLEAN /\ t_running \in BOOLEAN
  /\ t_cpc \in [Waiters -> {"none", "check", "wait", "done"}]
  /\ t_dpc \in {"none", "join", "done"}

\* ClientTasks are taken in the order of the calls, and a client waits for tasks
\* that were added.
TaskOrder ==
  /\ added = t_taken \o t_queue
  /\ \A c \in Waiters : t_before[c] \in SUBSET TaskPool!Range(added)

TaskBefore == t_before \in [Waiters -> SUBSET ClientTasks]

TaskAwake == t_running => \A w \in TaskPool!Threads : t_pc[w] # "exited"

TaskCount == t_available = TaskThreads - Cardinality(TaskBusy)

TaskComplete == complete <=> t_queue = <<>> /\ t_available = TaskThreads

TaskInv ==
  /\ TaskTypes /\ TaskBefore /\ TaskOrder /\ TaskAwake /\ TaskPool!TaskWatched
  /\ TaskCount /\ TaskComplete

LEMMA TaskBasics ==
  ASSUME TaskPool!TaskPoolAssumption
  PROVE  /\ TaskThreads \in Nat \ {0} /\ 1 \in TaskPool!Threads
         /\ IsFiniteSet(TaskPool!Threads) /\ Cardinality(TaskPool!Threads) = TaskThreads
<1>1. TaskThreads \in Nat \ {0}
  BY DEF TaskPool!TaskPoolAssumption
<1>2. IsFiniteSet(1 .. TaskThreads) /\ Cardinality(1 .. TaskThreads) = TaskThreads
  BY <1>1, FS_Interval
<1> QED BY <1>1, <1>2 DEF TaskPool!Threads

LEMMA TaskBusyCount ==
  ASSUME TaskPool!TaskPoolAssumption
  PROVE  /\ IsFiniteSet(TaskBusy) /\ Cardinality(TaskBusy) \in 0 .. TaskThreads
         /\ Cardinality(TaskBusy) = 0 <=> TaskBusy = {}
<1>1. TaskBusy \subseteq TaskPool!Threads
  BY DEF TaskBusy
<1>2. IsFiniteSet(TaskBusy) /\ Cardinality(TaskBusy) <= TaskThreads
  BY <1>1, TaskBasics, FS_Subset
<1>3. Cardinality(TaskBusy) \in Nat
  BY <1>2, FS_CardinalityType
<1>4. Cardinality(TaskBusy) = 0 <=> TaskBusy = {}
  BY <1>2, FS_EmptySet
<1> QED BY <1>2, <1>3, <1>4, TaskBasics

LEMMA TaskRange ==
  ASSUME NEW s \in Seq(ClientTasks)
  PROVE  /\ TaskPool!Range(s) \in SUBSET ClientTasks
         /\ \A t \in ClientTasks : TaskPool!Range(s) \in SUBSET TaskPool!Range(Append(s, t))
<1>1. TaskPool!Range(s) \in SUBSET ClientTasks
  BY DEF TaskPool!Range
<1>2. ASSUME NEW t \in ClientTasks, NEW k \in 1 .. Len(s)
      PROVE  k \in 1 .. Len(Append(s, t)) /\ Append(s, t)[k] = s[k]
  OBVIOUS
<1>3. ASSUME NEW t \in ClientTasks PROVE TaskPool!Range(s) \in SUBSET TaskPool!Range(Append(s, t))
  BY <1>2, <1>3 DEF TaskPool!Range
<1> QED BY <1>1, <1>3

\* available_ and complete_ as the module states them.
LEMMA TaskExact ==
  ASSUME TaskPool!TaskPoolAssumption, TaskInv
  PROVE  TaskPool!TypeOK /\ TaskPool!CompleteExact
<1>1. t_available \in 0 .. TaskThreads
  BY TaskBusyCount, TaskBasics DEF TaskInv, TaskCount
<1>2. TaskPool!TypeOK
  BY <1>1 DEF TaskInv, TaskTypes, TaskPool!TypeOK
<1>3. TaskPool!CompleteExact
  BY SameCount DEF TaskInv, TaskCount, TaskComplete, TaskBusy, TaskPool!CompleteExact
<1> QED BY <1>2, <1>3

LEMMA TaskInit ==
  ASSUME TaskPool!TaskPoolAssumption, TaskPool!Init
  PROVE  TaskInv
<1>1. TaskTypes /\ TaskBefore /\ TaskOrder /\ TaskAwake /\ TaskPool!TaskWatched
  BY DEF TaskPool!Init, TaskTypes, TaskBefore, TaskOrder, TaskAwake, TaskPool!TaskWatched,
         TaskPool!Range
<1>2. TaskBusy = {}
  BY DEF TaskPool!Init, TaskBusy
<1>3. TaskCount /\ TaskComplete
  BY <1>2, TaskBasics, FS_EmptySet DEF TaskPool!Init, TaskCount, TaskComplete
<1> QED BY <1>1, <1>3 DEF TaskInv

\* The threads that run tasks stay the same.
LEMMA TaskSameBusy ==
  ASSUME TaskInv, UNCHANGED t_available, TaskBusy' = TaskBusy
  PROVE  TaskCount'
  BY DEF TaskInv, TaskCount

\* Notifying: a thread that sleeps is woken, if there is one.
LEMMA TaskNotified ==
  ASSUME TaskTypes, t_pc' \in TaskPool!NotifyOne(t_pc)
  PROVE  /\ t_pc' \in [TaskPool!Threads -> {"check", "wait", "run", "exited"}]
         /\ \A w \in TaskPool!Threads : t_pc'[w] = t_pc[w] \/ (t_pc[w] = "wait" /\ t_pc'[w] = "check")
         /\ \/ \E w \in TaskPool!Threads : t_pc'[w] = "check"
            \/ \A w \in TaskPool!Threads : t_pc'[w] # "wait"
<1>0. DOMAIN t_pc = TaskPool!Threads
  BY DEF TaskTypes
<1>1. CASE TaskPool!Sleeping(t_pc) = {}
  <2>1. t_pc' = t_pc
    BY <1>1 DEF TaskPool!NotifyOne
  <2>2. \A w \in TaskPool!Threads : t_pc[w] # "wait"
    BY <1>0, <1>1 DEF TaskPool!Sleeping
  <2> QED BY <2>1, <2>2 DEF TaskTypes
<1>2. CASE TaskPool!Sleeping(t_pc) # {}
  <2>1. PICK x \in TaskPool!Threads : t_pc[x] = "wait" /\ t_pc' = [t_pc EXCEPT ![x] = "check"]
    BY <1>0, <1>2 DEF TaskPool!NotifyOne, TaskPool!Sleeping
  <2> QED BY <2>1 DEF TaskTypes
<1> QED BY <1>1, <1>2

LEMMA TaskRun ==
  ASSUME TaskPool!TaskPoolAssumption, TaskInv, NEW t \in ClientTasks, TaskPool!RunTask(t)
  PROVE  TaskInv'
<1>1. /\ t_queue' = Append(t_queue, t) /\ added' = Append(added, t) /\ complete' = FALSE
      /\ UNCHANGED <<t_available, t_running, t_cpc, t_dpc, t_taken, t_before>>
      /\ t_pc' \in TaskPool!NotifyOne(t_pc)
  BY DEF TaskPool!RunTask, TaskPool!NotComplete, TaskPool!RunNotify
<1>2. /\ t_pc' \in [TaskPool!Threads -> {"check", "wait", "run", "exited"}]
      /\ \A w \in TaskPool!Threads : t_pc'[w] = t_pc[w] \/ (t_pc[w] = "wait" /\ t_pc'[w] = "check")
      /\ \/ \E w \in TaskPool!Threads : t_pc'[w] = "check"
         \/ \A w \in TaskPool!Threads : t_pc'[w] # "wait"
  BY <1>1, TaskNotified DEF TaskInv
<1>3. /\ t_queue \in Seq(ClientTasks) /\ added \in Seq(ClientTasks) /\ t_taken \in Seq(ClientTasks)
      /\ added = t_taken \o t_queue
  BY DEF TaskInv, TaskTypes, TaskOrder
<1>4. /\ t_queue' \in Seq(ClientTasks) /\ added' \in Seq(ClientTasks) /\ t_queue' # <<>>
      /\ added' = t_taken' \o t_queue'
  <2>1. Append(t_taken \o t_queue, t) = t_taken \o Append(t_queue, t)
    <3>1. t_queue \in Seq(ClientTasks) /\ t_taken \in Seq(ClientTasks)
      BY <1>3
    <3> QED BY <3>1
  <2>2. Append(t_queue, t) \in Seq(ClientTasks) /\ Append(added, t) \in Seq(ClientTasks) /\ Append(t_queue, t) # <<>>
    BY <1>3
  <2> QED BY <1>1, <1>3, <2>1, <2>2
<1>4a. TaskPool!Range(added) \in SUBSET TaskPool!Range(added')
  BY <1>1, <1>3, TaskRange
<1>5. TaskTypes'
  BY <1>1, <1>2, <1>4 DEF TaskInv, TaskTypes
<1>6. TaskBefore' /\ TaskOrder'
  BY <1>1, <1>4, <1>4a DEF TaskInv, TaskBefore, TaskOrder
<1>7. TaskAwake'
  BY <1>1, <1>2 DEF TaskInv, TaskAwake
<1>8. TaskPool!TaskWatched'
  BY <1>2, <1>7, TaskBasics DEF TaskAwake, TaskPool!TaskWatched
<1>9. TaskCount'
  <2>1. TaskBusy' = TaskBusy
    BY <1>2 DEF TaskBusy
  <2> QED BY <1>1, <2>1, TaskSameBusy
<1>10. TaskComplete'
  BY <1>1, <1>4 DEF TaskComplete
<1> QED BY <1>5, <1>6, <1>7, <1>8, <1>9, <1>10 DEF TaskInv

LEMMA TaskClients ==
  ASSUME TaskPool!TaskPoolAssumption, TaskInv,
         \E c \in Waiters : TaskPool!WaitWorkComplete(c) \/ TaskPool!ClientStep(c)
  PROVE  TaskInv'
<1>1. /\ UNCHANGED <<t_pc, t_queue, t_available, complete, t_running, t_dpc, added, t_taken>>
      /\ t_cpc' \in [Waiters -> {"none", "check", "wait", "done"}]
      /\ \A c \in Waiters : t_before'[c] = t_before[c] \/ t_before'[c] = TaskPool!Range(added)
      /\ t_before' \in [Waiters -> SUBSET ClientTasks]
  <2>1. TaskPool!Range(added) \in SUBSET ClientTasks
    BY TaskRange DEF TaskInv, TaskTypes
  <2> QED BY <2>1 DEF TaskPool!WaitWorkComplete, TaskPool!ClientStep, TaskInv, TaskTypes, TaskBefore
<1>2. TaskTypes' /\ TaskBefore' /\ TaskOrder' /\ TaskAwake' /\ TaskPool!TaskWatched'
  BY <1>1 DEF TaskInv, TaskTypes, TaskBefore, TaskOrder, TaskAwake, TaskPool!TaskWatched
<1>3. TaskCount' /\ TaskComplete'
  BY <1>1 DEF TaskInv, TaskCount, TaskBusy, TaskComplete
<1> QED BY <1>2, <1>3 DEF TaskInv

\* Steps that only move threads between waiting, looking and leaving.
LEMMA TaskMoves ==
  ASSUME TaskPool!TaskPoolAssumption, TaskInv,
         \/ TaskPool!Destroy \/ TaskPool!Destroyed
         \/ \E w \in TaskPool!Threads : TaskPool!ThreadWait(w) \/ TaskPool!ThreadExit(w)
         \/ TaskPool!SpuriousWakeup
  PROVE  TaskInv'
<1> DEFINE Moved ==
       /\ t_pc' \in [TaskPool!Threads -> {"check", "wait", "run", "exited"}]
       /\ TaskBusy' = TaskBusy
       /\ t_cpc' \in [Waiters -> {"none", "check", "wait", "done"}]
       /\ t_dpc' \in {"none", "join", "done"}
       /\ UNCHANGED <<t_queue, t_available, complete, added, t_taken, t_before>>
<1>0. TaskTypes /\ TaskAwake /\ TaskPool!TaskWatched
  BY DEF TaskInv
<1>1. Moved /\ TaskAwake' /\ TaskPool!TaskWatched'
  <2>1. CASE TaskPool!Destroy
    <3>1. t_running' = FALSE
      BY <2>1 DEF TaskPool!Destroy
    <3>2. Moved
      BY <1>0, <2>1
         DEF TaskPool!Destroy, TaskPool!StopNotify, TaskPool!NotifyAll, TaskTypes, TaskBusy
    <3> QED BY <3>1, <3>2 DEF TaskAwake, TaskPool!TaskWatched
  <2>2. CASE TaskPool!Destroyed
    BY <1>0, <2>2 DEF TaskPool!Destroyed, TaskTypes, TaskAwake, TaskPool!TaskWatched, TaskBusy
  <2>3. ASSUME NEW w \in TaskPool!Threads, TaskPool!ThreadWait(w)
        PROVE  Moved /\ TaskAwake' /\ TaskPool!TaskWatched'
    BY <1>0, <2>3 DEF TaskPool!ThreadWait, TaskTypes, TaskAwake, TaskPool!TaskWatched, TaskBusy
  <2>4. ASSUME NEW w \in TaskPool!Threads, TaskPool!ThreadExit(w)
        PROVE  Moved /\ TaskAwake' /\ TaskPool!TaskWatched'
    BY <1>0, <2>4 DEF TaskPool!ThreadExit, TaskTypes, TaskAwake, TaskPool!TaskWatched, TaskBusy
  <2>5. CASE TaskPool!SpuriousWakeup
    <3>1. CASE UNCHANGED t_pc
      BY <1>0, <2>5, <3>1
         DEF TaskPool!SpuriousWakeup, TaskTypes, TaskAwake, TaskPool!TaskWatched, TaskBusy
    <3>2. ASSUME NEW w \in TaskPool!Threads, t_pc[w] = "wait", t_pc' = [t_pc EXCEPT ![w] = "check"],
                 UNCHANGED <<t_queue, t_available, complete, t_running, t_cpc, t_dpc, added,
                             t_taken, t_before>>
          PROVE  Moved /\ TaskAwake' /\ TaskPool!TaskWatched'
      BY <1>0, <3>2 DEF TaskTypes, TaskAwake, TaskPool!TaskWatched, TaskBusy
    <3> QED BY <2>5, <3>1, <3>2 DEF TaskPool!SpuriousWakeup
  <2> QED BY <2>1, <2>2, <2>3, <2>4, <2>5
<1>2. t_running' = t_running \/ t_running' = FALSE
  BY DEF TaskPool!Destroy, TaskPool!Destroyed, TaskPool!ThreadWait, TaskPool!ThreadExit,
         TaskPool!SpuriousWakeup
<1>3. TaskTypes' /\ TaskBefore' /\ TaskOrder'
  BY <1>0, <1>1, <1>2 DEF TaskInv, TaskTypes, TaskBefore, TaskOrder
<1>4. TaskCount' /\ TaskComplete'
  BY <1>1 DEF TaskInv, TaskCount, TaskComplete
<1> QED BY <1>1, <1>3, <1>4 DEF TaskInv

LEMMA TaskTake ==
  ASSUME TaskPool!TaskPoolAssumption, TaskInv, NEW w \in TaskPool!Threads, TaskPool!ThreadTake(w)
  PROVE  TaskInv'
<1>1. /\ t_pc[w] = "check" /\ t_running /\ t_queue # <<>>
      /\ t_taken' = Append(t_taken, Head(t_queue)) /\ t_queue' = Tail(t_queue)
      /\ t_available' = t_available - 1
      /\ UNCHANGED <<complete, t_running, t_cpc, t_dpc, added, t_before>>
  BY DEF TaskPool!ThreadTake
<1>2. /\ t_pc' \in [TaskPool!Threads -> {"check", "wait", "run", "exited"}]
      /\ t_pc'[w] = "run" /\ \A x \in TaskPool!Threads : x # w => t_pc'[x] = t_pc[x]
  BY DEF TaskPool!ThreadTake, TaskInv, TaskTypes
<1>3. /\ t_queue \in Seq(ClientTasks) /\ added \in Seq(ClientTasks) /\ t_taken \in Seq(ClientTasks)
      /\ added = t_taken \o t_queue
  BY DEF TaskInv, TaskTypes, TaskOrder
<1>4. t_queue' \in Seq(ClientTasks) /\ t_taken' \in Seq(ClientTasks) /\ added' = t_taken' \o t_queue'
  BY <1>1, <1>3
<1>5. TaskTypes'
  BY <1>1, <1>2, <1>4 DEF TaskInv, TaskTypes
<1>6. TaskBefore' /\ TaskOrder'
  BY <1>1, <1>4 DEF TaskInv, TaskBefore, TaskOrder
<1>7. TaskAwake' /\ TaskPool!TaskWatched'
  BY <1>1, <1>2 DEF TaskInv, TaskAwake, TaskPool!TaskWatched
<1>8. Cardinality(TaskBusy') = Cardinality(TaskBusy) + 1
  <2>1. TaskBusy' = TaskBusy \cup {w} /\ w \notin TaskBusy
    BY <1>1, <1>2 DEF TaskBusy
  <2> QED BY <2>1, TaskBusyCount, FS_AddElement
<1>9. TaskCount'
  BY <1>1, <1>8, TaskBasics, TaskBusyCount DEF TaskInv, TaskCount
<1>10. TaskComplete'
  <2>1. t_available \in 0 .. TaskThreads
    BY TaskBasics, TaskBusyCount DEF TaskInv, TaskCount
  <2>2. complete' = FALSE
    BY <1>1 DEF TaskInv, TaskComplete, TaskTypes
  <2> QED BY <1>1, <2>1, <2>2, TaskBasics DEF TaskComplete
<1> QED BY <1>5, <1>6, <1>7, <1>9, <1>10 DEF TaskInv

LEMMA TaskFinish ==
  ASSUME TaskPool!TaskPoolAssumption, TaskInv, NEW w \in TaskPool!Threads, TaskPool!ThreadFinish(w)
  PROVE  TaskInv'
<1>1. /\ t_pc[w] = "run" /\ t_available' = t_available + 1
      /\ UNCHANGED <<t_queue, t_running, t_dpc, added, t_taken, t_before>>
  BY DEF TaskPool!ThreadFinish, TaskPool!BackAgain
<1>2. /\ t_pc' \in [TaskPool!Threads -> {"check", "wait", "run", "exited"}]
      /\ t_pc'[w] = "check" /\ \A x \in TaskPool!Threads : x # w => t_pc'[x] = t_pc[x]
  BY DEF TaskPool!ThreadFinish, TaskInv, TaskTypes
<1>3. /\ complete' \in BOOLEAN
      /\ t_cpc' \in [Waiters -> {"none", "check", "wait", "done"}]
      /\ complete' <=> complete \/ (t_queue' = <<>> /\ t_available' = TaskThreads)
  <2>1. CASE TaskPool!AllIdle(t_queue, t_available')
    <3>1. complete' = TRUE /\ t_cpc' \in TaskPool!NotifyOne(t_cpc)
      BY <2>1 DEF TaskPool!ThreadFinish, TaskPool!CompletedNotify
    <3>2. t_cpc' \in [Waiters -> {"none", "check", "wait", "done"}]
      BY <3>1 DEF TaskPool!NotifyOne, TaskPool!Sleeping, TaskInv, TaskTypes
    <3> QED BY <1>1, <2>1, <3>1, <3>2 DEF TaskPool!AllIdle
  <2>2. CASE ~TaskPool!AllIdle(t_queue, t_available')
    BY <1>1, <2>2 DEF TaskPool!AllIdle, TaskPool!ThreadFinish, TaskInv, TaskTypes
  <2> QED BY <2>1, <2>2
<1>4. Cardinality(TaskBusy') = Cardinality(TaskBusy) - 1
  <2>1. TaskBusy' = TaskBusy \ {w} /\ w \in TaskBusy
    BY <1>1, <1>2 DEF TaskBusy
  <2> QED BY <2>1, TaskBusyCount, FS_RemoveElement
<1>5. TaskTypes' /\ TaskBefore' /\ TaskOrder'
  BY <1>1, <1>2, <1>3 DEF TaskInv, TaskTypes, TaskBefore, TaskOrder
<1>6. TaskAwake' /\ TaskPool!TaskWatched'
  BY <1>1, <1>2 DEF TaskInv, TaskAwake, TaskPool!TaskWatched
<1>7. TaskCount'
  BY <1>1, <1>4, TaskBasics, TaskBusyCount DEF TaskInv, TaskCount
<1>8. TaskComplete'
  <2>1. w \in TaskBusy
    BY <1>1 DEF TaskBusy
  <2>2. t_available # TaskThreads
    BY <2>1, TaskBasics, TaskBusyCount DEF TaskInv, TaskCount
  <2>3. ~complete
    BY <2>2 DEF TaskInv, TaskComplete
  <2> QED BY <1>3, <2>3 DEF TaskComplete
<1> QED BY <1>5, <1>6, <1>7, <1>8 DEF TaskInv

\* Every step of TaskThreadPool keeps its invariant.
LEMMA TaskStep ==
  ASSUME TaskPool!TaskPoolAssumption, TaskInv, TaskPool!Next \/ UNCHANGED taskVars
  PROVE  TaskInv'
<1>1. CASE UNCHANGED taskVars
  BY <1>1
     DEF taskVars, TaskInv, TaskTypes, TaskBefore, TaskOrder, TaskAwake, TaskPool!TaskWatched,
         TaskPool!Range, TaskCount, TaskBusy, TaskComplete
<1>2. CASE TaskPool!Next
  BY <1>2, TaskRun, TaskClients, TaskMoves, TaskTake, TaskFinish
     DEF TaskPool!Next, TaskPool!main_loop
<1> QED BY <1>1, <1>2

\* A client leaves WaitWorkComplete only when complete_ is true; then nothing
\* is queued or running, so the tasks added before it came have run.
LEMMA TaskCovers ==
  ASSUME TaskPool!TaskPoolAssumption, TaskInv, TaskPool!Next \/ UNCHANGED taskVars,
         NEW c \in Waiters, t_cpc[c] = "check", t_cpc'[c] = "done"
  PROVE  t_before[c] \subseteq TaskPool!Range(t_taken) /\ \A w \in TaskPool!Threads : t_pc[w] # "run"
<1>1. complete
  <2>1. t_cpc \in [Waiters -> {"none", "check", "wait", "done"}]
    BY DEF TaskInv, TaskTypes
  <2>2. ASSUME t_cpc' \in TaskPool!NotifyOne(t_cpc) PROVE FALSE
    BY <2>1, <2>2 DEF TaskPool!NotifyOne, TaskPool!Sleeping
  <2>3. TaskPool!ClientStep(c)
    BY <2>1, <2>2
       DEF taskVars, TaskPool!Next, TaskPool!RunTask, TaskPool!WaitWorkComplete,
           TaskPool!ClientStep, TaskPool!Destroy, TaskPool!Destroyed, TaskPool!main_loop,
           TaskPool!ThreadWait, TaskPool!ThreadExit, TaskPool!ThreadTake, TaskPool!ThreadFinish,
           TaskPool!CompletedNotify, TaskPool!SpuriousWakeup
  <2> QED BY <2>1, <2>3 DEF TaskPool!ClientStep
<1>2. t_queue = <<>> /\ t_available = TaskThreads
  BY <1>1 DEF TaskInv, TaskComplete
<1>3. \A w \in TaskPool!Threads : t_pc[w] # "run"
  <2>1. Cardinality(TaskBusy) = 0
    BY <1>2, TaskBasics, TaskBusyCount DEF TaskInv, TaskCount
  <2> QED BY <2>1, TaskBusyCount DEF TaskBusy
<1>4. added = t_taken
  <2>1. t_taken \in Seq(ClientTasks) /\ added = t_taken \o t_queue
    BY DEF TaskInv, TaskTypes, TaskOrder
  <2> QED BY <1>2, <2>1
<1> QED BY <1>3, <1>4 DEF TaskInv, TaskOrder

-----------------------------------------------------------------------------
(* TaskAsyncThreadPool.                                                    *)

AsyncBusy == {w \in AsyncPool!Threads : a_pc[w] = "run"}

AsyncTypes ==
  /\ a_pc \in [AsyncPool!Threads -> {"check", "blocking", "wait", "run", "exited"}]
  /\ a_queue \in Seq(AsyncTasks) /\ taken \in Seq(AsyncTasks)
  /\ a_running \in BOOLEAN
  /\ rpc \in [AsyncTasks -> {"none", "notify", "done"}]
  /\ cpc \in [AsyncWaiters -> {"none", "check", "wait", "done"}]
  /\ dpc \in {"none", "notify", "join", "done"}
  /\ before \in [AsyncWaiters -> SUBSET AsyncTasks]

\* A task that was pushed is queued or taken, and a client waits for tasks
\* that were pushed.
AsyncPushed ==
  /\ \A t \in AsyncTasks : rpc[t] # "none" => t \in AsyncPool!Range(a_queue) \cup AsyncPool!Range(taken)
  /\ \A c \in AsyncWaiters : \A t \in before[c] : rpc[t] # "none"

AsyncAwake == a_running => \A w \in AsyncPool!Threads : a_pc[w] # "exited"

\* While a thread holds mutex_ on its way to block, nothing is pushed.
AsyncHeld == a_queue # <<>> => \A w \in AsyncPool!Threads : a_pc[w] # "blocking"

AsyncCount == available = AsyncThreads - Cardinality(AsyncBusy)

AsyncInv ==
  AsyncTypes /\ AsyncPushed /\ AsyncAwake /\ AsyncHeld /\ AsyncPool!TaskWatched /\ AsyncCount

LEMMA AsyncBasics ==
  ASSUME AsyncPool!AsyncPoolAssumption
  PROVE  /\ AsyncThreads \in Nat \ {0} /\ 1 \in AsyncPool!Threads
         /\ IsFiniteSet(AsyncPool!Threads) /\ Cardinality(AsyncPool!Threads) = AsyncThreads
<1>1. AsyncThreads \in Nat \ {0}
  BY DEF AsyncPool!AsyncPoolAssumption
<1>2. IsFiniteSet(1 .. AsyncThreads) /\ Cardinality(1 .. AsyncThreads) = AsyncThreads
  BY <1>1, FS_Interval
<1> QED BY <1>1, <1>2 DEF AsyncPool!Threads

LEMMA AsyncBusyCount ==
  ASSUME AsyncPool!AsyncPoolAssumption
  PROVE  /\ IsFiniteSet(AsyncBusy) /\ Cardinality(AsyncBusy) \in 0 .. AsyncThreads
         /\ Cardinality(AsyncBusy) = 0 <=> AsyncBusy = {}
<1>1. AsyncBusy \subseteq AsyncPool!Threads
  BY DEF AsyncBusy
<1>2. IsFiniteSet(AsyncBusy) /\ Cardinality(AsyncBusy) <= AsyncThreads
  BY <1>1, AsyncBasics, FS_Subset
<1>3. Cardinality(AsyncBusy) \in Nat
  BY <1>2, FS_CardinalityType
<1>4. Cardinality(AsyncBusy) = 0 <=> AsyncBusy = {}
  BY <1>2, FS_EmptySet
<1> QED BY <1>2, <1>3, <1>4, AsyncBasics

LEMMA AsyncTypeOK ==
  ASSUME AsyncPool!AsyncPoolAssumption, AsyncInv
  PROVE  AsyncPool!TypeOK
<1>1. available \in 0 .. AsyncThreads
  BY AsyncBusyCount, AsyncBasics DEF AsyncInv, AsyncCount
<1> QED BY <1>1 DEF AsyncInv, AsyncTypes, AsyncPool!TypeOK

\* Pushing a task and taking one, as sets of tasks.
LEMMA AsyncPush ==
  ASSUME NEW q \in Seq(AsyncTasks), NEW t \in AsyncTasks
  PROVE  AsyncPool!Range(Append(q, t)) = AsyncPool!Range(q) \cup {t}
<1>1. Len(Append(q, t)) = Len(q) + 1 /\ Append(q, t)[Len(q) + 1] = t /\ Len(q) \in Nat
  OBVIOUS
<1>2. \A k \in 1 .. Len(q) : Append(q, t)[k] = q[k]
  OBVIOUS
<1>3. \A k \in 1 .. Len(q) + 1 : k \in 1 .. Len(q) \/ k = Len(q) + 1
  BY <1>1
<1>4. \A k \in 1 .. Len(q) : k \in 1 .. Len(q) + 1
  BY <1>1
<1>5. Len(q) + 1 \in 1 .. Len(q) + 1
  BY <1>1
<1> DEFINE s == Append(q, t)  n == Len(q)
<1>6. Len(s) = n + 1 /\ s[n + 1] = t /\ \A k \in 1 .. n : s[k] = q[k]
  BY <1>1, <1>2
<1> HIDE DEF s, n
<1>7. AsyncPool!Range(s) = AsyncPool!Range(q) \cup {t}
  BY <1>3, <1>4, <1>5, <1>6 DEF AsyncPool!Range, n
<1> QED BY <1>7 DEF s

LEMMA AsyncPop ==
  ASSUME NEW q \in Seq(AsyncTasks), q # <<>>
  PROVE  /\ Head(q) \in AsyncTasks /\ Tail(q) \in Seq(AsyncTasks)
         /\ AsyncPool!Range(q) \subseteq {Head(q)} \cup AsyncPool!Range(Tail(q))
<1>1. Head(q) \in AsyncTasks /\ Tail(q) \in Seq(AsyncTasks)
  OBVIOUS
<1>2. ASSUME NEW k \in 1 .. Len(q) PROVE q[k] \in {Head(q)} \cup AsyncPool!Range(Tail(q))
  <2>1. CASE k = 1
    BY <2>1
  <2>2. CASE k # 1
    <3>1. k - 1 \in 1 .. Len(Tail(q)) /\ Tail(q)[k - 1] = q[k]
      BY <2>2
    <3> QED BY <3>1 DEF AsyncPool!Range
  <2> QED BY <2>1, <2>2
<1>3. AsyncPool!Range(q) \subseteq {Head(q)} \cup AsyncPool!Range(Tail(q))
  BY <1>2 DEF AsyncPool!Range
<1> QED BY <1>1, <1>3

LEMMA AsyncInit ==
  ASSUME AsyncPool!AsyncPoolAssumption, AsyncPool!Init
  PROVE  AsyncInv
<1>1. AsyncTypes /\ AsyncPushed /\ AsyncAwake /\ AsyncHeld /\ AsyncPool!TaskWatched
  BY DEF AsyncPool!Init, AsyncTypes, AsyncPushed, AsyncAwake, AsyncHeld, AsyncPool!TaskWatched
<1>2. AsyncBusy = {}
  BY DEF AsyncPool!Init, AsyncBusy
<1>3. AsyncCount
  BY <1>2, AsyncBasics, FS_EmptySet DEF AsyncPool!Init, AsyncCount
<1> QED BY <1>1, <1>3 DEF AsyncInv

LEMMA AsyncRun ==
  ASSUME AsyncPool!AsyncPoolAssumption, AsyncInv, NEW t \in AsyncTasks, AsyncPool!Run(t)
  PROVE  AsyncInv'
<1>1. /\ \A w \in AsyncPool!Threads : a_pc[w] # "blocking"
      /\ a_queue' = Append(a_queue, t)
      /\ UNCHANGED <<a_pc, available, a_running, cpc, dpc, taken, before>>
  BY DEF AsyncPool!Run, AsyncPool!Free
<1>2. /\ rpc' \in [AsyncTasks -> {"none", "notify", "done"}]
      /\ rpc'[t] = "notify" /\ \A x \in AsyncTasks : x # t => rpc'[x] = rpc[x]
  BY DEF AsyncPool!Run, AsyncInv, AsyncTypes
<1>3. a_queue' \in Seq(AsyncTasks) /\ AsyncPool!Range(a_queue') = AsyncPool!Range(a_queue) \cup {t}
  <2>1. a_queue \in Seq(AsyncTasks)
    BY DEF AsyncInv, AsyncTypes
  <2> QED BY <1>1, <2>1, AsyncPush
<1>4. AsyncTypes'
  BY <1>1, <1>2, <1>3 DEF AsyncInv, AsyncTypes
<1>5. AsyncPushed'
  <2>1. \A x \in AsyncTasks :
          rpc'[x] # "none" => x \in AsyncPool!Range(a_queue') \cup AsyncPool!Range(taken')
    BY <1>1, <1>2, <1>3 DEF AsyncInv, AsyncPushed
  <2>2. \A c \in AsyncWaiters : \A x \in before[c] : x \in AsyncTasks /\ rpc[x] # "none"
    BY DEF AsyncInv, AsyncPushed, AsyncTypes
  <2>3. \A c \in AsyncWaiters : \A x \in before'[c] : rpc'[x] # "none"
    BY <1>1, <1>2, <2>2
  <2> QED BY <2>1, <2>3 DEF AsyncPushed
<1>6. AsyncAwake' /\ AsyncHeld'
  BY <1>1 DEF AsyncInv, AsyncAwake, AsyncHeld
<1>7. AsyncPool!TaskWatched'
  BY <1>2 DEF AsyncPool!TaskWatched
<1>8. AsyncCount'
  BY <1>1 DEF AsyncInv, AsyncCount, AsyncBusy
<1> QED BY <1>4, <1>5, <1>6, <1>7, <1>8 DEF AsyncInv

LEMMA AsyncNotified ==
  ASSUME AsyncTypes, a_pc' \in AsyncPool!NotifyOne(a_pc)
  PROVE  /\ a_pc' \in [AsyncPool!Threads -> {"check", "blocking", "wait", "run", "exited"}]
         /\ \A w \in AsyncPool!Threads : a_pc'[w] = a_pc[w] \/ (a_pc[w] = "wait" /\ a_pc'[w] = "check")
         /\ \/ \E w \in AsyncPool!Threads : a_pc'[w] = "check"
            \/ \A w \in AsyncPool!Threads : a_pc'[w] # "wait"
<1>0. DOMAIN a_pc = AsyncPool!Threads
  BY DEF AsyncTypes
<1>1. CASE AsyncPool!Sleeping(a_pc) = {}
  <2>1. a_pc' = a_pc
    BY <1>1 DEF AsyncPool!NotifyOne
  <2>2. \A w \in AsyncPool!Threads : a_pc[w] # "wait"
    BY <1>0, <1>1 DEF AsyncPool!Sleeping
  <2> QED BY <2>1, <2>2 DEF AsyncTypes
<1>2. CASE AsyncPool!Sleeping(a_pc) # {}
  <2>1. PICK x \in AsyncPool!Threads : a_pc[x] = "wait" /\ a_pc' = [a_pc EXCEPT ![x] = "check"]
    BY <1>0, <1>2 DEF AsyncPool!NotifyOne, AsyncPool!Sleeping
  <2> QED BY <2>1 DEF AsyncTypes
<1> QED BY <1>1, <1>2

\* The notification that follows the unlock: with a task queued no thread is
\* on its way to block, so it wakes a thread or finds all of them awake.
LEMMA AsyncRunNotified ==
  ASSUME AsyncPool!AsyncPoolAssumption, AsyncInv, NEW t \in AsyncTasks, AsyncPool!RunNotified(t)
  PROVE  AsyncInv'
<1>1. /\ UNCHANGED <<a_queue, available, a_running, cpc, dpc, taken, before>>
      /\ a_pc' \in AsyncPool!NotifyOne(a_pc) /\ rpc[t] = "notify"
  BY DEF AsyncPool!RunNotified, AsyncPool!RunNotify
<1>2. /\ a_pc' \in [AsyncPool!Threads -> {"check", "blocking", "wait", "run", "exited"}]
      /\ \A w \in AsyncPool!Threads : a_pc'[w] = a_pc[w] \/ (a_pc[w] = "wait" /\ a_pc'[w] = "check")
      /\ \/ \E w \in AsyncPool!Threads : a_pc'[w] = "check"
         \/ \A w \in AsyncPool!Threads : a_pc'[w] # "wait"
  BY <1>1, AsyncNotified DEF AsyncInv
<1>3. /\ rpc' \in [AsyncTasks -> {"none", "notify", "done"}]
      /\ rpc'[t] = "done" /\ \A x \in AsyncTasks : x # t => rpc'[x] = rpc[x]
  BY DEF AsyncPool!RunNotified, AsyncInv, AsyncTypes
<1>4. AsyncTypes'
  BY <1>1, <1>2, <1>3 DEF AsyncInv, AsyncTypes
<1>5. AsyncPushed'
  <2>1. \A x \in AsyncTasks : rpc'[x] # "none" => rpc[x] # "none"
    BY <1>1, <1>3
  <2>2. \A x \in AsyncTasks : rpc[x] # "none" => rpc'[x] # "none"
    BY <1>1, <1>3
  <2>3. \A x \in AsyncTasks :
          rpc'[x] # "none" => x \in AsyncPool!Range(a_queue') \cup AsyncPool!Range(taken')
    BY <1>1, <2>1 DEF AsyncInv, AsyncPushed
  <2>4. \A c \in AsyncWaiters : \A x \in before[c] : x \in AsyncTasks /\ rpc[x] # "none"
    BY DEF AsyncInv, AsyncPushed, AsyncTypes
  <2>5. \A c \in AsyncWaiters : \A x \in before'[c] : rpc'[x] # "none"
    BY <1>1, <2>2, <2>4
  <2> QED BY <2>3, <2>5 DEF AsyncPushed
<1>6. AsyncAwake'
  BY <1>1, <1>2 DEF AsyncInv, AsyncAwake
<1>7. AsyncHeld'
  BY <1>1, <1>2 DEF AsyncInv, AsyncHeld
<1>8. AsyncPool!TaskWatched'
  BY <1>2, <1>6, <1>7, AsyncBasics DEF AsyncAwake, AsyncHeld, AsyncPool!TaskWatched
<1>9. AsyncCount'
  <2>1. AsyncBusy' = AsyncBusy
    BY <1>2 DEF AsyncBusy
  <2> QED BY <1>1, <2>1 DEF AsyncInv, AsyncCount
<1> QED BY <1>4, <1>5, <1>6, <1>7, <1>8, <1>9 DEF AsyncInv

LEMMA AsyncClients ==
  ASSUME AsyncPool!AsyncPoolAssumption, AsyncInv,
         \E c \in AsyncWaiters : AsyncPool!Wait(c) \/ AsyncPool!WaitStep(c)
  PROVE  AsyncInv'
<1>1. /\ UNCHANGED <<a_pc, a_queue, available, a_running, rpc, dpc, taken>>
      /\ cpc' \in [AsyncWaiters -> {"none", "check", "wait", "done"}]
      /\ before' \in [AsyncWaiters -> SUBSET AsyncTasks]
      /\ \A c \in AsyncWaiters :
           before'[c] = before[c] \/ before'[c] = {t \in AsyncTasks : rpc[t] # "none"}
  BY DEF AsyncPool!Wait, AsyncPool!WaitStep, AsyncInv, AsyncTypes
<1>2. AsyncTypes' /\ AsyncAwake' /\ AsyncHeld' /\ AsyncPool!TaskWatched'
  BY <1>1 DEF AsyncInv, AsyncTypes, AsyncAwake, AsyncHeld, AsyncPool!TaskWatched
<1>3. AsyncPushed'
  BY <1>1 DEF AsyncInv, AsyncPushed
<1>4. AsyncCount'
  BY <1>1 DEF AsyncInv, AsyncCount, AsyncBusy
<1> QED BY <1>2, <1>3, <1>4 DEF AsyncInv

\* Steps that only move threads, or the destructor.
LEMMA AsyncMoves ==
  ASSUME AsyncPool!AsyncPoolAssumption, AsyncInv,
         \/ AsyncPool!Destroy \/ AsyncPool!Destructor
         \/ \E w \in AsyncPool!Threads :
               AsyncPool!Test(w) \/ AsyncPool!Block(w) \/ AsyncPool!ThreadExit(w)
         \/ AsyncPool!SpuriousWakeup
  PROVE  AsyncInv'
<1> DEFINE Moved ==
       /\ a_pc' \in [AsyncPool!Threads -> {"check", "blocking", "wait", "run", "exited"}]
       /\ AsyncBusy' = AsyncBusy
       /\ cpc' \in [AsyncWaiters -> {"none", "check", "wait", "done"}]
       /\ dpc' \in {"none", "notify", "join", "done"}
       /\ UNCHANGED <<a_queue, available, rpc, taken, before>>
     Kept == AsyncAwake' /\ AsyncHeld' /\ AsyncPool!TaskWatched'
<1>0. AsyncTypes /\ AsyncAwake /\ AsyncHeld /\ AsyncPool!TaskWatched
  BY DEF AsyncInv
<1>1. Moved /\ Kept
  <2>1. CASE AsyncPool!Destroy
    <3>1. a_running' = FALSE
      BY <2>1 DEF AsyncPool!Destroy
    <3>2. Moved /\ AsyncHeld'
      BY <1>0, <2>1 DEF AsyncPool!Destroy, AsyncTypes, AsyncBusy, AsyncHeld
    <3> QED BY <3>1, <3>2 DEF AsyncAwake, AsyncPool!TaskWatched
  <2>2. CASE AsyncPool!DestroyNotify
    BY <1>0, <2>2
       DEF AsyncPool!DestroyNotify, AsyncPool!NotifyAll, AsyncTypes, AsyncAwake, AsyncHeld,
           AsyncPool!TaskWatched, AsyncBusy
  <2>3. CASE AsyncPool!Destroyed
    BY <1>0, <2>3
       DEF AsyncPool!Destroyed, AsyncTypes, AsyncAwake, AsyncHeld, AsyncPool!TaskWatched,
           AsyncBusy
  <2>4. ASSUME NEW w \in AsyncPool!Threads, AsyncPool!Test(w) PROVE Moved /\ Kept
    BY <1>0, <2>4
       DEF AsyncPool!Test, AsyncTypes, AsyncAwake, AsyncHeld, AsyncPool!TaskWatched, AsyncBusy
  <2>5. ASSUME NEW w \in AsyncPool!Threads, AsyncPool!Block(w) PROVE Moved /\ Kept
    BY <1>0, <2>5
       DEF AsyncPool!Block, AsyncTypes, AsyncAwake, AsyncHeld, AsyncPool!TaskWatched, AsyncBusy
  <2>6. ASSUME NEW w \in AsyncPool!Threads, AsyncPool!ThreadExit(w) PROVE Moved /\ Kept
    BY <1>0, <2>6
       DEF AsyncPool!ThreadExit, AsyncTypes, AsyncAwake, AsyncHeld, AsyncPool!TaskWatched,
           AsyncBusy
  <2>7. CASE AsyncPool!SpuriousWakeup
    <3>1. CASE UNCHANGED a_pc
      <4>1. UNCHANGED <<a_queue, available, a_running, rpc, dpc, taken, before>>
        BY <2>7 DEF AsyncPool!SpuriousWakeup
      <4>2. cpc' \in [AsyncWaiters -> {"none", "check", "wait", "done"}]
        BY <1>0, <2>7 DEF AsyncPool!SpuriousWakeup, AsyncTypes
      <4>3. Moved
        BY <1>0, <3>1, <4>1, <4>2 DEF AsyncTypes, AsyncBusy
      <4> QED BY <1>0, <3>1, <4>1, <4>3 DEF AsyncAwake, AsyncHeld, AsyncPool!TaskWatched
    <3>2. ASSUME NEW w \in AsyncPool!Threads, a_pc[w] = "wait", a_pc' = [a_pc EXCEPT ![w] = "check"],
                 UNCHANGED <<a_queue, available, a_running, rpc, cpc, dpc, taken, before>>
          PROVE  Moved /\ Kept
      BY <1>0, <3>2 DEF AsyncTypes, AsyncAwake, AsyncHeld, AsyncPool!TaskWatched, AsyncBusy
    <3> QED BY <2>7, <3>1, <3>2 DEF AsyncPool!SpuriousWakeup
  <2> QED BY <2>1, <2>2, <2>3, <2>4, <2>5, <2>6, <2>7 DEF AsyncPool!Destructor
<1>2. a_running' = a_running \/ a_running' = FALSE
  BY DEF AsyncPool!Destroy, AsyncPool!Destructor, AsyncPool!DestroyNotify, AsyncPool!Destroyed,
         AsyncPool!Test, AsyncPool!Block, AsyncPool!ThreadExit, AsyncPool!SpuriousWakeup
<1>3. AsyncTypes'
  BY <1>0, <1>1, <1>2 DEF AsyncTypes
<1>4. AsyncPushed'
  BY <1>1 DEF AsyncInv, AsyncPushed
<1>5. AsyncCount'
  BY <1>1 DEF AsyncInv, AsyncCount
<1> QED BY <1>1, <1>3, <1>4, <1>5 DEF AsyncInv

LEMMA AsyncTake ==
  ASSUME AsyncPool!AsyncPoolAssumption, AsyncInv, NEW w \in AsyncPool!Threads, AsyncPool!Take(w)
  PROVE  AsyncInv'
<1>1. /\ a_pc[w] = "check" /\ a_queue # <<>> /\ \A x \in AsyncPool!Threads : a_pc[x] # "blocking"
      /\ taken' = Append(taken, Head(a_queue)) /\ a_queue' = Tail(a_queue)
      /\ available' = available - 1
      /\ UNCHANGED <<a_running, rpc, cpc, dpc, before>>
  BY DEF AsyncPool!Take, AsyncPool!Free
<1>2. /\ a_pc' \in [AsyncPool!Threads -> {"check", "blocking", "wait", "run", "exited"}]
      /\ a_pc'[w] = "run" /\ \A x \in AsyncPool!Threads : x # w => a_pc'[x] = a_pc[x]
  BY DEF AsyncPool!Take, AsyncInv, AsyncTypes
<1>3. /\ a_queue' \in Seq(AsyncTasks) /\ taken' \in Seq(AsyncTasks)
      /\ AsyncPool!Range(a_queue) \cup AsyncPool!Range(taken)
           \subseteq AsyncPool!Range(a_queue') \cup AsyncPool!Range(taken')
  <2>1. a_queue \in Seq(AsyncTasks) /\ taken \in Seq(AsyncTasks)
    BY DEF AsyncInv, AsyncTypes
  <2>2. /\ Head(a_queue) \in AsyncTasks /\ Tail(a_queue) \in Seq(AsyncTasks)
        /\ AsyncPool!Range(a_queue) \subseteq {Head(a_queue)} \cup AsyncPool!Range(Tail(a_queue))
    BY <1>1, <2>1, AsyncPop
  <2>3. AsyncPool!Range(Append(taken, Head(a_queue))) = AsyncPool!Range(taken) \cup {Head(a_queue)}
    BY <2>1, <2>2, AsyncPush
  <2>4. Append(taken, Head(a_queue)) \in Seq(AsyncTasks)
    BY <2>1, <2>2
  <2> QED BY <1>1, <2>2, <2>3, <2>4
<1>4. AsyncTypes'
  BY <1>1, <1>2, <1>3 DEF AsyncInv, AsyncTypes
<1>5. AsyncPushed'
  BY <1>1, <1>3 DEF AsyncInv, AsyncPushed
<1>6. AsyncAwake' /\ AsyncHeld' /\ AsyncPool!TaskWatched'
  BY <1>1, <1>2 DEF AsyncInv, AsyncAwake, AsyncHeld, AsyncPool!TaskWatched
<1>7. Cardinality(AsyncBusy') = Cardinality(AsyncBusy) + 1
  <2>1. AsyncBusy' = AsyncBusy \cup {w} /\ w \notin AsyncBusy
    BY <1>1, <1>2 DEF AsyncBusy
  <2> QED BY <2>1, AsyncBusyCount, FS_AddElement
<1>8. AsyncCount'
  BY <1>1, <1>7, AsyncBasics, AsyncBusyCount DEF AsyncInv, AsyncCount
<1> QED BY <1>4, <1>5, <1>6, <1>8 DEF AsyncInv

LEMMA AsyncFinish ==
  ASSUME AsyncPool!AsyncPoolAssumption, AsyncInv, NEW w \in AsyncPool!Threads, AsyncPool!Finish(w)
  PROVE  AsyncInv'
<1>1. /\ a_pc[w] = "run" /\ available' = available + 1
      /\ UNCHANGED <<a_queue, a_running, rpc, dpc, taken, before>>
  BY DEF AsyncPool!Finish, AsyncPool!BackAgain
<1>2. /\ a_pc' \in [AsyncPool!Threads -> {"check", "blocking", "wait", "run", "exited"}]
      /\ a_pc'[w] = "check" /\ \A x \in AsyncPool!Threads : x # w => a_pc'[x] = a_pc[x]
  BY DEF AsyncPool!Finish, AsyncInv, AsyncTypes
<1>3. cpc' \in [AsyncWaiters -> {"none", "check", "wait", "done"}]
  <2>1. cpc' = AsyncPool!NotifyAll(cpc) \/ cpc' = cpc
    BY DEF AsyncPool!Finish, AsyncPool!CompletedNotify
  <2> QED BY <2>1 DEF AsyncPool!NotifyAll, AsyncInv, AsyncTypes
<1>4. AsyncTypes'
  BY <1>1, <1>2, <1>3 DEF AsyncInv, AsyncTypes
<1>5. AsyncPushed'
  BY <1>1 DEF AsyncInv, AsyncPushed
<1>6. AsyncAwake' /\ AsyncHeld' /\ AsyncPool!TaskWatched'
  BY <1>1, <1>2 DEF AsyncInv, AsyncAwake, AsyncHeld, AsyncPool!TaskWatched
<1>7. Cardinality(AsyncBusy') = Cardinality(AsyncBusy) - 1
  <2>1. AsyncBusy' = AsyncBusy \ {w} /\ w \in AsyncBusy
    BY <1>1, <1>2 DEF AsyncBusy
  <2> QED BY <2>1, AsyncBusyCount, FS_RemoveElement
<1>8. AsyncCount'
  BY <1>1, <1>7, AsyncBasics, AsyncBusyCount DEF AsyncInv, AsyncCount
<1> QED BY <1>4, <1>5, <1>6, <1>8 DEF AsyncInv

\* Every step of TaskAsyncThreadPool keeps its invariant.
LEMMA AsyncStep ==
  ASSUME AsyncPool!AsyncPoolAssumption, AsyncInv, AsyncPool!Next \/ UNCHANGED asyncVars
  PROVE  AsyncInv'
<1>1. CASE UNCHANGED asyncVars
  BY <1>1
     DEF asyncVars, AsyncInv, AsyncTypes, AsyncPushed, AsyncAwake, AsyncHeld,
         AsyncPool!TaskWatched, AsyncCount, AsyncBusy
<1>2. CASE AsyncPool!Next
  BY <1>2, AsyncRun, AsyncRunNotified, AsyncClients, AsyncMoves, AsyncTake, AsyncFinish
     DEF AsyncPool!Next, AsyncPool!TaskLoop
<1> QED BY <1>1, <1>2

\* A client leaves Wait only when nothing is queued and every thread is back.
LEMMA AsyncCovers ==
  ASSUME AsyncPool!AsyncPoolAssumption, AsyncInv, AsyncPool!Next \/ UNCHANGED asyncVars,
         NEW c \in AsyncWaiters, cpc[c] = "check", cpc'[c] = "done"
  PROVE  before[c] \subseteq AsyncPool!Range(taken) /\ \A w \in AsyncPool!Threads : a_pc[w] # "run"
<1>1. a_queue = <<>> /\ available = AsyncThreads
  <2>1. cpc \in [AsyncWaiters -> {"none", "check", "wait", "done"}]
    BY DEF AsyncInv, AsyncTypes
  <2>2. ASSUME cpc' = AsyncPool!NotifyAll(cpc) PROVE FALSE
    BY <2>1, <2>2 DEF AsyncPool!NotifyAll
  <2>3. AsyncPool!WaitStep(c)
    BY <2>1, <2>2
       DEF asyncVars, AsyncPool!Next, AsyncPool!Run, AsyncPool!RunNotified, AsyncPool!Wait,
           AsyncPool!WaitStep, AsyncPool!Destroy, AsyncPool!Destructor, AsyncPool!DestroyNotify,
           AsyncPool!Destroyed, AsyncPool!TaskLoop, AsyncPool!Test, AsyncPool!Block,
           AsyncPool!ThreadExit, AsyncPool!Take, AsyncPool!Finish, AsyncPool!CompletedNotify,
           AsyncPool!SpuriousWakeup
  <2> QED BY <2>1, <2>3 DEF AsyncPool!WaitStep, AsyncPool!Done
<1>2. \A w \in AsyncPool!Threads : a_pc[w] # "run"
  <2>1. Cardinality(AsyncBusy) = 0
    BY <1>1, AsyncBasics, AsyncBusyCount DEF AsyncInv, AsyncCount
  <2> QED BY <2>1, AsyncBusyCount DEF AsyncBusy
<1>3. AsyncPool!Range(a_queue) = {}
  BY <1>1 DEF AsyncPool!Range
<1> QED BY <1>2, <1>3 DEF AsyncInv, AsyncPushed, AsyncTypes

-----------------------------------------------------------------------------
(* SimpleThreadPool.  Types hold with and without spurious wakeups; that   *)
(* WaitForReady has seen every thread only without.                        *)

SimpleTypes ==
  /\ signaled \in [1 .. SimpleThreads -> BOOLEAN]
  /\ s_pc \in [1 .. SimpleThreads -> {"none", "func", "notify", "work", "exited"}]
  /\ mpc \in {"start", "test", "blocking", "wait", "woken", "ready", "join", "done"}
  /\ at \in 1 .. SimpleThreads /\ misled \subseteq 1 .. SimpleThreads

\* WaitForReady need not look at w again.
Seen(w) == signaled[w] = TRUE \/ w \in misled

\* The events before at have been seen, and whoever notifies has signalled.
SimpleSeen ==
  /\ \A w \in 1 .. SimpleThreads :
       s_pc[w] \in {"notify", "work", "exited"} => signaled[w] = TRUE
  /\ mpc \in {"test", "blocking", "wait", "woken"} => \A w \in 1 .. at - 1 : Seen(w)
  /\ mpc = "woken" => Seen(at)
  /\ mpc \in {"ready", "join", "done"} => \A w \in 1 .. SimpleThreads : Seen(w)

LEMMA SimpleInit ==
  ASSUME SimplePool!SimplePoolAssumption, SimplePool!Init
  PROVE  SimpleTypes /\ SimpleSeen
  BY DEF SimplePool!SimplePoolAssumption, SimplePool!Init, SimplePool!Threads, SimpleTypes,
         SimpleSeen

LEMMA SimpleStep ==
  ASSUME SimplePool!SimplePoolAssumption, SimpleTypes, SimpleSeen, SimplePool!Next \/ UNCHANGED simpleVars
  PROVE  SimpleTypes' /\ SimpleSeen'
<1> USE DEF Seen
<1>1. SimpleThreads \in Nat \ {0}
  BY DEF SimplePool!SimplePoolAssumption
<1>2. CASE UNCHANGED simpleVars
  BY <1>2 DEF simpleVars, SimpleTypes, SimpleSeen
<1>3. CASE SimplePool!StartThread
  <2>1. mpc = "start" /\ s_pc' = [s_pc EXCEPT ![at] = "func"] /\ UNCHANGED <<signaled, misled>>
    BY <1>3 DEF SimplePool!StartThread
  <2>2. mpc' = "start" \/ (mpc' = "test" /\ at' = 1)
    BY <1>3 DEF SimplePool!StartThread
  <2>3. at' \in 1 .. SimpleThreads
    BY <1>1, <1>3 DEF SimplePool!StartThread, SimpleTypes
  <2>4. SimpleTypes'
    BY <2>1, <2>2, <2>3 DEF SimpleTypes
  <2>5. \A w \in 1 .. SimpleThreads : s_pc'[w] \in {"notify", "work", "exited"} => signaled'[w] = TRUE
    BY <2>1 DEF SimpleTypes, SimpleSeen
  <2>6. mpc' = "test" => \A w \in 1 .. at' - 1 : Seen(w)'
    BY <2>2
  <2> QED BY <2>2, <2>4, <2>5, <2>6 DEF SimpleSeen
<1>4. ASSUME UNCHANGED <<signaled, s_pc, misled>>, SimplePool!NextEvent, Seen(at),
             mpc \in {"test", "woken"}
      PROVE  SimpleTypes' /\ SimpleSeen'
  <2>1. \A w \in 1 .. at : Seen(w)
    BY <1>1, <1>4 DEF SimpleTypes, SimpleSeen
  <2>2. CASE at < SimpleThreads
    <3>1. at' = at + 1 /\ mpc' = "test"
      BY <1>4, <2>2 DEF SimplePool!NextEvent, SimplePool!MoreEvents
    <3>2. \A w \in 1 .. at' - 1 : Seen(w)'
      BY <1>4, <2>1, <3>1 DEF SimpleTypes
    <3>3. SimpleTypes'
      BY <1>1, <1>4, <2>2, <3>1 DEF SimpleTypes
    <3> QED BY <1>4, <3>1, <3>2, <3>3 DEF SimpleSeen
  <2>3. CASE ~(at < SimpleThreads)
    <3>1. at' = 1 /\ mpc' = "ready" /\ at = SimpleThreads
      BY <1>1, <1>4, <2>3 DEF SimplePool!NextEvent, SimplePool!MoreEvents, SimpleTypes
    <3>2. SimpleTypes'
      BY <1>1, <1>4, <3>1 DEF SimpleTypes
    <3> QED BY <1>4, <2>1, <3>1, <3>2 DEF SimpleSeen
  <2> QED BY <2>2, <2>3
<1>5. CASE SimplePool!EventTest
  <2>1. CASE signaled[at] = TRUE
    BY <1>4, <1>5, <2>1 DEF SimplePool!EventTest
  <2>2. CASE signaled[at] # TRUE
    <3>1. mpc' = "blocking" /\ UNCHANGED <<signaled, s_pc, at, misled>> /\ mpc = "test"
      BY <1>5, <2>2 DEF SimplePool!EventTest, SimpleTypes
    <3> QED BY <3>1 DEF SimpleTypes, SimpleSeen
  <2> QED BY <2>1, <2>2
<1>6. CASE SimplePool!EventWoken
  BY <1>4, <1>6 DEF SimplePool!EventWoken, SimpleSeen
<1>7. CASE SimplePool!EventBlock
  BY <1>7 DEF SimplePool!EventBlock, SimpleTypes, SimpleSeen
<1>8. CASE SimplePool!Destroy \/ SimplePool!Join
  <2>1. /\ mpc \in {"ready", "join"} /\ mpc' \in {"join", "done"} /\ UNCHANGED <<signaled, s_pc, misled>>
        /\ at' \in 1 .. SimpleThreads
    BY <1>1, <1>8 DEF SimplePool!Destroy, SimplePool!Join, SimpleTypes
  <2> QED BY <2>1 DEF SimpleTypes, SimpleSeen
<1>9. CASE SimplePool!SpuriousWakeup
  <2>1. /\ mpc = "wait" /\ mpc' = "woken" /\ misled' = misled \cup {at}
        /\ UNCHANGED <<signaled, s_pc, at>>
    BY <1>9 DEF SimplePool!SpuriousWakeup
  <2>2. \A w : Seen(w) => Seen(w)'
    BY <2>1 DEF Seen
  <2>3. Seen(at)'
    BY <2>1 DEF Seen
  <2>4. SimpleTypes'
    BY <2>1 DEF SimpleTypes
  <2> QED BY <2>1, <2>2, <2>3, <2>4 DEF SimpleSeen
<1>10. ASSUME NEW w \in SimplePool!Threads, SimplePool!SignalSet(w) \/ SimplePool!FuncReturns(w)
       PROVE  SimpleTypes' /\ SimpleSeen'
  <2>0. w \in 1 .. SimpleThreads
    BY DEF SimplePool!Threads
  <2>1. /\ UNCHANGED <<mpc, at, misled>>
        /\ signaled' \in [1 .. SimpleThreads -> BOOLEAN]
        /\ s_pc' \in [1 .. SimpleThreads -> {"none", "func", "notify", "work", "exited"}]
        /\ \A x \in 1 .. SimpleThreads : signaled[x] = TRUE => signaled'[x] = TRUE
        /\ \A x \in 1 .. SimpleThreads : x # w => s_pc'[x] = s_pc[x]
    BY <1>10, <2>0 DEF SimplePool!SignalSet, SimplePool!FuncReturns, SimpleTypes
  <2>2. signaled'[w] = TRUE
    BY <1>10, <2>0 DEF SimplePool!SignalSet, SimplePool!FuncReturns, SimpleTypes, SimpleSeen
  <2>3. \A x \in 1 .. SimpleThreads : s_pc'[x] \in {"notify", "work", "exited"} => signaled'[x] = TRUE
    BY <2>1, <2>2 DEF SimpleSeen
  <2>4. \A x \in 1 .. at - 1 : x \in 1 .. SimpleThreads
    BY <1>1 DEF SimpleTypes
  <2>5. SimpleTypes'
    BY <2>1 DEF SimpleTypes
  <2> QED BY <2>1, <2>3, <2>4, <2>5 DEF SimpleTypes, SimpleSeen
<1>11. ASSUME NEW w \in SimplePool!Threads, SimplePool!SignalNotify(w) PROVE SimpleTypes' /\ SimpleSeen'
  <2>0. w \in 1 .. SimpleThreads
    BY DEF SimplePool!Threads
  <2>1. /\ s_pc[w] = "notify" /\ s_pc' = [s_pc EXCEPT ![w] = "work"] /\ UNCHANGED <<signaled, at, misled>>
        /\ mpc' = mpc \/ (mpc = "wait" /\ mpc' = "woken" /\ at = w)
    BY <1>11 DEF SimplePool!SignalNotify
  <2>2. signaled[w] = TRUE
    BY <2>0, <2>1 DEF SimpleSeen
  <2>3. SimpleTypes'
    BY <2>0, <2>1 DEF SimpleTypes
  <2>4. \A x \in 1 .. SimpleThreads : s_pc'[x] \in {"notify", "work", "exited"} => signaled'[x] = TRUE
    BY <2>0, <2>1, <2>2 DEF SimpleTypes, SimpleSeen
  <2> QED BY <2>1, <2>2, <2>3, <2>4 DEF SimpleSeen
<1> QED BY <1>2, <1>3, <1>5, <1>6, <1>7, <1>8, <1>9, <1>10, <1>11
   DEF SimplePool!Next, SimplePool!Owner, SimplePool!Worker

-----------------------------------------------------------------------------
(* The suite: a step of it is a step of one instance, the others stutter.  *)

BGPart ==
  /\ (focus = "timers") => BGTimers!BGInv
  /\ (focus = "deadlines") => BGDeadlines!BGInv
  /\ (focus = "cancels") => BGCancels!BGInv
  /\ (focus \notin {"timers", "deadlines", "cancels"}) => BGTasks!BGInv

SimplePart == SimpleTypes /\ SimpleSeen

PoolInv == focus \in Parts /\ FixedInv /\ BGPart /\ TaskInv /\ AsyncInv /\ SimplePart

LEMMA PoolAssumptions ==
  /\ FixedPool!FixedPoolAssumption /\ TaskPool!TaskPoolAssumption
  /\ AsyncPool!AsyncPoolAssumption /\ SimplePool!SimplePoolAssumption
  /\ BGTasks!BGPoolAssumption /\ BGCancels!BGPoolAssumption
  /\ BGTimers!BGPoolAssumption /\ BGDeadlines!BGPoolAssumption
  BY PoolSuiteAssumption, Zenon

LEMMA PoolInit == Init => PoolInv
<1> SUFFICES ASSUME Init PROVE PoolInv
  OBVIOUS
<1>1. /\ focus \in Parts /\ FixedPool!Init /\ TaskPool!Init /\ AsyncPool!Init /\ SimplePool!Init
  BY Zenon DEF Init
<1>2. /\ (focus = "timers") => BGTimers!Init
      /\ (focus = "deadlines") => BGDeadlines!Init
      /\ (focus = "cancels") => BGCancels!Init
      /\ (focus \notin {"timers", "deadlines", "cancels"}) => BGTasks!Init
  BY DEF Init
<1>3. BGPart
  BY <1>2, PoolAssumptions, BGTimers!BGInvInit, BGDeadlines!BGInvInit, BGCancels!BGInvInit,
     BGTasks!BGInvInit, Zenon DEF BGPart
<1>4. FixedInv /\ TaskInv /\ AsyncInv /\ SimpleTypes /\ SimpleSeen
  BY <1>1, PoolAssumptions, FixedInit, TaskInit, AsyncInit, SimpleInit, Zenon
<1> QED BY <1>1, <1>3, <1>4, Zenon DEF PoolInv, SimplePart

\* What a step of the suite is to each of its parts.
LEMMA PoolParts ==
  ASSUME [Next]_vars
  PROVE  /\ focus' = focus
         /\ FixedPool!Next \/ UNCHANGED fixedVars
         /\ TaskPool!Next \/ UNCHANGED taskVars
         /\ AsyncPool!Next \/ UNCHANGED asyncVars
         /\ SimplePool!Next \/ UNCHANGED simpleVars
         /\ (focus = "timers") => BGTimers!Next \/ UNCHANGED bgVars
         /\ (focus = "deadlines") => BGDeadlines!Next \/ UNCHANGED bgVars
         /\ (focus = "cancels") => BGCancels!Next \/ UNCHANGED bgVars
         /\ (focus \notin {"timers", "deadlines", "cancels"}) => BGTasks!Next \/ UNCHANGED bgVars
<1>1. CASE UNCHANGED vars
  BY <1>1 DEF vars
<1>2. CASE Next
  BY <1>2 DEF Next
<1> QED BY <1>1, <1>2

LEMMA PoolBG ==
  ASSUME UNCHANGED bgVars
  PROVE  /\ UNCHANGED BGTasks!vars /\ UNCHANGED BGCancels!vars
         /\ UNCHANGED BGTimers!vars /\ UNCHANGED BGDeadlines!vars
<1>1. UNCHANGED BGTasks!vars
  BY DEF bgVars, BGTasks!vars, BGTasks!thrVars, BGTasks!queueVars, BGTasks!timerVars,
         BGTasks!profVars, BGTasks!stopVars
<1>2. UNCHANGED BGCancels!vars
  BY DEF bgVars, BGCancels!vars, BGCancels!thrVars, BGCancels!queueVars, BGCancels!timerVars,
         BGCancels!profVars, BGCancels!stopVars
<1>3. UNCHANGED BGTimers!vars
  BY DEF bgVars, BGTimers!vars, BGTimers!thrVars, BGTimers!queueVars, BGTimers!timerVars,
         BGTimers!profVars, BGTimers!stopVars
<1>4. UNCHANGED BGDeadlines!vars
  BY DEF bgVars, BGDeadlines!vars, BGDeadlines!thrVars, BGDeadlines!queueVars,
         BGDeadlines!timerVars, BGDeadlines!profVars, BGDeadlines!stopVars
<1> QED BY <1>1, <1>2, <1>3, <1>4

LEMMA PoolStep == PoolInv /\ [Next]_vars => PoolInv'
<1> SUFFICES ASSUME PoolInv, [Next]_vars PROVE PoolInv'
  OBVIOUS
<1>1. FixedInv' /\ TaskInv' /\ AsyncInv'
  BY PoolAssumptions, PoolParts, FixedStep, TaskStep, AsyncStep, Zenon DEF PoolInv
<1>2. focus' = focus /\ focus \in Parts
  BY PoolParts, Zenon DEF PoolInv
<1>3. SimplePart'
  BY PoolAssumptions, PoolParts, SimpleStep, Zenon DEF PoolInv, SimplePart
<1>4. (focus = "timers") => BGTimers!BGInv'
  <2> SUFFICES ASSUME focus = "timers" PROVE BGTimers!BGInv'
    OBVIOUS
  <2>1. BGTimers!BGInv
    BY DEF PoolInv, BGPart
  <2>2. [BGTimers!Next]_(BGTimers!vars)
    BY PoolParts, PoolBG, Zenon
  <2> QED BY <2>1, <2>2, PoolAssumptions, BGTimers!BGInvStep, Zenon
<1>5. (focus = "deadlines") => BGDeadlines!BGInv'
  <2> SUFFICES ASSUME focus = "deadlines" PROVE BGDeadlines!BGInv'
    OBVIOUS
  <2>1. BGDeadlines!BGInv
    BY DEF PoolInv, BGPart
  <2>2. [BGDeadlines!Next]_(BGDeadlines!vars)
    BY PoolParts, PoolBG, Zenon
  <2> QED BY <2>1, <2>2, PoolAssumptions, BGDeadlines!BGInvStep, Zenon
<1>6. (focus = "cancels") => BGCancels!BGInv'
  <2> SUFFICES ASSUME focus = "cancels" PROVE BGCancels!BGInv'
    OBVIOUS
  <2>1. BGCancels!BGInv
    BY DEF PoolInv, BGPart
  <2>2. [BGCancels!Next]_(BGCancels!vars)
    BY PoolParts, PoolBG, Zenon
  <2> QED BY <2>1, <2>2, PoolAssumptions, BGCancels!BGInvStep, Zenon
<1>7. (focus \notin {"timers", "deadlines", "cancels"}) => BGTasks!BGInv'
  <2> SUFFICES ASSUME focus \notin {"timers", "deadlines", "cancels"} PROVE BGTasks!BGInv'
    OBVIOUS
  <2>1. BGTasks!BGInv
    BY DEF PoolInv, BGPart
  <2>2. [BGTasks!Next]_(BGTasks!vars)
    BY PoolParts, PoolBG, Zenon
  <2> QED BY <2>1, <2>2, PoolAssumptions, BGTasks!BGInvStep, Zenon
<1>8. BGPart'
  BY <1>2, <1>4, <1>5, <1>6, <1>7, Zenon DEF BGPart
<1> QED BY <1>1, <1>2, <1>3, <1>8, Zenon DEF PoolInv

LEMMA PoolInvariance == Spec => []PoolInv
  BY PoolInit, PoolStep, PTL DEF Spec

\* However sparing the pools are with their signals, work that may run has a
\* thread that is awake for it: for every number of threads, work items, tasks
\* and clients of PosixFixedThreadPool, TaskThreadPool and TaskAsyncThreadPool.
THEOREM PoolsWatchTheirWork == Spec => []TasksWatched
<1>1. PoolInv => TasksWatched
  <2> SUFFICES ASSUME PoolInv PROVE TasksWatched
    OBVIOUS
  <2>1. FixedPool!NoSleeperWithWork /\ TaskPool!TaskWatched /\ AsyncPool!TaskWatched
    BY Zenon DEF PoolInv, FixedInv, TaskInv, AsyncInv
  <2>2. (focus = "tasks") => BGTasks!Watched
    BY DEF PoolInv, BGPart, BGTasks!BGInv
  <2>3. (focus = "cancels") => BGCancels!Watched
    BY DEF PoolInv, BGPart, BGCancels!BGInv
  <2>4. (focus = "timers") => BGTimers!Watched
    BY DEF PoolInv, BGPart, BGTimers!BGInv
  <2>5. (focus = "deadlines") => BGDeadlines!Watched
    BY DEF PoolInv, BGPart, BGDeadlines!BGInv
  <2> QED BY <2>1, <2>2, <2>3, <2>4, <2>5, Zenon DEF TasksWatched
<1> QED BY <1>1, PoolInvariance, PTL

LEMMA FixedTypeOK ==
  ASSUME FixedPool!FixedPoolAssumption, FixedInv
  PROVE  FixedPool!TypeOK
<1>1. IsFiniteSet(bgthreads) /\ Cardinality(bgthreads) <= MaxThreads
  BY FixedBasics, FS_Subset DEF FixedInv, FixedTypes
<1>2. Cardinality(bgthreads) \in Nat
  BY <1>1, FS_CardinalityType
<1>3. numThreads \in 0 .. MaxThreads
  BY <1>1, <1>2, FixedBasics, SameCount DEF FixedInv, FixedPool!ThreadAccounting
<1> QED BY <1>3 DEF FixedInv, FixedTypes, FixedPool!TypeOK

\* The counters of the pools are exact whenever no thread is inside a critical
\* section, and every task has one fate, in order.
THEOREM PoolsAccountForTasks == Spec => []TasksAccounted
<1>1. PoolInv => TasksAccounted
  <2> SUFFICES ASSUME PoolInv PROVE TasksAccounted
    OBVIOUS
  <2>1. SimplePool!TypeOK
    BY DEF PoolInv, SimplePart, SimpleTypes, SimplePool!TypeOK, SimplePool!Threads
  <2>2. OtherTypes /\ TaskPool!CompleteExact
    BY <2>1, PoolAssumptions, FixedTypeOK, TaskExact, AsyncTypeOK, Zenon DEF PoolInv, OtherTypes
  <2>3. FixedPool!ThreadAccounting /\ FixedPool!NoThreadOutlivesPool /\ FixedPool!FifoExactlyOnce
    BY Zenon DEF PoolInv, FixedInv
  <2>4. (focus = "tasks") => BGTasks!Accounted
    BY PoolAssumptions, BGTasks!BooksImplyAccounted DEF PoolInv, BGPart
  <2>5. (focus = "cancels") => BGCancels!Accounted
    BY PoolAssumptions, BGCancels!BooksImplyAccounted DEF PoolInv, BGPart
  <2>6. (focus = "timers") => BGTimers!Accounted
    BY PoolAssumptions, BGTimers!BooksImplyAccounted DEF PoolInv, BGPart
  <2>7. (focus = "deadlines") => BGDeadlines!Accounted
    BY PoolAssumptions, BGDeadlines!BooksImplyAccounted DEF PoolInv, BGPart
  <2>8. SimplePool!AllReady
    BY DEF PoolInv, SimplePart, SimpleTypes, SimpleSeen, Seen, SimplePool!AllReady, SimplePool!Threads
  <2> QED BY <2>2, <2>3, <2>4, <2>5, <2>6, <2>7, <2>8, Zenon DEF TasksAccounted
<1> QED BY <1>1, PoolInvariance, PTL

\* Stop(true), CancelTask of one thread, WaitWorkComplete and Wait return only
\* when the tasks they promise to cover have returned.
THEOREM PoolCallsCover == Spec => CallsCoverEarlierTasks
<1>1. PoolInv /\ [Next]_vars
        => [spc = "join" /\ spc' = "idle" => awaited \subseteq finished]_(BGTasks!vars)
  <2> SUFFICES ASSUME PoolInv, [Next]_vars, spc = "join", spc' = "idle"
               PROVE  awaited \subseteq finished
    OBVIOUS
  <2>1. CASE UNCHANGED bgVars
    BY <2>1 DEF bgVars
  <2>2. CASE focus = "timers"
    BY <2>2, PoolAssumptions, PoolParts, PoolBG, BGTimers!StopCovers, Zenon DEF PoolInv, BGPart
  <2>3. CASE focus = "deadlines"
    BY <2>3, PoolAssumptions, PoolParts, PoolBG, BGDeadlines!StopCovers, Zenon DEF PoolInv, BGPart
  <2>4. CASE focus = "cancels"
    BY <2>4, PoolAssumptions, PoolParts, PoolBG, BGCancels!StopCovers, Zenon DEF PoolInv, BGPart
  <2>5. CASE focus \notin {"timers", "deadlines", "cancels"}
    BY <2>5, PoolAssumptions, PoolParts, PoolBG, BGTasks!StopCovers, Zenon DEF PoolInv, BGPart
  <2> QED BY <2>2, <2>3, <2>4, <2>5
<1>2. PoolInv /\ [Next]_vars => [focus = "cancels" => BGCancels!CancelCovered]_vars
  <2> SUFFICES ASSUME PoolInv, [Next]_vars, focus = "cancels" PROVE BGCancels!CancelCovered
    OBVIOUS
  <2>1. [BGCancels!Next]_(BGCancels!vars) /\ BGCancels!BGInv
    BY PoolParts, PoolBG, Zenon DEF PoolInv, BGPart
  <2> QED BY <2>1, PoolAssumptions, BGCancels!CancelCovers, Zenon
<1> DEFINE Leaves(c) == t_cpc[c] = "check" /\ t_cpc'[c] = "done"
           Covers(c) == t_before[c] \subseteq TaskPool!Range(t_taken)
                          /\ \A w \in TaskPool!Threads : t_pc[w] # "run"
<1>3. PoolInv /\ [Next]_vars => [\A c \in Waiters : Leaves(c) => Covers(c)]_(TaskPool!vars)
  BY PoolAssumptions, PoolParts, TaskCovers, Zenon DEF PoolInv
<1> DEFINE AsyncLeaves(c) == cpc[c] = "check" /\ cpc'[c] = "done"
           AsyncCover(c) == before[c] \subseteq AsyncPool!Range(taken)
                              /\ \A w \in AsyncPool!Threads : a_pc[w] # "run"
<1>4. PoolInv /\ [Next]_vars
        => [\A c \in AsyncWaiters : AsyncLeaves(c) => AsyncCover(c)]_(AsyncPool!vars)
  BY PoolAssumptions, PoolParts, AsyncCovers, Zenon DEF PoolInv
<1>5. Spec => BGTasks!StopWaitsForPending
  BY <1>1, PoolInvariance, PTL DEF Spec, BGTasks!StopWaitsForPending
<1>6. Spec => [][focus = "cancels" => BGCancels!CancelCovered]_vars
  BY <1>2, PoolInvariance, PTL DEF Spec
<1>7. Spec => TaskPool!WaitCoversEarlierTasks
  BY <1>3, PoolInvariance, PTL DEF Spec, TaskPool!WaitCoversEarlierTasks
<1>8. Spec => AsyncPool!WaitCoversEarlierTasks
  BY <1>4, PoolInvariance, PTL DEF Spec, AsyncPool!WaitCoversEarlierTasks
<1> QED BY <1>5, <1>6, <1>7, <1>8 DEF CallsCoverEarlierTasks

-----------------------------------------------------------------------------
(* ThreadPoolImpl in the suite: a behaviour of the suite is one of the pool, *)
(* which is proved about in ThreadPoolImplProofs.                          *)

LEMMA SuiteIsPool == Spec => ImplPool!Spec
<1>1. Init => ImplPool!Init
  BY Zenon DEF Init
<1>2. [Next]_vars => [ImplPool!Next]_(ImplPool!vars)
  <2>1. UNCHANGED implVars => UNCHANGED ImplPool!vars
    BY DEF implVars, ImplPool!vars, ImplPool!poolVars, ImplPool!bgVars, ImplPool!joinVars,
           ImplPool!history
  <2>2. [Next]_vars => ImplPool!Next \/ UNCHANGED implVars
    BY DEF Next, vars
  <2> QED BY <2>1, <2>2
<1> QED BY <1>1, <1>2, PTL DEF Spec, ImplPool!Spec

LEMMA ImplAssumption == ImplPool!ThreadPoolAssumption
  BY PoolSuiteAssumption, Zenon

\* bgthreads_ of ThreadPoolImpl has no hole, for every number of threads and
\* set of jobs: a thread_id is the index of its thread.
THEOREM BgthreadsHasNoHole == Spec => []ThreadsContiguous
<1>1. ImplPool!Spec => []ImplPool!ThreadsContiguous
  BY ImplAssumption, ImplPool!ContiguousThreads
<1> QED BY <1>1, SuiteIsPool, PTL DEF ThreadsContiguous

\* Whoever is needed in ThreadPoolImpl is awake, for every number of threads
\* and set of jobs: to take a job, to terminate next, or to be joined.
THEOREM NeededAreAwake == Spec => []NobodyNeededSleeps
<1>1. ImplPool!Spec => []ImplPool!NobodyNeededSleeps
  BY ImplAssumption, ImplPool!NeededThreadsAwake
<1> QED BY <1>1, SuiteIsPool, PTL DEF NobodyNeededSleeps

\* Every job submitted to ThreadPoolImpl is queued, was started once and in
\* order, or was unscheduled, for every number of threads and set of jobs.
THEOREM JobsKeepOneFate == Spec => []JobsAccounted
<1>1. ImplPool!Spec => []ImplPool!JobsAccounted
  BY ImplAssumption, ImplPool!JobsHaveOneFate
<1> QED BY <1>1, SuiteIsPool, PTL DEF JobsAccounted

\* JoinAllThreads, which does not wait for jobs, never joins a thread object
\* that is gone, for every number of threads.
THEOREM JoinAllJoinsAll == Spec => []JoinAllNeverThrows
<1>1. ImplPool!Spec => []ImplPool!JoinAllNeverThrows
  BY ImplAssumption, ImplPool!JoinAllIsSafe
<1> QED BY <1>1, SuiteIsPool, PTL DEF JoinAllNeverThrows

\* The variables of all pools stay in their types.
THEOREM PoolsKeepTypes == Spec => []TypeOK
<1>1. ImplPool!Spec => []ImplPool!TypeOK
  BY ImplAssumption, ImplPool!PoolTypes
<1>2. TasksAccounted => OtherTypes
  BY Zenon DEF TasksAccounted
<1> QED BY <1>1, <1>2, SuiteIsPool, PoolsAccountForTasks, PTL DEF TypeOK

=============================================================================
