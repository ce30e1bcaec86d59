------------------------ MODULE ThreadPoolImplProofs ------------------------
(* The thread accounting and wakeup invariants of ThreadPoolImpl, for every *)
(* number of threads and every set of jobs.                                 *)
EXTENDS ThreadPoolImpl, SequenceTheorems, NaturalsInduction,
        WellFoundedInduction, TLAPS

\* exit_all_threads_ is set exactly while a joiner is inside JoinThreads (or
\* left it by an exception), the limit is 0 meanwhile, and only a thread that
\* saw the flag has left its loop.
JoinFlags ==
  /\ exitAll <=> jpc # "idle"
  /\ exitAll => limit = 0
  /\ \A i \in Slots : pc[i] = "exited" => exitAll
  /\ jpc = "join" => jidx < jend

IInv ==
  /\ ThreadTypeOK /\ JoinFlags /\ ThreadsContiguous
  /\ NoLostWakeup /\ TerminatorAwake /\ JoinedThreadsAwake

\* WakeUpAllThreads leaves no thread waiting and touches no other one.
LEMMA WakeUpAllType ==
  ASSUME NEW p \in [Slots -> {"none", "check", "wait", "run", "exited"}]
  PROVE  /\ WakeUpAllThreads(p) \in [Slots -> {"none", "check", "wait", "run", "exited"}]
         /\ \A i \in Slots :
              /\ WakeUpAllThreads(p)[i] # "wait"
              /\ p[i] = "wait" => WakeUpAllThreads(p)[i] = "check"
              /\ p[i] # "wait" => WakeUpAllThreads(p)[i] = p[i]
  BY DEF WakeUpAllThreads

\* Whatever notify_one does, waiters only turn into checkers, and when there
\* is a waiter at least one does.
LEMMA NotifyOneType ==
  ASSUME NEW p \in [Slots -> {"none", "check", "wait", "run", "exited"}],
         NEW q \in NotifyOne(p)
  PROVE  /\ q \in [Slots -> {"none", "check", "wait", "run", "exited"}]
         /\ \A i \in Slots : q[i] = p[i] \/ (p[i] = "wait" /\ q[i] = "check")
         /\ (\E i \in Slots : p[i] = "wait") =>
              \E i \in Slots : p[i] = "wait" /\ q[i] = "check"
  BY DEF NotifyOne

\* The initial pool has no threads.
LEMMA InitInv ==
  ASSUME ThreadPoolAssumption, Init
  PROVE  IInv
<1>1. ThreadTypeOK
  <2>1. pc \in [Slots -> {"none", "check", "wait", "run", "exited"}]
    BY DEF Init
  <2>2. limit \in 0 .. MaxThreads /\ size \in 0 .. MaxThreads
    BY DEF Init, ThreadPoolAssumption
  <2> QED BY <2>1, <2>2 DEF Init, ThreadTypeOK
<1>2. JoinFlags
  BY DEF Init, JoinFlags
<1>3. ThreadsContiguous /\ NoLostWakeup /\ TerminatorAwake /\ JoinedThreadsAwake
  BY DEF ThreadPoolAssumption, Init, ThreadsContiguous, NoLostWakeup, TerminatorAwake, JoinedThreadsAwake, Slots
<1> QED BY <1>1, <1>2, <1>3 DEF IInv

\* Changing the limit wakes every thread and starts the missing ones.
LEMMA SetBackgroundInv ==
  ASSUME ThreadPoolAssumption, IInv, NEW num \in -1 .. MaxThreads, NEW reduce \in BOOLEAN,
         SetBackgroundThreadsInternal(num, reduce)
  PROVE  IInv'
<1> DEFINE lim == ClampedLimit(num)
<1> DEFINE w == WakeUpAllThreads(pc)
<1>1. /\ lim \in 0 .. MaxThreads
      /\ limit' = lim
      /\ size' = AtLeast(size, lim)
      /\ pc' = StartBGThreads(w, size, lim)
      /\ UNCHANGED <<exitAll, waitJobs, jpc, jidx, jend, queue>>
      /\ ~exitAll
  BY DEF ThreadPoolAssumption, SetBackgroundThreadsInternal, ClampedLimit, AtLeast, joinVars
<1>2. /\ w \in [Slots -> {"none", "check", "wait", "run", "exited"}]
      /\ \A i \in Slots : /\ w[i] # "wait"
                          /\ pc[i] = "wait" => w[i] = "check"
                          /\ pc[i] # "wait" => w[i] = pc[i]
  BY WakeUpAllType DEF IInv, ThreadTypeOK
<1> HIDE DEF w, lim
<1>3. size' \in 0 .. MaxThreads /\ size' >= lim /\ size' >= size
      /\ (size' = size \/ size' = lim)
  BY <1>1 DEF AtLeast, IInv, ThreadTypeOK
<1>4. /\ pc' \in [Slots -> {"none", "check", "wait", "run", "exited"}]
      /\ \A i \in Slots : /\ pc'[i] # "wait"
                          /\ pc'[i] = "none" <=> i >= size'
                          /\ pc'[i] # "exited"
  BY <1>1, <1>2, <1>3
  DEF ThreadPoolAssumption, StartBGThreads, IInv, ThreadTypeOK, JoinFlags, ThreadsContiguous, Slots
<1>5. NoLostWakeup'
  <2> SUFFICES ASSUME limit' > 0
               PROVE  \E i \in Slots : i < limit' /\ pc'[i] \in {"check", "run"}
    BY DEF NoLostWakeup
  <2>1. 0 \in Slots /\ 0 < limit' /\ pc'[0] \in {"check", "run"}
    BY <1>1, <1>3, <1>4 DEF ThreadPoolAssumption, Slots
  <2> QED BY <2>1
<1> QED
  BY <1>1, <1>3, <1>4, <1>5
  DEF ThreadPoolAssumption, IInv, ThreadTypeOK, JoinFlags, ThreadsContiguous, TerminatorAwake,
      JoinedThreadsAwake, Slots

\* Submit queues a job and leaves somebody awake who may take it.
LEMMA SubmitInv ==
  ASSUME ThreadPoolAssumption, IInv, NEW j \in Jobs, Submit(j)
  PROVE  IInv'
<1>1. /\ ~exitAll
      /\ size' = AtLeast(size, limit)
      /\ pc' \in SubmitNotify(StartBGThreads(pc, size, limit), size', limit)
      /\ UNCHANGED <<limit, exitAll, waitJobs, jpc, jidx, jend>>
  BY DEF Submit, joinVars
<1>2. size' = size /\ size >= limit
  BY <1>1 DEF AtLeast, IInv, ThreadTypeOK, ThreadsContiguous
<1>3. StartBGThreads(pc, size, limit) = pc
  BY <1>2 DEF StartBGThreads, IInv, ThreadTypeOK, Slots
<1>4. pc' \in SubmitNotify(pc, size, limit)
  BY <1>1, <1>2, <1>3
<1>5. /\ pc' \in [Slots -> {"none", "check", "wait", "run", "exited"}]
      /\ \A i \in Slots : pc'[i] = pc[i] \/ (pc[i] = "wait" /\ pc'[i] = "check")
      /\ \/ \A i \in Slots : pc'[i] # "wait"
         \/ /\ size <= limit
            /\ (\E i \in Slots : pc[i] = "wait") =>
                 \E i \in Slots : pc[i] = "wait" /\ pc'[i] = "check"
  <2>1. CASE HasExcessiveThread(size, limit)
    BY <1>4, <2>1, WakeUpAllType DEF SubmitNotify, IInv, ThreadTypeOK
  <2>2. CASE ~HasExcessiveThread(size, limit)
    BY <1>4, <2>2, NotifyOneType
    DEF SubmitNotify, HasExcessiveThread, IInv, ThreadTypeOK
  <2> QED BY <2>1, <2>2
<1>6. NoLostWakeup'
  <2> SUFFICES ASSUME limit' > 0
               PROVE  \E i \in Slots : i < limit' /\ pc'[i] \in {"check", "run"}
    BY DEF NoLostWakeup
  <2>1. 0 \in Slots /\ 0 < limit /\ 0 < size /\ pc[0] \in {"check", "wait", "run"}
    BY <1>1, <1>2
    DEF ThreadPoolAssumption, Slots, IInv, ThreadTypeOK, ThreadsContiguous, JoinFlags
  <2>2. CASE \A i \in Slots : pc'[i] # "wait"
    BY <1>1, <1>5, <2>1, <2>2
  <2>3. CASE size <= limit /\ \E i \in Slots : pc[i] = "wait" /\ pc'[i] = "check"
    BY <1>1, <1>2, <2>3 DEF Slots, IInv, ThreadTypeOK, ThreadsContiguous
  <2>4. CASE \A i \in Slots : pc[i] # "wait"
    BY <1>1, <1>5, <2>1, <2>4
  <2> QED BY <1>5, <2>2, <2>3, <2>4
<1> QED
  BY <1>1, <1>2, <1>5, <1>6
  DEF ThreadPoolAssumption, IInv, ThreadTypeOK, JoinFlags, ThreadsContiguous, TerminatorAwake,
      JoinedThreadsAwake, Slots

\* The client operations that touch neither threads nor limit.
LEMMA OtherClientInv ==
  ASSUME ThreadPoolAssumption, IInv,
         \/ \E j \in Jobs : SubmitRefused(j) \/ RunUnschedFunction(j)
         \/ \E tag \in Tags : UnSchedule(tag)
         \/ \E kind \in Kinds : LowerPriority(kind)
  PROVE  IInv'
<1>1. UNCHANGED <<limit, size, exitAll, waitJobs, pc, jpc, jidx, jend>>
  BY DEF SubmitRefused, RunUnschedFunction, UnSchedule, LowerPriority,
     poolVars, bgVars, joinVars
<1>2. queue' # <<>> => queue # <<>>
  BY DEF SubmitRefused, RunUnschedFunction, UnSchedule, LowerPriority, poolVars
<1> QED
  BY <1>1, <1>2 DEF IInv, ThreadTypeOK, JoinFlags, ThreadsContiguous,
     NoLostWakeup, TerminatorAwake, JoinedThreadsAwake

\* JoinThreads raises the flag, wakes everybody, waits, and empties the pool.
LEMMA JoinInv ==
  ASSUME ThreadPoolAssumption, IInv, (\E wait \in JoinModes : JoinThreads(wait)) \/ Joiner
  PROVE  IInv'
<1> USE DEF ThreadPoolAssumption, IInv, ThreadTypeOK, JoinFlags,
        ThreadsContiguous, NoLostWakeup, TerminatorAwake, JoinedThreadsAwake
<1>1. ASSUME NEW wait \in JoinModes, JoinThreads(wait) PROVE IInv'
  BY <1>1 DEF JoinThreads, bgVars, history
<1>2. CASE JoinNotify
  BY <1>2, WakeUpAllType DEF JoinNotify, poolVars
<1>3. CASE JoinCall
  BY <1>3 DEF JoinCall, poolVars, bgVars
<1>4. CASE JoinReturn
  <2>1. jidx < MaxThreads
    BY <1>4 DEF JoinReturn
  <2> QED BY <1>4, <2>1 DEF JoinReturn, poolVars, bgVars
<1>5. CASE JoinDone
  <2>1. pc' = [i \in Slots |-> "none"]
    BY <1>5 DEF JoinDone, Slots
  <2>2. /\ limit' = 0 /\ size' = 0 /\ exitAll' = FALSE /\ waitJobs' = FALSE
        /\ jpc' = "idle" /\ jidx' = 0 /\ jend' = 0
    BY <1>5 DEF JoinDone
  <2>3. ThreadTypeOK'
    <3>1. 0 \in 0 .. MaxThreads
      OBVIOUS
    <3> QED BY <2>1, <2>2, <3>1
  <2>6. JoinFlags'
    BY <2>1, <2>2
  <2>4. ThreadsContiguous'
    BY <2>1, <2>2 DEF Slots
  <2>5. NoLostWakeup' /\ TerminatorAwake' /\ JoinedThreadsAwake'
    BY <2>2
  <2> QED BY <2>3, <2>4, <2>5, <2>6
<1> QED BY <1>1, <1>2, <1>3, <1>4, <1>5 DEF Joiner

\* A background thread goes to sleep only when nobody relies on it.
LEMMA BGThreadInv ==
  ASSUME ThreadPoolAssumption, IInv, NEW i \in Slots, BGThread(i) \/ SpuriousWakeup(i)
  PROVE  IInv'
<1> USE DEF ThreadPoolAssumption, IInv, ThreadTypeOK, JoinFlags,
        ThreadsContiguous, TerminatorAwake, JoinedThreadsAwake
<1>1. CASE BGWait(i)
  <2>1. NoLostWakeup'
    <3> SUFFICES ASSUME ~exitAll, queue # <<>>, limit > 0
                 PROVE  \E k \in Slots : k < limit /\ pc'[k] \in {"check", "run"}
      BY <1>1 DEF NoLostWakeup, BGWait, poolVars
    <3>1. i >= limit
      BY <1>1 DEF BGWait, MustWait, IsExcessiveThread
    <3>2. PICK k \in Slots : k < limit /\ pc[k] \in {"check", "run"}
      BY DEF NoLostWakeup
    <3>3. pc'[k] = pc[k]
      BY <1>1, <3>1, <3>2 DEF BGWait, Slots
    <3> QED BY <3>2, <3>3
  <2> QED
    BY <1>1, <2>1 DEF BGWait, MustWait, IsLastExcessiveThread,
       HasExcessiveThread, poolVars, joinVars, Slots
<1>2. CASE BGExit(i)
  BY <1>2 DEF NoLostWakeup, BGExit, MustExit, poolVars, joinVars
<1>3. CASE BGTerminateExcessive(i)
  <2> DEFINE p == [pc EXCEPT ![i] = "none"]
  <2>1. /\ i = size - 1 /\ size > limit
        /\ size' = size - 1
        /\ pc' = TerminateNotify(p, size - 1, limit)
        /\ UNCHANGED <<limit, exitAll, waitJobs, jpc, jidx, jend, queue>>
    BY <1>3 DEF BGTerminateExcessive, IsLastExcessiveThread,
       HasExcessiveThread, joinVars
  <2>2. p \in [Slots -> {"none", "check", "wait", "run", "exited"}]
    OBVIOUS
  <2>3. /\ pc' \in [Slots -> {"none", "check", "wait", "run", "exited"}]
        /\ pc'[i] = "none"
        /\ \A k \in Slots \ {i} :
             pc'[k] = pc[k] \/ (pc[k] = "wait" /\ pc'[k] = "check")
        /\ size - 1 > limit => \A k \in Slots : pc'[k] # "wait"
    <3>1. /\ p[i] = "none"
          /\ \A k \in Slots \ {i} : p[k] = pc[k]
      OBVIOUS
    <3> HIDE DEF p
    <3>2. CASE size - 1 > limit
      BY <2>1, <2>2, <3>1, <3>2, WakeUpAllType
      DEF TerminateNotify, HasExcessiveThread
    <3>3. CASE ~(size - 1 > limit)
      BY <2>1, <2>2, <3>1, <3>3 DEF TerminateNotify, HasExcessiveThread
    <3> QED BY <3>2, <3>3
  <2>4. NoLostWakeup'
    <3> SUFFICES ASSUME ~exitAll, queue # <<>>, limit > 0
                 PROVE  \E k \in Slots : k < limit /\ pc'[k] \in {"check", "run"}
      BY <2>1 DEF NoLostWakeup
    <3>1. PICK k \in Slots : k < limit /\ pc[k] \in {"check", "run"}
      BY DEF NoLostWakeup
    <3>2. k # i
      BY <2>1, <3>1 DEF Slots
    <3>3. pc'[k] = pc[k]
      BY <2>3, <3>1, <3>2
    <3> QED BY <3>1, <3>3
  <2>5. ThreadTypeOK'
    <3>1. size - 1 \in 0 .. MaxThreads
      BY <2>1 DEF Slots
    <3> QED BY <2>1, <2>3, <3>1
  <2>6. JoinFlags'
    BY <2>1, <2>3
  <2>7. ThreadsContiguous'
    <3>1. ASSUME NEW k \in Slots PROVE pc'[k] = "none" <=> k >= size'
      <4>1. CASE k = i
        BY <2>1, <2>3, <4>1 DEF Slots
      <4>2. CASE k # i
        <5>1. pc'[k] = "none" <=> pc[k] = "none"
          BY <2>3, <4>2
        <5>2. k >= size' <=> k >= size
          BY <2>1, <4>2 DEF Slots
        <5> QED BY <5>1, <5>2
      <4> QED BY <4>1, <4>2
    <3>2. ~exitAll' => size' >= limit'
      BY <2>1
    <3> QED BY <3>1, <3>2
  <2>8. TerminatorAwake'
    <3> SUFFICES ASSUME size' > limit' PROVE pc'[size' - 1] # "wait"
      OBVIOUS
    <3>1. size' - 1 \in Slots /\ size - 1 > limit
      BY <2>1 DEF Slots
    <3> QED BY <2>3, <3>1
  <2>9. JoinedThreadsAwake'
    BY <2>1, <2>3, ZenonT(40)
  <2> QED BY <2>4, <2>5, <2>6, <2>7, <2>8, <2>9
<1>4. CASE BGTakeJob(i)
  <2>1. NoLostWakeup'
    <3> SUFFICES ASSUME ~exitAll
                 PROVE  i < limit' /\ pc'[i] = "run"
      BY <1>4 DEF NoLostWakeup, BGTakeJob
    <3> QED BY <1>4 DEF BGTakeJob, MustWait, IsExcessiveThread, Slots
  <2> QED
    BY <1>4, <2>1 DEF BGTakeJob, joinVars, Slots
<1>5. CASE BGFinishJob(i) \/ SpuriousWakeup(i)
  <2>1. /\ pc' = [pc EXCEPT ![i] = "check"]
        /\ pc[i] \in {"run", "wait"}
        /\ UNCHANGED <<limit, size, exitAll, waitJobs, jpc, jidx, jend, queue>>
    BY <1>5 DEF BGFinishJob, SpuriousWakeup, poolVars, joinVars
  <2>2. NoLostWakeup'
    BY <2>1 DEF NoLostWakeup
  <2> QED BY <2>1, <2>2 DEF Slots
<1> QED BY <1>1, <1>2, <1>3, <1>4, <1>5 DEF BGThread

\* IInv is an invariant of the pool.
LEMMA Invariance ==
  ASSUME ThreadPoolAssumption
  PROVE  Spec => []IInv
<1>1. IInv /\ [Next]_vars => IInv'
  <2> SUFFICES ASSUME IInv, [Next]_vars PROVE IInv'
    OBVIOUS
  <2>1. CASE UNCHANGED vars
    BY <2>1 DEF vars, poolVars, bgVars, joinVars, IInv, ThreadTypeOK,
       JoinFlags, ThreadsContiguous, NoLostWakeup, TerminatorAwake,
       JoinedThreadsAwake
  <2>2. CASE SetBackgroundThreads \/ IncBackgroundThreadsIfNeeded
    BY <2>2, SetBackgroundInv
    DEF SetBackgroundThreads, IncBackgroundThreadsIfNeeded
  <2>3. ASSUME NEW j \in Jobs, Submit(j) PROVE IInv'
    BY <2>3, SubmitInv
  <2>4. CASE \/ \E j \in Jobs : SubmitRefused(j) \/ RunUnschedFunction(j)
             \/ \E tag \in Tags : UnSchedule(tag)
             \/ \E kind \in Kinds : LowerPriority(kind)
    BY <2>4, OtherClientInv
  <2>5. CASE (\E wait \in JoinModes : JoinThreads(wait)) \/ Joiner
    BY <2>5, JoinInv
  <2>6. ASSUME NEW i \in Slots, BGThread(i) \/ SpuriousWakeup(i) PROVE IInv'
    BY <2>6, BGThreadInv
  <2> QED BY <2>1, <2>2, <2>3, <2>4, <2>5, <2>6 DEF Next, Client
<1> QED BY InitInv, <1>1, PTL DEF Spec

\* For every limit, thread count and job set: bgthreads_ never has a hole.
THEOREM ContiguousThreads ==
  ASSUME ThreadPoolAssumption
  PROVE  Spec => []ThreadsContiguous
  BY Invariance, PTL DEF IInv

\* For every limit, thread count and job set, the threads that are needed are
\* awake: one that may take the queued jobs, the one that has to terminate
\* next, and all those being joined.
THEOREM NeededThreadsAwake ==
  ASSUME ThreadPoolAssumption
  PROVE  Spec => []NobodyNeededSleeps
  BY Invariance, PTL DEF IInv, NobodyNeededSleeps

-----------------------------------------------------------------------------
(* What Without computes, for every sequence: by induction.  The library's  *)
(* induction theorems take an operator; a least counterexample in a set of *)
(* numbers serves as well.                                                 *)

\* A set of natural numbers has a least element.  (The library states this
\* for well-founded relations.)
LEMMA LeastNumber ==
  ASSUME NEW T \in SUBSET Nat, T # {}
  PROVE  \E x \in T : \A y \in T : x <= y
<1> DEFINE R == OpToRel(<, Nat)
<1>1. IsWellFoundedOn(R, Nat)
  BY NatLessThanWellFounded
<1>3. \A x,y \in Nat : y < x => <<y,x>> \in R
  BY DEF OpToRel
<1>2. \E x \in T : \A y \in T : ~(<<y,x>> \in R)
  <2> HIDE DEF R
  <2> QED BY <1>1, WFMin
<1> HIDE DEF R
<1>4. PICK x \in T : \A y \in T : ~(<<y, x>> \in R)
  BY <1>2
<1>5. \A y \in T : ~(y < x)
  BY <1>3, <1>4, Zenon
<1>6. \A y \in T : x <= y
  BY <1>5
<1> QED BY <1>6

\* Induction over the natural numbers, with the induction hypothesis as a set.
LEMMA NatSetInduction ==
  ASSUME NEW G, 0 \in G, \A n \in Nat : n \in G => n + 1 \in G
  PROVE  Nat \subseteq G
<1> DEFINE T == Nat \ G
<1> SUFFICES ASSUME T # {} PROVE FALSE
  OBVIOUS
<1>1. PICK x \in T : \A y \in T : x <= y
  BY LeastNumber, T \in SUBSET Nat
<1>2. x - 1 \in Nat /\ x - 1 \notin T
  BY <1>1
<1> QED BY <1>1, <1>2

\* Induction over sequences that are built with Append, as push_back does.
LEMMA AppendInduction ==
  ASSUME NEW S, NEW G, <<>> \in G,
         \A s \in Seq(S), x \in S : s \in G => Append(s, x) \in G
  PROVE  Seq(S) \subseteq G
<1> DEFINE H == {n \in Nat : \A s \in Seq(S) : Len(s) = n => s \in G}
<1>1. 0 \in H
  BY EmptySeq
<1>2. ASSUME NEW n \in Nat, n \in H PROVE n + 1 \in H
  <2> SUFFICES ASSUME NEW s \in Seq(S), Len(s) = n + 1 PROVE s \in G
    OBVIOUS
  <2>1. s # <<>>
    BY EmptySeq
  <2>2. PICK t \in Seq(S), x \in S : s = Append(t, x)
    BY <2>1, SequenceEmptyOrAppend
  <2>3. Len(t) = n
    BY <2>2
  <2> QED BY <1>2, <2>2, <2>3
<1> HIDE DEF H
<1>3. Nat \subseteq H
  BY <1>1, <1>2, NatSetInduction
<1> QED BY <1>3 DEF H

\* The pass of Without over s: the step at item n, the results f of its first
\* m steps, and two sequences it cannot tell apart in m steps.
KeptStep(s, D, kept, n) ==
  IF n = 0 THEN <<>>
  ELSE IF s[n] \in D THEN kept[n - 1] ELSE Append(kept[n - 1], s[n])
Follows(f, s, D, m) == \A n \in 0 .. m : f[n] = KeptStep(s, D, f, n)
IsKept(f, s, D, S, m) == f \in [0 .. m -> Seq(S)] /\ Follows(f, s, D, m)
SameUpTo(s, t, m) == \A n \in 1 .. m : s[n] = t[n]

\* The pass over s that Without makes has a result after every m items.
LEMMA KeptExists ==
  ASSUME NEW S, NEW s \in Seq(S), NEW D
  PROVE  \A m \in Nat : m <= Len(s) => \E f : IsKept(f, s, D, S, m)
<1> DEFINE G == {m \in Nat : m <= Len(s) => \E f : IsKept(f, s, D, S, m)}
<1>1. 0 \in G
  <2> DEFINE f == [n \in 0 .. 0 |-> <<>>]
  <2>1. IsKept(f, s, D, S, 0)
    BY EmptySeq DEF KeptStep, IsKept, Follows
  <2> QED BY <2>1
<1>2. ASSUME NEW m \in Nat, m \in G PROVE m + 1 \in G
  <2> SUFFICES ASSUME m + 1 <= Len(s) PROVE \E f : IsKept(f, s, D, S, m + 1)
    OBVIOUS
  <2>1. PICK f : IsKept(f, s, D, S, m)
    BY <1>2
  <2> DEFINE v == IF s[m + 1] \in D THEN f[m] ELSE Append(f[m], s[m + 1])
  <2>2. v \in Seq(S)
    BY <2>1 DEF IsKept
  <2> HIDE DEF v
  <2> DEFINE g == [n \in 0 .. m + 1 |-> IF n = m + 1 THEN v ELSE f[n]]
  <2>3. g \in [0 .. m + 1 -> Seq(S)]
    BY <2>1, <2>2 DEF IsKept
  <2>4. ASSUME NEW n \in 0 .. m + 1 PROVE g[n] = KeptStep(s, D, g, n)
    <3>1. CASE n = m + 1
      <4>1. g[n] = v /\ n - 1 = m /\ g[n - 1] = f[m] /\ n # 0
        BY <3>1
      <4> QED BY <4>1, <3>1 DEF KeptStep, v
    <3>2. CASE n \in 1 .. m
      <4>1. g[n] = f[n] /\ g[n - 1] = f[n - 1] /\ n \in 0 .. m
        BY <3>2
      <4>2. f[n] = KeptStep(s, D, f, n)
        BY <2>1, <4>1 DEF IsKept, Follows
      <4> QED BY <4>1, <4>2 DEF KeptStep
    <3>3. CASE n = 0
      <4>1. g[0] = f[0] /\ f[0] = KeptStep(s, D, f, 0)
        BY <2>1 DEF IsKept, Follows
      <4> QED BY <4>1, <3>3 DEF KeptStep
    <3> QED BY <3>1, <3>2, <3>3
  <2> HIDE DEF g
  <2> QED BY <2>3, <2>4 DEF IsKept, Follows
<1> HIDE DEF G
<1>3. Nat \subseteq G
  BY <1>1, <1>2, NatSetInduction
<1> QED BY <1>3 DEF G

\* Two passes agree as far as the sequences they go over do.
LEMMA KeptUnique ==
  ASSUME NEW s, NEW t, NEW D, NEW f, NEW g, NEW k \in Nat,
         SameUpTo(s, t, k), Follows(f, s, D, k), Follows(g, t, D, k)
  PROVE  f[k] = g[k]
<1> DEFINE G == {n \in Nat : n <= k => f[n] = g[n]}
<1>1. 0 \in G
  BY DEF KeptStep, Follows
<1>2. ASSUME NEW n \in Nat, n \in G PROVE n + 1 \in G
  <2> SUFFICES ASSUME n + 1 <= k PROVE f[n + 1] = g[n + 1]
    OBVIOUS
  <2>1. f[n] = g[n] /\ n + 1 \in 0 .. k /\ n + 1 - 1 = n /\ n + 1 # 0 /\ s[n + 1] = t[n + 1]
    BY <1>2 DEF SameUpTo
  <2>2. f[n + 1] = KeptStep(s, D, f, n + 1) /\ g[n + 1] = KeptStep(t, D, g, n + 1)
    BY <2>1 DEF Follows
  <2> QED BY <2>1, <2>2 DEF KeptStep
<1>3. Nat \subseteq G
  <2> HIDE DEF G
  <2> QED BY <1>1, <1>2, NatSetInduction
<1> QED BY <1>3

\* Without(s, D) is the last result of that pass.
LEMMA KeptDef ==
  ASSUME NEW S, NEW s \in Seq(S), NEW D
  PROVE  \E f : IsKept(f, s, D, S, Len(s)) /\ Without(s, D) = f[Len(s)]
<1> DEFINE K(f) == [n \in 0 .. Len(s) |->
                     IF n = 0 THEN <<>>
                     ELSE IF s[n] \in D THEN f[n - 1] ELSE Append(f[n - 1], s[n])]
<1> DEFINE kept == CHOOSE f : f = K(f)
<1>0. Len(s) \in Nat /\ Len(s) <= Len(s)
  OBVIOUS
<1>1. PICK f : IsKept(f, s, D, S, Len(s))
  BY <1>0, KeptExists
<1>2. f = K(f)
  BY <1>1 DEF KeptStep, IsKept, Follows
<1>3. kept = K(kept)
  BY <1>2
<1>4. Without(s, D) = kept[Len(s)]
  BY DEF Without
<1>5. Follows(kept, s, D, Len(s))
  BY <1>3 DEF KeptStep, Follows
<1> HIDE DEF kept, K
<1>6. kept[Len(s)] = f[Len(s)]
  <2>1. SameUpTo(s, s, Len(s)) /\ Follows(f, s, D, Len(s))
    BY <1>1 DEF SameUpTo, IsKept
  <2> QED BY <1>0, <2>1, <1>5, KeptUnique
<1> QED BY <1>1, <1>4, <1>6

\* Dropping items from a sequence leaves a sequence.
LEMMA WithoutType ==
  ASSUME NEW S, NEW s \in Seq(S), NEW D
  PROVE  Without(s, D) \in Seq(S)
<1>1. PICK f : IsKept(f, s, D, S, Len(s)) /\ Without(s, D) = f[Len(s)]
  BY KeptDef
<1> QED BY <1>1 DEF IsKept

\* Nothing is left of nothing.
LEMMA WithoutEmpty == ASSUME NEW D PROVE Without(<<>>, D) = <<>>
<1> DEFINE s == <<>>
<1>0. s \in Seq({}) /\ Len(s) = 0
  OBVIOUS
<1>1. PICK f : IsKept(f, s, D, {}, Len(s)) /\ Without(s, D) = f[Len(s)]
  <2> HIDE DEF s
  <2> QED BY <1>0, KeptDef
<1> QED BY <1>0, <1>1 DEF KeptStep, IsKept, Follows

\* What is left after one more item was appended.
LEMMA WithoutAppend ==
  ASSUME NEW S, NEW s \in Seq(S), NEW x \in S, NEW D
  PROVE  Without(Append(s, x), D) =
           IF x \in D THEN Without(s, D) ELSE Append(Without(s, D), x)
<1> DEFINE t == Append(s, x)
<1>0. t \in Seq(S) /\ Len(t) = Len(s) + 1 /\ t[Len(s) + 1] = x
      /\ SameUpTo(s, t, Len(s))
  BY DEF SameUpTo
<1> HIDE DEF t
<1>1. PICK f : IsKept(f, s, D, S, Len(s)) /\ Without(s, D) = f[Len(s)]
  BY KeptDef
<1>2. PICK g : IsKept(g, t, D, S, Len(t)) /\ Without(t, D) = g[Len(t)]
  BY <1>0, KeptDef
<1>3. Follows(g, t, D, Len(s))
  BY <1>0, <1>2 DEF IsKept, Follows
<1>4. Follows(f, s, D, Len(s))
  BY <1>1 DEF IsKept
<1>5. Len(s) \in Nat
  OBVIOUS
<1>6. f[Len(s)] = g[Len(s)]
  BY <1>0, <1>3, <1>4, <1>5, KeptUnique
<1>7. g[Len(t)] = KeptStep(t, D, g, Len(t)) /\ Len(t) # 0 /\ Len(t) - 1 = Len(s)
  BY <1>0, <1>2 DEF IsKept, Follows
<1>8. g[Len(t)] = IF x \in D THEN g[Len(s)] ELSE Append(g[Len(s)], x)
  BY <1>0, <1>7 DEF KeptStep
<1> QED BY <1>1, <1>2, <1>6, <1>8 DEF t


\* The items of a sequence, and a sequence without repetitions.
Elems(s) == {s[n] : n \in 1 .. Len(s)}
Distinct(s) == \A k, l \in 1 .. Len(s) : s[k] = s[l] => k = l

\* The items after Append and \o.
LEMMA ElemsAppend ==
  ASSUME NEW S, NEW s \in Seq(S), NEW x \in S
  PROVE  Elems(Append(s, x)) = Elems(s) \cup {x}
<1>1. /\ Len(Append(s, x)) = Len(s) + 1 /\ Append(s, x)[Len(s) + 1] = x
      /\ \A n \in 1 .. Len(s) : Append(s, x)[n] = s[n]
  OBVIOUS
<1> QED BY <1>1 DEF Elems

LEMMA ElemsConcat ==
  ASSUME NEW S, NEW s \in Seq(S), NEW t \in Seq(S)
  PROVE  Elems(s \o t) = Elems(s) \cup Elems(t)
<1>1. /\ Len(s \o t) = Len(s) + Len(t)
      /\ \A n \in 1 .. Len(s) : (s \o t)[n] = s[n]
      /\ \A n \in 1 .. Len(t) : (s \o t)[Len(s) + n] = t[n]
  OBVIOUS
<1>2. \A n \in 1 .. Len(s \o t) : n \in 1 .. Len(s) \/ n - Len(s) \in 1 .. Len(t)
  BY <1>1
<1>3. ASSUME NEW x \in Elems(s \o t) PROVE x \in Elems(s) \cup Elems(t)
  <2>1. PICK n \in 1 .. Len(s \o t) : x = (s \o t)[n]
    BY <1>3 DEF Elems
  <2>2. CASE n \in 1 .. Len(s)
    BY <1>1, <2>1, <2>2 DEF Elems
  <2>3. CASE n - Len(s) \in 1 .. Len(t)
    <3>1. x = t[n - Len(s)]
      <4>1. Len(s) + (n - Len(s)) = n
        BY <2>1
      <4> QED BY <1>1, <2>1, <2>3, <4>1
    <3> QED BY <2>3, <3>1 DEF Elems
  <2> QED BY <1>2, <2>1, <2>2, <2>3
<1>4. ASSUME NEW x \in Elems(s) PROVE x \in Elems(s \o t)
  BY <1>1, <1>4 DEF Elems
<1>5. ASSUME NEW x \in Elems(t) PROVE x \in Elems(s \o t)
  <2>1. PICK n \in 1 .. Len(t) : x = t[n]
    BY <1>5 DEF Elems
  <2>2. Len(s) + n \in 1 .. Len(s \o t) /\ (s \o t)[Len(s) + n] = x
    BY <1>1, <2>1
  <2> QED BY <2>2 DEF Elems
<1> QED BY <1>3, <1>4, <1>5

\* What is left has the items that were not dropped.
LEMMA WithoutElems ==
  ASSUME NEW S, NEW D
  PROVE  \A s \in Seq(S) : Elems(Without(s, D)) = Elems(s) \ D
<1> DEFINE G == {s \in Seq(S) : Elems(Without(s, D)) = Elems(s) \ D}
<1>1. <<>> \in G
  BY WithoutEmpty, EmptySeq DEF Elems
<1>2. ASSUME NEW s \in Seq(S), NEW x \in S, s \in G PROVE Append(s, x) \in G
  <2>1. Without(s, D) \in Seq(S)
    BY WithoutType
  <2>2. Elems(Append(s, x)) = Elems(s) \cup {x}
    BY ElemsAppend
  <2>3. CASE x \in D
    <3>1. Without(Append(s, x), D) = Without(s, D)
      BY <2>3, WithoutAppend
    <3> QED BY <1>2, <2>2, <2>3, <3>1
  <2>4. CASE x \notin D
    <3>1. Without(Append(s, x), D) = Append(Without(s, D), x)
      BY <2>4, WithoutAppend
    <3>2. Elems(Append(Without(s, D), x)) = Elems(Without(s, D)) \cup {x}
      BY <2>1, ElemsAppend
    <3>3. Append(s, x) \in Seq(S) /\ Elems(Without(Append(s, x), D)) = (Elems(s) \ D) \cup {x}
      BY <1>2, <3>1, <3>2
    <3>4. (Elems(s) \ D) \cup {x} = (Elems(s) \cup {x}) \ D
      BY <2>4
    <3> QED BY <2>2, <3>3, <3>4
  <2> QED BY <2>3, <2>4
<1> HIDE DEF G
<1>3. Seq(S) \subseteq G
  BY <1>1, <1>2, AppendInduction
<1> QED BY <1>3 DEF G

\* What is left of two sequences in a row is what is left of each.
LEMMA WithoutConcat ==
  ASSUME NEW S, NEW D, NEW s \in Seq(S)
  PROVE  \A t \in Seq(S) : Without(s \o t, D) = Without(s, D) \o Without(t, D)
<1> DEFINE G == {t \in Seq(S) : Without(s \o t, D) = Without(s, D) \o Without(t, D)}
<1>0. Without(s, D) \in Seq(S)
  BY WithoutType
<1>1. <<>> \in G
  <2>1. s \o <<>> = s /\ Without(s, D) \o <<>> = Without(s, D)
    BY <1>0
  <2> QED BY <2>1, WithoutEmpty, EmptySeq
<1>2. ASSUME NEW t \in Seq(S), NEW x \in S, t \in G PROVE Append(t, x) \in G
  <2> DEFINE u == s \o t
  <2>1. s \o Append(t, x) = Append(u, x) /\ u \in Seq(S) /\ Append(t, x) \in Seq(S)
    OBVIOUS
  <2>2. Without(u, D) = Without(s, D) \o Without(t, D) /\ Without(t, D) \in Seq(S)
    BY <1>2, WithoutType
  <2> HIDE DEF u
  <2> SUFFICES Without(Append(u, x), D) = Without(s, D) \o Without(Append(t, x), D)
    BY <2>1, Zenon
  <2>3. CASE x \in D
    <3>1. Without(Append(u, x), D) = Without(u, D) /\ Without(Append(t, x), D) = Without(t, D)
      BY <2>1, <2>3, WithoutAppend
    <3> QED BY <2>2, <3>1
  <2>4. CASE x \notin D
    <3>1. /\ Without(Append(u, x), D) = Append(Without(u, D), x)
          /\ Without(Append(t, x), D) = Append(Without(t, D), x)
      BY <2>1, <2>4, WithoutAppend
    <3>2. Without(s, D) \o Append(Without(t, D), x) = Append(Without(s, D) \o Without(t, D), x)
      BY <1>0, <2>2
    <3> QED BY <2>2, <3>1, <3>2, Zenon
  <2> QED BY <2>3, <2>4
<1> HIDE DEF G
<1>3. Seq(S) \subseteq G
  BY <1>1, <1>2, AppendInduction
<1> QED BY <1>3 DEF G

\* Dropping D and then E is dropping both at once.
LEMMA WithoutTwice ==
  ASSUME NEW S, NEW D, NEW E
  PROVE  \A s \in Seq(S) : Without(Without(s, D), E) = Without(s, D \cup E)
<1> DEFINE G == {s \in Seq(S) : Without(Without(s, D), E) = Without(s, D \cup E)}
<1>1. <<>> \in G
  BY WithoutEmpty, EmptySeq
<1>2. ASSUME NEW s \in Seq(S), NEW x \in S, s \in G PROVE Append(s, x) \in G
  <2>1. Without(s, D) \in Seq(S) /\ Append(s, x) \in Seq(S)
    BY WithoutType
  <2>2. Without(Append(s, x), D) = IF x \in D THEN Without(s, D) ELSE Append(Without(s, D), x)
    BY WithoutAppend
  <2>3. Without(Append(s, x), D \cup E) =
          IF x \in D \cup E THEN Without(s, D \cup E) ELSE Append(Without(s, D \cup E), x)
    BY WithoutAppend
  <2>4. Without(Append(Without(s, D), x), E) =
          IF x \in E THEN Without(Without(s, D), E) ELSE Append(Without(Without(s, D), E), x)
    BY <2>1, WithoutAppend
  <2> QED BY <1>2, <2>1, <2>2, <2>3, <2>4
<1> HIDE DEF G
<1>3. Seq(S) \subseteq G
  BY <1>1, <1>2, AppendInduction
<1> QED BY <1>3 DEF G

\* Only the items of s that are in D matter.
LEMMA WithoutSame ==
  ASSUME NEW S, NEW D, NEW E
  PROVE  \A s \in Seq(S) : Elems(s) \cap D = Elems(s) \cap E => Without(s, D) = Without(s, E)
<1> DEFINE G == {s \in Seq(S) : Elems(s) \cap D = Elems(s) \cap E => Without(s, D) = Without(s, E)}
<1>1. <<>> \in G
  BY WithoutEmpty, EmptySeq
<1>2. ASSUME NEW s \in Seq(S), NEW x \in S, s \in G PROVE Append(s, x) \in G
  <2> SUFFICES ASSUME Elems(Append(s, x)) \cap D = Elems(Append(s, x)) \cap E
               PROVE  Without(Append(s, x), D) = Without(Append(s, x), E)
    OBVIOUS
  <2>1. Elems(Append(s, x)) = Elems(s) \cup {x}
    BY ElemsAppend
  <2>2. Elems(s) \cap D = Elems(s) \cap E /\ (x \in D <=> x \in E)
    BY <2>1
  <2>3. /\ Without(Append(s, x), D) = IF x \in D THEN Without(s, D) ELSE Append(Without(s, D), x)
        /\ Without(Append(s, x), E) = IF x \in E THEN Without(s, E) ELSE Append(Without(s, E), x)
    BY WithoutAppend
  <2> QED BY <1>2, <2>2, <2>3
<1> HIDE DEF G
<1>3. Seq(S) \subseteq G
  BY <1>1, <1>2, AppendInduction
<1> QED BY <1>3 DEF G

\* A sequence with none of the items to drop stays as it is.
LEMMA WithoutNone ==
  ASSUME NEW S, NEW D
  PROVE  \A s \in Seq(S) : Elems(s) \cap D = {} => Without(s, D) = s
<1> DEFINE G == {s \in Seq(S) : Elems(s) \cap D = {} => Without(s, D) = s}
<1>1. <<>> \in G
  BY WithoutEmpty, EmptySeq
<1>2. ASSUME NEW s \in Seq(S), NEW x \in S, s \in G PROVE Append(s, x) \in G
  <2> SUFFICES ASSUME Elems(Append(s, x)) \cap D = {}
               PROVE  Without(Append(s, x), D) = Append(s, x)
    OBVIOUS
  <2>1. Elems(Append(s, x)) = Elems(s) \cup {x}
    BY ElemsAppend
  <2>2. Elems(s) \cap D = {} /\ x \notin D
    BY <2>1
  <2>3. Without(Append(s, x), D) = Append(Without(s, D), x)
    BY <2>2, WithoutAppend
  <2> QED BY <1>2, <2>2, <2>3
<1> HIDE DEF G
<1>3. Seq(S) \subseteq G
  BY <1>1, <1>2, AppendInduction
<1> QED BY <1>3 DEF G

\* A new item keeps a sequence free of repetitions.
LEMMA DistinctAppend ==
  ASSUME NEW S, NEW s \in Seq(S), NEW x \in S
  PROVE  Distinct(Append(s, x)) <=> Distinct(s) /\ x \notin Elems(s)
<1>1. /\ Len(Append(s, x)) = Len(s) + 1 /\ Append(s, x)[Len(s) + 1] = x
      /\ \A n \in 1 .. Len(s) : Append(s, x)[n] = s[n]
  OBVIOUS
<1>2. ASSUME Distinct(Append(s, x)) PROVE Distinct(s) /\ x \notin Elems(s)
  BY <1>1, <1>2 DEF Distinct, Elems
<1>3. ASSUME Distinct(s), x \notin Elems(s) PROVE Distinct(Append(s, x))
  <2>1. \A n \in 1 .. Len(s) + 1 : n \in 1 .. Len(s) \/ n = Len(s) + 1
    OBVIOUS
  <2>2. \A n \in 1 .. Len(s) : s[n] # x
    BY <1>3 DEF Elems
  <2> QED BY <1>1, <1>3, <2>1, <2>2 DEF Distinct
<1> QED BY <1>2, <1>3

\* Dropping items brings no repetition.
LEMMA WithoutDistinct ==
  ASSUME NEW S, NEW D
  PROVE  \A s \in Seq(S) : Distinct(s) => Distinct(Without(s, D))
<1> DEFINE G == {s \in Seq(S) : Distinct(s) => Distinct(Without(s, D))}
<1>1. <<>> \in G
  BY WithoutEmpty, EmptySeq
<1>2. ASSUME NEW s \in Seq(S), NEW x \in S, s \in G PROVE Append(s, x) \in G
  <2> SUFFICES ASSUME Distinct(Append(s, x)) PROVE Distinct(Without(Append(s, x), D))
    OBVIOUS
  <2>1. Distinct(s) /\ x \notin Elems(s)
    BY DistinctAppend
  <2>2. Without(s, D) \in Seq(S) /\ Elems(Without(s, D)) = Elems(s) \ D
    BY WithoutType, WithoutElems
  <2>3. Distinct(Append(Without(s, D), x))
    BY <1>2, <2>1, <2>2, DistinctAppend
  <2>4. Without(Append(s, x), D) \in {Without(s, D), Append(Without(s, D), x)}
    BY WithoutAppend
  <2> QED BY <1>2, <2>1, <2>3, <2>4
<1> HIDE DEF G
<1>3. Seq(S) \subseteq G
  BY <1>1, <1>2, AppendInduction
<1> QED BY <1>3 DEF G

-----------------------------------------------------------------------------
(* The jobs.                                                               *)

\* Where the jobs are, with the reasons why UnSchedule cannot reach a job that
\* was started, or one that was cancelled before: no job is twice among those
\* started and queued, and only accepted jobs are cancelled.
JobInv ==
  /\ JobTypeOK /\ FifoExactlyOnce /\ CancelledNeverRuns /\ QueueLenExact
  /\ Distinct(started \o queue)
  /\ cancelled \subseteq Elems(accepted)

\* The started and the queued jobs are the accepted ones that were not
\* cancelled, so that nobody is both started and queued or cancelled.
LEMMA JobsApart ==
  ASSUME JobInv
  PROVE  /\ Elems(started) \cup Elems(queue) = Elems(accepted) \ cancelled
         /\ Elems(started) \cap Elems(queue) = {}
<1> USE DEF JobInv, JobTypeOK
<1>1. Elems(started \o queue) = Elems(started) \cup Elems(queue)
  BY ElemsConcat
<1>2. Elems(Without(accepted, cancelled)) = Elems(accepted) \ cancelled
  BY WithoutElems
<1>3. ASSUME NEW k \in 1 .. Len(started), NEW l \in 1 .. Len(queue), started[k] = queue[l]
      PROVE  FALSE
  <2>1. /\ k \in 1 .. Len(started \o queue) /\ Len(started) + l \in 1 .. Len(started \o queue)
        /\ (started \o queue)[k] = started[k] /\ (started \o queue)[Len(started) + l] = queue[l]
    OBVIOUS
  <2>2. k = Len(started) + l
    BY <1>3, <2>1 DEF Distinct
  <2> QED BY <2>2
<1>4. Elems(started) \cap Elems(queue) = {}
  BY <1>3 DEF Elems
<1> QED BY <1>1, <1>2, <1>4 DEF FifoExactlyOnce

\* A thread takes a job only from a queue that has one.
LEMMA TakesFromQueue ==
  ASSUME exitAll \in BOOLEAN, NEW i \in Slots, BGTakeJob(i)
  PROVE  queue # <<>>
  BY DEF BGTakeJob, MustWait, MustExit

\* The initial pool has no jobs.
LEMMA InitJobs == Init => JobInv
<1> SUFFICES ASSUME Init PROVE JobInv
  OBVIOUS
<1>1. JobTypeOK
  BY DEF Init, JobTypeOK
<1>2. FifoExactlyOnce
  BY WithoutEmpty DEF Init, FifoExactlyOnce
<1>3. CancelledNeverRuns /\ QueueLenExact
  BY DEF Init, CancelledNeverRuns, QueueLenExact
<1>4. Distinct(started \o queue) /\ cancelled \subseteq Elems(accepted)
  BY DEF Init, Distinct
<1> QED BY <1>1, <1>2, <1>3, <1>4 DEF JobInv

\* Submit appends a job that was never seen before.
LEMMA SubmitJobs ==
  ASSUME JobInv, NEW j \in Jobs, Submit(j)
  PROVE  JobInv'
<1>1. /\ queue' = Append(queue, j) /\ queueLen' = Len(queue') /\ accepted' = Append(accepted, j)
      /\ UNCHANGED <<low, job, lowered, started, cancelled, unsched, undone, dropped>>
  BY DEF Submit, PushBack, StoredQueueLen
<1>2. j \notin Elems(accepted)
  BY DEF Submit, Fresh, Elems
<1>3. queue \in Seq(Jobs) /\ accepted \in Seq(Jobs) /\ started \in Seq(Jobs)
  BY DEF JobInv, JobTypeOK
<1>4. JobTypeOK'
  BY <1>1 DEF JobInv, JobTypeOK
<1>5. started' \o queue' = Append(started \o queue, j)
  BY <1>1, <1>3
<1>6. FifoExactlyOnce'
  <2>1. j \notin cancelled
    BY <1>2 DEF JobInv
  <2>2. Without(Append(accepted, j), cancelled) = Append(Without(accepted, cancelled), j)
    BY <1>3, <2>1, WithoutAppend
  <2> QED BY <1>1, <1>5, <2>2 DEF JobInv, FifoExactlyOnce
<1>7. CancelledNeverRuns' /\ QueueLenExact'
  BY <1>1 DEF JobInv, CancelledNeverRuns, QueueLenExact
<1>8. Distinct(started' \o queue')
  <2>1. Elems(started \o queue) = Elems(accepted) \ cancelled
    BY <1>3, JobsApart, ElemsConcat
  <2>2. started \o queue \in Seq(Jobs) /\ j \notin Elems(started \o queue)
    BY <1>2, <1>3, <2>1
  <2>3. Distinct(Append(started \o queue, j))
    BY <2>2, DistinctAppend DEF JobInv
  <2> QED BY <1>5, <2>3
<1>9. cancelled' \subseteq Elems(accepted')
  BY <1>1, <1>3, ElemsAppend DEF JobInv
<1> QED BY <1>4, <1>6, <1>7, <1>8, <1>9 DEF JobInv

\* UnSchedule takes the tagged jobs out of the queue and no others.
LEMMA UnScheduleJobs ==
  ASSUME JobInv, NEW tag \in Tags, UnSchedule(tag)
  PROVE  JobInv'
<1> DEFINE tagged == {j \in Jobs : Tag[j] = tag}
<1> DEFINE gone == {j \in Jobs : Tag[j] = tag /\ \E k \in 1 .. Len(queue) : queue[k] = j}
<1>1. /\ queue' = Without(queue, tagged) /\ queueLen' = Len(queue')
      /\ cancelled' = cancelled \cup gone /\ unsched' = unsched \cup (gone \cap HasUnsched)
      /\ UNCHANGED <<low, job, lowered, accepted, started, undone, dropped>>
  BY DEF UnSchedule, EraseTagged, StoredQueueLen, bgVars
<1>2. queue \in Seq(Jobs) /\ accepted \in Seq(Jobs) /\ started \in Seq(Jobs)
  BY DEF JobInv, JobTypeOK
<1>3. gone = Elems(queue) \cap tagged
  BY <1>2 DEF Elems
<1>4. tagged \subseteq Jobs
  OBVIOUS
<1> HIDE DEF gone, tagged
<1>5. gone \cap Elems(started) = {} /\ gone \cap cancelled = {} /\ gone \subseteq Elems(accepted)
  BY <1>3, JobsApart
<1>6. queue' \in Seq(Jobs)
  BY <1>1, <1>2, WithoutType
<1>7. JobTypeOK'
  <2>1. queueLen' \in Nat
    BY <1>1, <1>6
  <2>2. cancelled' \subseteq Jobs /\ unsched' \subseteq Jobs
    BY <1>1, <1>3, <1>4 DEF JobInv, JobTypeOK
  <2> QED BY <1>1, <1>6, <2>1, <2>2 DEF JobInv, JobTypeOK
<1>8. /\ Without(started, gone) = started
      /\ Without(queue, gone) = Without(queue, tagged)
  <2>1. Elems(started) \cap gone = {}
    BY <1>5
  <2>2. Elems(queue) \cap gone = Elems(queue) \cap tagged
    BY <1>3
  <2> QED BY <1>2, <2>1, <2>2, WithoutNone, WithoutSame
<1>9. Without(started \o queue, gone) = started' \o queue'
  <2>1. Without(started \o queue, gone) = Without(started, gone) \o Without(queue, gone)
    BY <1>2, WithoutConcat
  <2> QED BY <1>1, <1>8, <2>1
<1>10. FifoExactlyOnce'
  <2>1. Without(Without(accepted, cancelled), gone) = Without(accepted, cancelled \cup gone)
    BY <1>2, WithoutTwice
  <2> QED BY <1>1, <1>9, <2>1 DEF JobInv, FifoExactlyOnce
<1>11. CancelledNeverRuns'
  <2>1. \A k \in 1 .. Len(started) : started[k] \notin cancelled /\ started[k] \notin gone
    BY <1>5 DEF JobInv, CancelledNeverRuns, Elems
  <2> QED BY <1>1, <1>5, <2>1 DEF JobInv, CancelledNeverRuns
<1>12. Distinct(started' \o queue')
  <2>1. started \o queue \in Seq(Jobs)
    BY <1>2
  <2> QED BY <1>9, <2>1, WithoutDistinct DEF JobInv
<1> QED BY <1>1, <1>5, <1>7, <1>10, <1>11, <1>12 DEF JobInv, QueueLenExact

\* A thread starts the job at the front of the queue.
LEMMA TakeJobs ==
  ASSUME exitAll \in BOOLEAN, JobInv, NEW i \in Slots, BGTakeJob(i)
  PROVE  JobInv'
<1>1. /\ job' = [job EXCEPT ![i] = Head(queue)] /\ started' = Append(started, Head(queue))
      /\ queue' = Tail(queue) /\ queueLen' = Len(queue')
      /\ lowered' = [lowered EXCEPT ![i] = @ \cup low]
      /\ UNCHANGED <<low, accepted, cancelled, unsched, undone, dropped>>
  BY DEF BGTakeJob, StoredQueueLen
<1>2. queue # <<>>
  BY TakesFromQueue
<1>3. queue \in Seq(Jobs) /\ accepted \in Seq(Jobs) /\ started \in Seq(Jobs)
  BY DEF JobInv, JobTypeOK
<1>4. Head(queue) \in Jobs /\ Tail(queue) \in Seq(Jobs) /\ Head(queue) \in Elems(queue)
  <2>1. Len(queue) > 0 /\ Head(queue) = queue[1]
    BY <1>2, <1>3
  <2> QED BY <1>2, <1>3, <2>1 DEF Elems
<1>5. JobTypeOK'
  <2>1. lowered' \in [Slots -> SUBSET Kinds]
    BY <1>1 DEF JobInv, JobTypeOK
  <2>2. job' \in [Slots -> Jobs \cup {NoJob}]
    BY <1>1, <1>4 DEF JobInv, JobTypeOK
  <2> QED BY <1>1, <1>4, <2>1, <2>2 DEF JobInv, JobTypeOK
<1>6. started' \o queue' = started \o queue
  BY <1>1, <1>2, <1>3
<1>7. CancelledNeverRuns'
  <2>1. Head(queue) \notin cancelled
    BY <1>4, JobsApart
  <2>2. \A k \in 1 .. Len(started') : started'[k] = Head(queue) \/ \E l \in 1 .. Len(started) : started'[k] = started[l]
    BY <1>1, <1>3, <1>4
  <2> QED BY <1>1, <2>1, <2>2 DEF JobInv, CancelledNeverRuns
<1> QED
  BY <1>1, <1>5, <1>6, <1>7 DEF JobInv, FifoExactlyOnce, QueueLenExact

\* No other step moves a job.
LEMMA OtherJobs ==
  ASSUME JobInv,
         \/ SetBackgroundThreads \/ IncBackgroundThreadsIfNeeded
         \/ \E j \in Jobs : SubmitRefused(j) \/ RunUnschedFunction(j)
         \/ \E kind \in Kinds : LowerPriority(kind)
         \/ (\E wait \in JoinModes : JoinThreads(wait)) \/ Joiner
         \/ \E i \in Slots : \/ BGWait(i) \/ BGExit(i) \/ BGTerminateExcessive(i)
                             \/ BGFinishJob(i) \/ SpuriousWakeup(i)
         \/ UNCHANGED vars
  PROVE  JobInv'
<1> USE DEF
    SetBackgroundThreads, IncBackgroundThreadsIfNeeded, SetBackgroundThreadsInternal,
    SubmitRefused, RunUnschedFunction, LowerPriority, JoinThreads, Joiner, JoinNotify,
    JoinCall, JoinReturn, JoinDone, BGWait, BGExit, BGTerminateExcessive, BGFinishJob,
    SpuriousWakeup, vars, poolVars, bgVars, joinVars, history
<1>1. UNCHANGED <<queue, queueLen, accepted, started, cancelled>>
  OBVIOUS
<1>2. \/ UNCHANGED <<unsched, undone>>
      \/ \E j \in unsched : unsched' = unsched \ {j} /\ undone' = undone \cup {j}
  OBVIOUS
<1>3. \/ UNCHANGED job
      \/ \E i \in Slots : job' = [job EXCEPT ![i] = NoJob]
  OBVIOUS
<1>4. \/ UNCHANGED lowered
      \/ lowered' = [i \in Slots |-> {}]
      \/ \E i \in Slots : lowered' = [lowered EXCEPT ![i] = {}]
  OBVIOUS
<1>5. /\ low' = low \/ \E kind \in Kinds : low' = low \cup {kind}
      /\ dropped' = dropped \/ \E j \in Jobs : dropped' = dropped \cup {j}
  OBVIOUS
<1> HIDE DEF
    SetBackgroundThreads, IncBackgroundThreadsIfNeeded, SetBackgroundThreadsInternal,
    SubmitRefused, RunUnschedFunction, LowerPriority, JoinThreads, Joiner, JoinNotify,
    JoinCall, JoinReturn, JoinDone, BGWait, BGExit, BGTerminateExcessive, BGFinishJob,
    SpuriousWakeup, vars, poolVars, bgVars, joinVars, history
<1>6. JobTypeOK'
  <2>1. job' \in [Slots -> Jobs \cup {NoJob}]
    BY <1>3 DEF JobInv, JobTypeOK
  <2>2. lowered' \in [Slots -> SUBSET Kinds]
    BY <1>4 DEF JobInv, JobTypeOK
  <2>3. low' \subseteq Kinds /\ dropped' \subseteq Jobs
    BY <1>5 DEF JobInv, JobTypeOK
  <2>4. unsched' \subseteq Jobs /\ undone' \subseteq Jobs
    BY <1>2 DEF JobInv, JobTypeOK
  <2> QED BY <1>1, <2>1, <2>2, <2>3, <2>4 DEF JobInv, JobTypeOK
<1>7. CancelledNeverRuns'
  <2>1. unsched' \cap undone' = {} /\ unsched' \cup undone' = unsched \cup undone
    BY <1>2 DEF JobInv, CancelledNeverRuns
  <2> QED BY <1>1, <2>1 DEF JobInv, CancelledNeverRuns
<1> QED BY <1>1, <1>6, <1>7 DEF JobInv, FifoExactlyOnce, QueueLenExact

\* JobInv is an invariant of the pool.
LEMMA JobInvariance ==
  ASSUME ThreadPoolAssumption
  PROVE  Spec => []JobInv
<1>1. IInv /\ JobInv /\ [Next]_vars => JobInv'
  <2> SUFFICES ASSUME IInv, JobInv, [Next]_vars PROVE JobInv'
    OBVIOUS
  <2>1. ASSUME NEW j \in Jobs, Submit(j) PROVE JobInv'
    BY <2>1, SubmitJobs
  <2>2. ASSUME NEW tag \in Tags, UnSchedule(tag) PROVE JobInv'
    BY <2>2, UnScheduleJobs
  <2>3. ASSUME NEW i \in Slots, BGTakeJob(i) PROVE JobInv'
    BY <2>3, TakeJobs DEF IInv, ThreadTypeOK
  <2>4. CASE \/ SetBackgroundThreads \/ IncBackgroundThreadsIfNeeded
             \/ \E j \in Jobs : SubmitRefused(j) \/ RunUnschedFunction(j)
             \/ \E kind \in Kinds : LowerPriority(kind)
             \/ (\E wait \in JoinModes : JoinThreads(wait)) \/ Joiner
             \/ \E i \in Slots : \/ BGWait(i) \/ BGExit(i) \/ BGTerminateExcessive(i)
                                 \/ BGFinishJob(i) \/ SpuriousWakeup(i)
             \/ UNCHANGED vars
    BY <2>4, OtherJobs
  <2> QED BY <2>1, <2>2, <2>3, <2>4 DEF Next, Client, BGThread
<1> QED BY InitJobs, Invariance, <1>1, PTL DEF Spec

\* Every variable of the pool keeps its type, for every limit, thread count
\* and job set.
THEOREM PoolTypes ==
  ASSUME ThreadPoolAssumption
  PROVE  Spec => []TypeOK
  BY Invariance, JobInvariance, PTL DEF IInv, JobInv, TypeOK

\* Every accepted job has one fate, in the order of submission: whatever is
\* submitted, unscheduled, taken and joined, in whatever order.
THEOREM JobsHaveOneFate ==
  ASSUME ThreadPoolAssumption
  PROVE  Spec => []JobsAccounted
  BY JobInvariance, PTL DEF JobInv, JobsAccounted

-----------------------------------------------------------------------------
(* JoinAllThreads.                                                         *)

\* A joiner that does not wait for jobs walks over the threads it saw when it
\* began: the flags make every thread leave its loop by the exit branch,
\* which does not touch bgthreads_.
JoinRangeStable == jpc \in {"next", "join"} /\ ~waitJobs => jend = size

JoinInvariant == JoinRangeStable /\ JoinAllNeverThrows

\* Only JoinThreads sets the flags the walk depends on.
LEMMA JoinRangeInv ==
  ASSUME IInv, JoinInvariant, [Next]_vars
  PROVE  JoinInvariant'
<1> USE DEF JoinInvariant, JoinRangeStable, JoinAllNeverThrows
<1>1. ASSUME NEW i \in Slots, BGTerminateExcessive(i) PROVE JoinInvariant'
  BY <1>1 DEF BGTerminateExcessive, MustExit, IInv, JoinFlags, ThreadTypeOK, joinVars
<1>2. ASSUME NEW wait \in JoinModes, JoinThreads(wait) PROVE JoinInvariant'
  BY <1>2 DEF JoinThreads
<1>3. CASE JoinNotify
  BY <1>3 DEF JoinNotify, poolVars
<1>4. CASE JoinCall
  BY <1>4 DEF JoinCall, poolVars
<1>5. CASE JoinReturn
  BY <1>5 DEF JoinReturn, poolVars
<1>6. CASE JoinDone
  BY <1>6 DEF JoinDone
<1>7. CASE SetBackgroundThreads \/ IncBackgroundThreadsIfNeeded \/ \E j \in Jobs : Submit(j)
  <2>1. ~exitAll /\ UNCHANGED <<waitJobs, jpc, jend>>
    BY <1>7 DEF SetBackgroundThreads, IncBackgroundThreadsIfNeeded,
       SetBackgroundThreadsInternal, Submit, joinVars
  <2>2. jpc = "idle"
    BY <2>1 DEF IInv, JoinFlags
  <2> QED BY <2>1, <2>2
<1>8. CASE \/ \E j \in Jobs : SubmitRefused(j) \/ RunUnschedFunction(j)
           \/ \E tag \in Tags : UnSchedule(tag)
           \/ \E kind \in Kinds : LowerPriority(kind)
           \/ \E i \in Slots : \/ BGWait(i) \/ BGExit(i) \/ BGTakeJob(i)
                               \/ BGFinishJob(i) \/ SpuriousWakeup(i)
           \/ UNCHANGED vars
  <2>1. UNCHANGED <<size, waitJobs, jpc, jend>>
    BY <1>8 DEF SubmitRefused, RunUnschedFunction, UnSchedule, LowerPriority, BGWait, BGExit,
       BGTakeJob, BGFinishJob, SpuriousWakeup, vars, poolVars, bgVars, joinVars
  <2> QED BY <2>1
<1> QED
  BY <1>1, <1>2, <1>3, <1>4, <1>5, <1>6, <1>7, <1>8
  DEF Next, Client, Joiner, BGThread

\* JoinAllThreads never calls join on a thread object that has left
\* bgthreads_, for every limit, thread count and job set.  Of
\* WaitForJobsAndJoinAllThreads this is not true.
THEOREM JoinAllIsSafe ==
  ASSUME ThreadPoolAssumption
  PROVE  Spec => []JoinAllNeverThrows
<1>1. Init => JoinInvariant
  BY DEF Init, JoinInvariant, JoinRangeStable, JoinAllNeverThrows
<1>2. Spec => []JoinInvariant
  BY <1>1, Invariance, JoinRangeInv, PTL DEF Spec
<1> QED BY <1>2, PTL DEF JoinInvariant

=============================================================================
