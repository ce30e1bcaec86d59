------------------------- MODULE BGThreadPoolProofs -------------------------
(***************************************************************************)
(* BGThreadPool, for every number of threads, tasks and timers: the books  *)
(* are exact, whatever may run is watched, Stop(true) covers the tasks it  *)
(* found pending and, with one thread, CancelTask the task it names.       *)
(***************************************************************************)
EXTENDS BGThreadPool, FiniteSetTheorems, WellFoundedInduction, TLAPS

Works == Tasks \cup Ids     \* what a thread runs
Items == [id : Ids, exe : Nat]

-----------------------------------------------------------------------------
(* Sequences.                                                              *)

LEMMA AppendFacts ==
  ASSUME NEW S, NEW s \in Seq(S), NEW x \in S
  PROVE  /\ Append(s, x) \in Seq(S) /\ Len(s) \in Nat
         /\ Len(Append(s, x)) = Len(s) + 1
         /\ \A k \in 1 .. Len(s) : Append(s, x)[k] = s[k]
         /\ Append(s, x)[Len(s) + 1] = x
  OBVIOUS

LEMMA PrependFacts ==
  ASSUME NEW S, NEW s \in Seq(S), NEW x \in S
  PROVE  /\ <<x>> \o s \in Seq(S) /\ Len(s) \in Nat
         /\ Len(<<x>> \o s) = Len(s) + 1
         /\ \A k \in 1 .. Len(s) : (<<x>> \o s)[k + 1] = s[k]
         /\ (<<x>> \o s)[1] = x
  OBVIOUS

LEMMA TailFacts ==
  ASSUME NEW S, NEW s \in Seq(S), s # <<>>
  PROVE  /\ Tail(s) \in Seq(S) /\ Len(s) \in Nat \ {0} /\ Head(s) \in S
         /\ Len(Tail(s)) = Len(s) - 1 /\ Head(s) = s[1]
         /\ \A k \in 1 .. Len(s) - 1 : Tail(s)[k] = s[k + 1]
  OBVIOUS

LEMMA EmptyFacts ==
  ASSUME NEW S, NEW s \in Seq(S)
  PROVE  (s = <<>>) <=> Len(s) = 0
  OBVIOUS

-----------------------------------------------------------------------------
(* The top of the heap is a least element, ids breaking ties.              *)

LEMMA LeastNumber ==
  ASSUME NEW T \in SUBSET Nat, T # {}
  PROVE  \E x \in T : \A y \in T : x <= y
<1> DEFINE R == OpToRel(<, Nat)
<1>1. IsWellFoundedOn(R, Nat)
  BY NatLessThanWellFounded
<1>2. \A x, y \in Nat : y < x => <<y, x>> \in R
  BY DEF OpToRel
<1> HIDE DEF R
<1>3. PICK x \in T : \A y \in T : ~(<<y, x>> \in R)
  BY <1>1, WFMin
<1>4. \A y \in T : ~(y < x)
  BY <1>2, <1>3, Zenon
<1> QED BY <1>4

LEMMA TopIsLeast ==
  ASSUME BGPoolAssumption, NEW hp \in SUBSET Items, hp # {}
  PROVE  /\ Top(hp) \in hp /\ Top(hp).id \in Ids /\ Top(hp).exe \in Nat
         /\ \A b \in hp : Top(hp).exe <= b.exe
<1>1. \A a \in hp : a.id \in Nat /\ a.id \in Ids /\ a.exe \in Nat
  BY DEF Items, Ids, BGPoolAssumption
<1>2. PICK m \in {a.exe : a \in hp} : \A y \in {a.exe : a \in hp} : m <= y
  <2> DEFINE T == {a.exe : a \in hp}
  <2>1. T \in SUBSET Nat
    BY <1>1
  <2>2. T # {}
    OBVIOUS
  <2> HIDE DEF T
  <2>3. \E m \in T : \A y \in T : m <= y
    BY <2>1, <2>2, LeastNumber
  <2> QED BY <2>3 DEF T
<1> DEFINE First == {a \in hp : a.exe = m}
<1>0. PICK a0 \in hp : a0.exe = m
  BY <1>2
<1>3. PICK i \in {a.id : a \in First} : \A y \in {a.id : a \in First} : i <= y
  <2> DEFINE T == {a.id : a \in First}
  <2>1. T \in SUBSET Nat
    BY <1>1
  <2>2. a0.id \in T
    BY <1>0
  <2> HIDE DEF T
  <2>3. \E i \in T : \A y \in T : i <= y
    BY <2>1, <2>2, LeastNumber
  <2> QED BY <2>3 DEF T
<1>4. PICK a \in First : a.id = i
  BY <1>3
<1>5. ASSUME NEW b \in hp \ {a} PROVE Before(a, b)
  <2>1. m <= b.exe /\ m \in Nat /\ b.exe \in Nat /\ a.exe = m
    BY <1>1, <1>2, <1>4
  <2>2. CASE b.exe = m
    <3>1. i <= b.id /\ i \in Nat /\ b.id \in Nat
      BY <1>1, <1>3, <1>4, <2>2
    <3>2. b.id # i
      BY <1>4, <1>5, <2>2 DEF Items
    <3> QED BY <1>4, <2>1, <2>2, <3>1, <3>2 DEF Before
  <2>3. CASE b.exe # m
    BY <2>1, <2>3 DEF Before
  <2> QED BY <2>2, <2>3
<1>6. /\ Top(hp) \in hp
      /\ \A b \in hp \ {Top(hp)} : Before(Top(hp), b)
  BY <1>4, <1>5 DEF Top
<1>7. ASSUME NEW b \in hp PROVE Top(hp).exe <= b.exe
  BY <1>1, <1>6 DEF Before
<1> QED BY <1>1, <1>6, <1>7

-----------------------------------------------------------------------------
(* Whatever may run is watched.                                            *)

ThreadStates == {"none", "check", "wait", "timed", "run", "count", "relock", "exited"}

ThreadTypes ==
  /\ pc \in [Threads -> ThreadStates] /\ deadline \in [Threads -> Int]
  /\ stop \in BOOLEAN /\ now \in 0 .. MaxTime
  /\ spc \in {"idle", "poll", "stop", "join"}
  /\ heap \in SUBSET Items

\* Somebody is awake after work_cv_.signal() if there is a thread at all, and
\* whoever was awake stays so.
LEMMA SignalWakes ==
  ASSUME NEW p \in [Threads -> ThreadStates], NEW q \in Signal(p)
  PROVE  /\ q \in [Threads -> ThreadStates]
         /\ \A w \in Threads : q[w] = p[w] \/ (p[w] \in {"wait", "timed"} /\ q[w] = "check")
         /\ (\E w \in Threads : p[w] \notin {"none", "exited"})
              => \E w \in Threads : q[w] \in {"check", "run", "count", "relock"}
<1>1. CASE Asleep(p) = {}
  BY <1>1 DEF Signal, Asleep, ThreadStates
<1>2. CASE Asleep(p) # {}
  <2>1. PICK w \in Threads : p[w] \in {"wait", "timed"} /\ q = [p EXCEPT ![w] = "check"]
    BY <1>2 DEF Signal, Asleep
  <2> QED BY <2>1 DEF ThreadStates
<1> QED BY <1>1, <1>2

LEMMA BroadcastWakes ==
  ASSUME NEW p \in [Threads -> ThreadStates]
  PROVE  /\ Broadcast(p) \in [Threads -> ThreadStates]
         /\ \A w \in Threads : \/ Broadcast(p)[w] = p[w]
                               \/ p[w] \in {"wait", "timed"} /\ Broadcast(p)[w] = "check"
  BY DEF Broadcast, Asleep, ThreadStates

LEMMA Quotient ==
  ASSUME NEW d \in Nat, NEW n \in Nat, n # 0
  PROVE  /\ d \div n \in Int /\ (d \div n) * n \in Int /\ (d \div n) * n <= d
         /\ d \div n <= 0 => d < n
<1>1. (d \div n) \in Int
  OBVIOUS
<1>2. (d \div n) * n <= d
  OBVIOUS
<1>3. (d \div n) <= 0 => d < n
  OBVIOUS
<1> QED BY <1>1, <1>2, <1>3

\* The timed wait ends no later than the deadline it was computed from.
LEMMA WaitsNotPast ==
  ASSUME BGPoolAssumption, NEW exe \in Nat, NEW t \in Nat, ~Due(exe, t)
  PROVE  t + WaitTime(exe, t) * TickMs <= exe /\ t + WaitTime(exe, t) * TickMs \in Int
<1>1. exe > t /\ WaitTime(exe, t) = (exe - t) \div TickMs
  BY DEF Due, WaitTime
<1>2. exe - t \in Nat /\ TickMs \in Nat /\ TickMs # 0
  BY <1>1 DEF BGPoolAssumption
<1>3. PICK k : k = ((exe - t) \div TickMs) * TickMs
  OBVIOUS
<1>4. k \in Int /\ k <= exe - t
  BY <1>2, <1>3, Quotient
<1>5. WaitTime(exe, t) * TickMs = k
  BY <1>1, <1>3
<1> QED BY <1>4, <1>5

\* A timer that is taken is at most a millisecond early.
LEMMA DueInTime ==
  ASSUME BGPoolAssumption, NEW exe \in Nat, NEW t \in Nat, Due(exe, t)
  PROVE  t + TickMs > exe
<1>1. TickMs \in Nat /\ TickMs # 0
  BY DEF BGPoolAssumption
<1>2. CASE exe > t
  <2>1. (exe - t) \div TickMs <= 0
    BY <1>2 DEF Due, WaitTime
  <2>2. exe - t \in Nat
    BY <1>2
  <2>3. exe - t < TickMs
    BY <1>1, <2>1, <2>2, Quotient
  <2> QED BY <1>1, <2>3
<1> QED BY <1>1, <1>2

\* What the clients and the threads may change of the types.
LEMMA ThreadTypesStep ==
  ASSUME BGPoolAssumption, ThreadTypes, lastId \in 0 .. MaxDelayed, [Next]_vars
  PROVE  ThreadTypes'
<1> USE DEF ThreadTypes
<1>0. now \in Nat /\ MaxTime \in Nat /\ TickMs \in Nat
  BY DEF BGPoolAssumption
<1>1. CASE UNCHANGED vars
  BY <1>1 DEF vars, thrVars, stopVars, timerVars
<1>2. CASE Tick
  BY <1>0, <1>2 DEF Tick, thrVars, stopVars, timerVars
<1>3. CASE Start
  BY <1>3 DEF Start, stopVars, timerVars, ThreadStates
<1>4. CASE \E wait \in BOOLEAN : StopCall(wait)
  BY <1>4 DEF StopCall, thrVars, timerVars
<1>5. CASE StopPoll
  BY <1>5 DEF StopPoll, thrVars, timerVars
<1>6. CASE StopSet
  BY <1>6, BroadcastWakes DEF StopSet, StopBroadcast, timerVars
<1>7. CASE StopJoined
  BY <1>7 DEF StopJoined, timerVars, ThreadStates
<1>8. CASE \E t \in Normal : AddTask(t)
  <2>1. pc' \in Signal(pc) /\ UNCHANGED <<deadline, stop, now, spc, heap>>
    BY <1>8 DEF AddTask, AddSignal, stopVars, timerVars
  <2> QED BY <2>1, SignalWakes
<1>9. CASE \E t \in Urgent : AddPriorityTask(t)
  <2>1. pc' \in Signal(pc) /\ UNCHANGED <<deadline, stop, now, spc, heap>>
    BY <1>9 DEF AddPriorityTask, AddSignal, stopVars, timerVars
  <2> QED BY <2>1, SignalWakes
<1>10. CASE \E delay \in Delays : DelayTask(delay)
  <2>1. PICK delay \in Delays : DelayTask(delay)
    BY <1>10
  <2>2. pc' \in Signal(pc) /\ UNCHANGED <<deadline, stop, now, spc>>
    BY <2>1 DEF DelayTask, DelaySignal, stopVars
  <2>3. heap' = heap \cup {[id |-> lastId + 1, exe |-> now + delay * TickMs]} /\ lastId < MaxDelayed
    BY <2>1 DEF DelayTask
  <2>4. delay \in Nat /\ MaxDelayed \in Nat
    BY DEF BGPoolAssumption
  <2>5. delay * TickMs \in Nat
    BY <1>0, <2>4
  <2>6. now + delay * TickMs \in Nat /\ lastId + 1 \in Ids
    BY <1>0, <2>3, <2>4, <2>5 DEF Ids
  <2>7. heap' \in SUBSET Items
    BY <2>3, <2>6 DEF Items
  <2> QED BY <2>2, <2>7, SignalWakes
<1>11. CASE \E id \in Ids, nb \in Cancels : CancelTask(id, nb)
  BY <1>11 DEF CancelTask, thrVars, timerVars, stopVars
<1>12. CASE CancelStep
  BY <1>12 DEF CancelStep, thrVars, stopVars
<1>13. CASE ProfilingLog
  BY <1>13 DEF ProfilingLog, thrVars, timerVars, stopVars
<1>14. CASE \E w \in Threads : ThreadProc(w) \/ SpuriousWakeup(w)
  <2>1. PICK w \in Threads : ThreadProc(w) \/ SpuriousWakeup(w)
    BY <1>14
  <2>2. CASE ThreadWait(w)
    BY <2>2 DEF ThreadWait, timerVars, stopVars, ThreadStates
  <2>3. CASE ThreadExit(w)
    BY <2>3 DEF ThreadExit, timerVars, stopVars, ThreadStates
  <2>4. CASE ThreadTimer(w)
    <3>1. heap' \in SUBSET heap /\ deadline' = [deadline EXCEPT ![w] = 0]
          /\ pc' \in {pc, [pc EXCEPT ![w] = "run"]} /\ UNCHANGED <<stop, now, spc>>
      BY <2>4 DEF ThreadTimer, stopVars
    <3> QED BY <3>1 DEF ThreadStates
  <2>5. CASE ThreadTimedWait(w)
    <3>1. heap # {} /\ ~Due(Top(heap).exe, now)
      BY <2>5 DEF ThreadTimedWait, TimerDue
    <3>2. now + WaitTime(Top(heap).exe, now) * TickMs \in Int
      BY <1>0, <3>1, TopIsLeast, WaitsNotPast
    <3> QED BY <2>5, <3>2 DEF ThreadTimedWait, timerVars, stopVars, ThreadStates
  <2>6. CASE ThreadTask(w)
    BY <2>6 DEF ThreadTask, timerVars, stopVars, ThreadStates
  <2>7. CASE TaskReturns(w)
    BY <2>7 DEF TaskReturns, timerVars, stopVars, ThreadStates
  <2>8. CASE TaskCounted(w)
    BY <2>8 DEF TaskCounted, timerVars, stopVars, ThreadStates
  <2>9. CASE Relock(w)
    BY <2>9 DEF Relock, timerVars, stopVars, ThreadStates
  <2>10. CASE WaitTimeout(w) \/ SpuriousWakeup(w)
    BY <2>10 DEF WaitTimeout, SpuriousWakeup, timerVars, stopVars, ThreadStates
  <2> QED BY <2>1, <2>2, <2>3, <2>4, <2>5, <2>6, <2>7, <2>8, <2>9, <2>10 DEF ThreadProc
<1> QED
  BY <1>1, <1>2, <1>3, <1>4, <1>5, <1>6, <1>7, <1>8, <1>9, <1>10, <1>11, <1>12, <1>13, <1>14
     DEF Next, Stopper

\* The step of the watch: a thread falls asleep only when it has seen that
\* there is nothing for it, or until the earliest deadline; whoever brings
\* something signals.
LEMMA WatchedStep ==
  ASSUME BGPoolAssumption, ThreadTypes, Watched, [Next]_vars
  PROVE  Watched'
<1> USE DEF Watched, TaskWatched, TimerWatched, Live, Awake
<1>0. now \in Nat /\ pc \in [Threads -> ThreadStates] /\ deadline \in [Threads -> Int]
  BY DEF ThreadTypes, BGPoolAssumption
<1>1. CASE UNCHANGED vars
  BY <1>1 DEF vars, thrVars, queueVars, timerVars
<1>2. CASE Tick
  BY <1>2 DEF Tick, thrVars, queueVars, timerVars
<1>3. CASE Start
  BY <1>3 DEF Start, Threads, BGPoolAssumption
<1>4. CASE \E wait \in BOOLEAN : StopCall(wait)
  BY <1>4 DEF StopCall, thrVars, queueVars, timerVars
<1>5. CASE StopPoll
  BY <1>5 DEF StopPoll, thrVars, queueVars, timerVars
<1>6. CASE StopSet
  BY <1>6 DEF StopSet
<1>7. CASE StopJoined
  BY <1>7 DEF StopJoined
<1>8. CASE \/ \E t \in Normal : AddTask(t)
           \/ \E t \in Urgent : AddPriorityTask(t)
           \/ \E delay \in Delays : DelayTask(delay)
  <2>1. pc' \in Signal(pc)
    BY <1>8 DEF AddTask, AddPriorityTask, DelayTask, AddSignal, DelaySignal
  <2>2. Live' => \E w \in Threads : pc'[w] \in {"check", "run", "count", "relock"}
    BY <1>0, <2>1, SignalWakes DEF ThreadStates
  <2> QED BY <2>2
<1>11. CASE \E id \in Ids, nb \in Cancels : CancelTask(id, nb)
  BY <1>11 DEF CancelTask, thrVars, queueVars, timerVars
<1>12. CASE CancelStep
  BY <1>12 DEF CancelStep, thrVars, queueVars
<1>13. CASE ProfilingLog
  BY <1>13 DEF ProfilingLog, thrVars, queueVars, timerVars
<1>14. CASE \E w \in Threads : ThreadProc(w) \/ SpuriousWakeup(w)
  <2>1. PICK w \in Threads : ThreadProc(w) \/ SpuriousWakeup(w)
    BY <1>14
  <2>2. CASE ThreadWait(w)
    BY <2>2 DEF ThreadWait, Idle, queueVars, timerVars
  <2>3. CASE ThreadExit(w)
    BY <2>3 DEF ThreadExit
  <2>4. CASE ThreadTimer(w)
    <3>1. pc'[w] \in {"check", "run"}
      BY <1>0, <2>4 DEF ThreadTimer
    <3> QED BY <3>1
  <2>5. CASE ThreadTimedWait(w)
    <3>1. heap # {} /\ ~Due(Top(heap).exe, now) /\ heap \in SUBSET Items
      BY <2>5 DEF ThreadTimedWait, TimerDue, ThreadTypes
    <3>2. now + WaitTime(Top(heap).exe, now) * TickMs <= Top(heap).exe
      BY <1>0, <3>1, TopIsLeast, WaitsNotPast
    <3>3. pc'[w] = "timed" /\ deadline'[w] <= Top(heap).exe /\ heap' = heap
      BY <1>0, <2>5, <3>2 DEF ThreadTimedWait, timerVars
    <3>4. queue' = <<>>
      BY <2>5 DEF ThreadTimedWait, queueVars
    <3> QED BY <3>3, <3>4
  <2>6. CASE ThreadTask(w) \/ TaskReturns(w) \/ TaskCounted(w) \/ Relock(w)
             \/ WaitTimeout(w) \/ SpuriousWakeup(w)
    <3>1. pc'[w] \in {"check", "run", "count", "relock"}
      BY <1>0, <2>6 DEF ThreadTask, TaskReturns, TaskCounted, Relock, WaitTimeout, SpuriousWakeup
    <3> QED BY <3>1
  <2> QED BY <2>1, <2>2, <2>3, <2>4, <2>5, <2>6 DEF ThreadProc
<1> QED
  BY <1>1, <1>2, <1>3, <1>4, <1>5, <1>6, <1>7, <1>8, <1>11, <1>12, <1>13, <1>14
     DEF Next, Stopper

-----------------------------------------------------------------------------
(* The books of the delayed tasks.                                         *)

Once(s) == \A k, l \in 1 .. Len(s) : s[k] = s[l] => k = l

TimerTypes ==
  /\ heap \in SUBSET Items
  /\ lastId \in 0 .. MaxDelayed /\ running \in 0 .. MaxDelayed
  /\ latest \in SUBSET Ids /\ cancelled \in SUBSET Ids
  /\ exeOf \in [Ids -> Nat] /\ firedAt \in [Ids -> Nat] /\ now \in Nat

\* An item of the heap is the task its id names, so no two have the same id;
\* a task in latest_ is in the heap.
HeapBooks ==
  /\ \A a \in heap : a.id <= lastId /\ a.exe = exeOf[a.id]
  /\ \A id \in latest : \E a \in heap : a.id = id

\* A task waits, or CancelTask took it, or it was started.
Fates ==
  /\ \A id \in Ids : id \in Elements(started)
       => /\ id <= lastId /\ id \notin latest /\ id \notin cancelled
          /\ firedAt[id] + TickMs > exeOf[id]
  /\ \A id \in cancelled : id <= lastId /\ id \notin latest
  /\ \A id \in 1 .. lastId : id \in latest \/ id \in cancelled \/ id \in Elements(started)

TimerBooks == TimerTypes /\ HeapBooks /\ Fates

\* The range of a sequence that grew.
LEMMA RangeAppend ==
  ASSUME NEW S, NEW s \in Seq(S), NEW x \in S
  PROVE  /\ Elements(Append(s, x)) = Elements(s) \cup {x}
         /\ Once(s) /\ x \notin Elements(s) => Once(Append(s, x))
<1>1. /\ Len(s) \in Nat /\ Len(Append(s, x)) = Len(s) + 1
      /\ \A k \in 1 .. Len(s) : Append(s, x)[k] = s[k]
      /\ Append(s, x)[Len(s) + 1] = x
  BY AppendFacts
<1> DEFINE t == Append(s, x)
           n == Len(s)
<1> HIDE DEF t, n
<1>2. n \in Nat /\ Len(t) = n + 1 /\ t[n + 1] = x /\ \A k \in 1 .. n : t[k] = s[k]
  BY <1>1 DEF t, n
<1>3. Elements(t) = Elements(s) \cup {x}
  <2>1. ASSUME NEW y \in Elements(t) PROVE y \in Elements(s) \cup {x}
    BY <1>2 DEF Elements, n
  <2>2. ASSUME NEW y \in Elements(s) \cup {x} PROVE y \in Elements(t)
    <3>1. CASE y = x
      BY <1>2, <3>1 DEF Elements
    <3>2. CASE y \in Elements(s)
      BY <1>2, <3>2 DEF Elements, n
    <3> QED BY <3>1, <3>2
  <2> QED BY <2>1, <2>2
<1>4. ASSUME Once(s), x \notin Elements(s) PROVE Once(t)
  BY <1>2, <1>4 DEF Once, Elements, n
<1> QED BY <1>3, <1>4 DEF t

\* A delayed task enters the books.
LEMMA DelayBooks ==
  ASSUME BGPoolAssumption, TimerBooks, NEW delay \in Delays, DelayTask(delay)
  PROVE  TimerBooks'
<1> DEFINE id == lastId + 1
           exe == now + delay * TickMs
<1>1. /\ lastId' = id /\ heap' = heap \cup {[id |-> id, exe |-> exe]}
      /\ latest' = latest \cup {id} /\ exeOf' = [exeOf EXCEPT ![id] = exe]
      /\ lastId < MaxDelayed
  BY DEF DelayTask
<1>2. UNCHANGED <<running, now, cancelled, started, firedAt>>
  BY DEF DelayTask
<1>3. delay * TickMs \in Nat /\ TickMs \in Nat /\ MaxDelayed \in Nat
  <2>1. delay \in Nat /\ TickMs \in Nat /\ MaxDelayed \in Nat
    BY DEF BGPoolAssumption
  <2> QED BY <2>1
<1>4. exe \in Nat /\ id \in Ids /\ id \in Nat /\ lastId \in Nat
  BY <1>1, <1>3 DEF TimerBooks, TimerTypes, Ids
<1> HIDE DEF exe
<1>5. TimerTypes'
  <2>0. TimerTypes
    BY DEF TimerBooks
  <2>1. heap' \in SUBSET Items
    BY <1>1, <1>4, <2>0 DEF TimerTypes, Items
  <2>2. lastId' \in 0 .. MaxDelayed
    BY <1>1, <1>3, <1>4
  <2>3. latest' \in SUBSET Ids /\ exeOf' \in [Ids -> Nat]
    BY <1>1, <1>4, <2>0 DEF TimerTypes
  <2> QED BY <1>2, <2>0, <2>1, <2>2, <2>3 DEF TimerTypes
<1>6. \A i \in Ids : i <= lastId => i # id /\ exeOf'[i] = exeOf[i]
  BY <1>1, <1>4 DEF TimerBooks, TimerTypes, Ids
<1>7. HeapBooks'
  <2>1. ASSUME NEW a \in heap' PROVE a.id <= id /\ a.exe = exeOf'[a.id]
    <3>1. CASE a \in heap
      <4>1. a.id \in Ids /\ a.id <= lastId /\ a.exe = exeOf[a.id]
        BY <3>1 DEF TimerBooks, TimerTypes, HeapBooks, Items
      <4> QED BY <1>3, <1>4, <1>6, <4>1 DEF Ids
    <3>2. CASE a = [id |-> id, exe |-> exe]
      BY <1>1, <1>4, <3>2 DEF TimerBooks, TimerTypes
    <3> QED BY <1>1, <3>1, <3>2
  <2>2. ASSUME NEW i \in latest' PROVE \E a \in heap' : a.id = i
    <3>1. CASE i \in latest
      <4>1. PICK a \in heap : a.id = i
        BY <3>1 DEF TimerBooks, HeapBooks
      <4> QED BY <1>1, <4>1
    <3>2. CASE i = id
      <4>1. [id |-> id, exe |-> exe] \in heap' /\ [id |-> id, exe |-> exe].id = i
        BY <1>1, <3>2
      <4> QED BY <4>1
    <3> QED BY <1>1, <3>1, <3>2
  <2> QED BY <1>1, <2>1, <2>2 DEF HeapBooks
<1>8. Fates'
  <2>1. \A i \in Ids : i \in Elements(started) => i <= lastId
    BY DEF TimerBooks, Fates
  <2>2. id \notin Elements(started) /\ id \notin cancelled
    BY <1>4, <2>1 DEF TimerBooks, Fates
  <2>3. ASSUME NEW i \in Ids, i \in Elements(started)'
        PROVE  /\ i <= id /\ i \notin latest' /\ i \notin cancelled'
               /\ firedAt'[i] + TickMs > exeOf'[i]
    <3>1. i \in Elements(started)
      BY <1>2, <2>3 DEF Elements
    <3> QED BY <1>1, <1>2, <1>4, <1>6, <2>2, <3>1 DEF TimerBooks, Fates, Ids
  <2>4. \A i \in cancelled' : i <= id /\ i \notin latest'
    BY <1>1, <1>2, <1>4, <2>2 DEF TimerBooks, Fates, TimerTypes, Ids
  <2>5. ASSUME NEW i \in 1 .. id PROVE i \in latest' \/ i \in cancelled' \/ i \in Elements(started)'
    <3>1. CASE i = id
      BY <1>1, <3>1
    <3>2. CASE i \in 1 .. lastId
      BY <1>1, <1>2, <3>2 DEF TimerBooks, Fates, Elements
    <3> QED BY <1>4, <3>1, <3>2
  <2> QED BY <1>1, <2>3, <2>4, <2>5 DEF Fates
<1> QED BY <1>5, <1>7, <1>8 DEF TimerBooks

LEMMA CancelBooks ==
  ASSUME BGPoolAssumption, TimerBooks, CancelStep
  PROVE  TimerBooks'
<1>1. /\ \/ latest' = latest /\ cancelled' = cancelled
         \/ cancel.id \in latest /\ latest' = latest \ {cancel.id}
            /\ cancelled' = cancelled \cup {cancel.id}
  BY DEF CancelStep
<1>2. UNCHANGED <<heap, lastId, exeOf, running, now, started, firedAt>>
  BY DEF CancelStep
<1>3. TimerTypes'
  BY <1>1, <1>2 DEF TimerBooks, TimerTypes
<1>4. HeapBooks'
  BY <1>1, <1>2 DEF TimerBooks, HeapBooks
<1>5. \A id \in latest : id <= lastId
  BY DEF TimerBooks, HeapBooks
<1>6. Fates'
  BY <1>1, <1>2, <1>5 DEF TimerBooks, Fates, Elements, TimerTypes
<1> QED BY <1>3, <1>4, <1>6 DEF TimerBooks

\* A timer leaves the heap; it is started unless it was cancelled.
LEMMA TimerTaken ==
  ASSUME BGPoolAssumption, TimerBooks, started \in Seq(Works), Once(started),
         NEW w \in Threads, ThreadTimer(w)
  PROVE  /\ TimerBooks' /\ started' \in Seq(Works) /\ Once(started')
         /\ \A t \in Tasks : t \in Elements(started') => t \in Elements(started)
<1> DEFINE top == Top(heap)
<1>1. heap # {} /\ Due(top.exe, now)
  BY DEF ThreadTimer, TimerDue
<1>2. top \in heap /\ top.id \in Ids /\ top.exe \in Nat /\ now \in Nat
  BY <1>1, TopIsLeast DEF TimerBooks, TimerTypes
<1>3. top.id <= lastId /\ top.exe = exeOf[top.id]
  BY <1>2 DEF TimerBooks, HeapBooks
<1>4. now + TickMs > exeOf[top.id]
  BY <1>1, <1>2, <1>3, DueInTime
<1>5. /\ heap' = heap \ {top} /\ latest' = latest \ {top.id}
      /\ UNCHANGED <<lastId, exeOf, now, cancelled>>
  BY DEF ThreadTimer
<1>6. \/ /\ top.id \in latest /\ running' = top.id /\ started' = Append(started, top.id)
         /\ firedAt' = [firedAt EXCEPT ![top.id] = now]
      \/ top.id \notin latest /\ running' = running /\ started' = started /\ firedAt' = firedAt
  BY DEF ThreadTimer, NotCancelled, MarkRunning
<1>7. HeapBooks'
  <2>1. \A a \in heap : a.id = top.id => a = top
    BY <1>2 DEF TimerBooks, TimerTypes, HeapBooks, Items
  <2> HIDE DEF top
  <2>2. \A id \in latest' : \E a \in heap' : a.id = id
    BY <1>5, <2>1 DEF TimerBooks, HeapBooks
  <2>3. \A a \in heap' : a.id <= lastId' /\ a.exe = exeOf'[a.id]
    BY <1>5 DEF TimerBooks, HeapBooks
  <2> QED BY <2>2, <2>3 DEF HeapBooks
<1> HIDE DEF top
<1>8. TickMs \in Nat /\ MaxDelayed \in Nat /\ Ids \subseteq Nat
  BY DEF BGPoolAssumption, Ids
<1>9. CASE /\ top.id \in latest /\ running' = top.id /\ started' = Append(started, top.id)
           /\ firedAt' = [firedAt EXCEPT ![top.id] = now]
  <2>1. Elements(started') = Elements(started) \cup {top.id} /\ top.id \notin Elements(started)
    <3>1. top.id \in Works
      BY <1>2 DEF Works
    <3>2. top.id \notin Elements(started)
      BY <1>2, <1>9 DEF TimerBooks, Fates
    <3> QED BY <1>9, <3>1, <3>2, RangeAppend
  <2>2. started' \in Seq(Works) /\ Once(started')
    BY <1>2, <1>9, <2>1, RangeAppend, AppendFacts DEF Works
  <2>3. TimerTypes'
    <3>1. firedAt' \in [Ids -> Nat]
      BY <1>2, <1>9 DEF TimerBooks, TimerTypes
    <3>2. running' \in 0 .. MaxDelayed
      BY <1>2, <1>8, <1>9 DEF Ids
    <3>3. /\ heap' \in SUBSET Items /\ latest' \in SUBSET Ids /\ lastId' \in 0 .. MaxDelayed
          /\ cancelled' \in SUBSET Ids /\ exeOf' \in [Ids -> Nat] /\ now' \in Nat
      BY <1>5 DEF TimerBooks, TimerTypes
    <3> QED BY <3>1, <3>2, <3>3 DEF TimerTypes
  <2>4. \A id \in Ids : id # top.id => firedAt'[id] = firedAt[id]
    BY <1>9 DEF TimerBooks, TimerTypes
  <2>5. firedAt'[top.id] = now
    BY <1>2, <1>9 DEF TimerBooks, TimerTypes
  <2>6. Elements(started)' = Elements(started')
    BY DEF Elements
  <2>7. \A id \in Ids : id \in Elements(started)
         => /\ id <= lastId /\ id \notin latest /\ id \notin cancelled
            /\ firedAt[id] + TickMs > exeOf[id]
    BY DEF TimerBooks, Fates
  <2>8. \A id \in cancelled : id <= lastId /\ id \notin latest
    BY DEF TimerBooks, Fates
  <2>9. \A id \in Ids : id \in Elements(started')
         => /\ id <= lastId' /\ id \notin latest' /\ id \notin cancelled'
            /\ firedAt'[id] + TickMs > exeOf'[id]
    <3> SUFFICES ASSUME NEW id \in Ids, id \in Elements(started')
                 PROVE  /\ id <= lastId' /\ id \notin latest' /\ id \notin cancelled'
                        /\ firedAt'[id] + TickMs > exeOf'[id]
      OBVIOUS
    <3>1. CASE id = top.id
      <4>1. id <= lastId' /\ firedAt'[id] + TickMs > exeOf'[id]
        BY <1>3, <1>4, <1>5, <2>5, <3>1
      <4>2. id \notin latest' /\ id \notin cancelled'
        BY <1>5, <1>9, <2>8, <3>1
      <4> QED BY <4>1, <4>2
    <3>2. CASE id # top.id
      <4>1. id \in Elements(started)
        BY <2>1, <3>2
      <4> QED BY <1>5, <2>4, <2>7, <3>2, <4>1
    <3> QED BY <3>1, <3>2
  <2>10. \A id \in cancelled' : id <= lastId' /\ id \notin latest'
    BY <1>5, <2>8
  <2>11. \A id \in 1 .. lastId' : id \in latest' \/ id \in cancelled' \/ id \in Elements(started')
    <3>1. \A id \in 1 .. lastId : id \in latest \/ id \in cancelled \/ id \in Elements(started)
      BY DEF TimerBooks, Fates
    <3> QED BY <1>5, <2>1, <3>1
  <2>12. Fates'
    BY <2>6, <2>9, <2>10, <2>11 DEF Fates
  <2>13. top.id \notin Tasks
    BY <1>2 DEF BGPoolAssumption, Tasks, Ids
  <2> QED BY <1>7, <2>1, <2>2, <2>3, <2>12, <2>13 DEF TimerBooks
<1>10. CASE top.id \notin latest /\ running' = running /\ started' = started /\ firedAt' = firedAt
  <2>1. TimerTypes'
    BY <1>5, <1>10 DEF TimerBooks, TimerTypes
  <2>2. latest' = latest
    BY <1>5, <1>10
  <2>3. Fates'
    BY <1>5, <1>10, <2>2 DEF TimerBooks, Fates, Elements
  <2> QED BY <1>7, <1>10, <2>1, <2>3 DEF TimerBooks
<1> QED BY <1>6, <1>9, <1>10

-----------------------------------------------------------------------------
(* The books of the other tasks.                                           *)

\* The deque holds each task once, those that were accepted and not started;
\* of two ordinary tasks in it the one accepted first is in front.
QueueBooks ==
  /\ accepted \in Seq(Tasks) /\ queue \in Seq(Tasks) /\ pending = Len(queue)
  /\ Once(queue)
  /\ \A t \in Elements(queue) : t \in Elements(accepted) /\ t \notin Elements(started)
  /\ \A t \in Tasks : t \in Elements(started) => t \in Elements(accepted)
  /\ \A t \in Elements(accepted) : t \in Elements(queue) \/ t \in Elements(started)

SameOrder(a, q) ==
  \A i, j \in 1 .. Len(a), k, l \in 1 .. Len(q) :
    /\ i < j /\ a[i] \in Normal /\ a[j] \in Normal /\ q[k] = a[i] /\ q[l] = a[j]
    => k < l

QueueOrder == SameOrder(accepted, queue)

StartOrder ==
  \A i, j \in 1 .. Len(accepted), l \in 1 .. Len(started) :
    /\ i < j /\ accepted[i] \in Normal /\ accepted[j] \in Normal
    /\ started[l] = accepted[j]
    => \E k \in 1 .. l - 1 : started[k] = accepted[i]

TaskBooks == QueueBooks /\ QueueOrder /\ StartOrder

LEMMA RangePrepend ==
  ASSUME NEW S, NEW s \in Seq(S), NEW x \in S
  PROVE  /\ Elements(<<x>> \o s) = Elements(s) \cup {x}
         /\ Once(s) /\ x \notin Elements(s) => Once(<<x>> \o s)
<1> DEFINE t == <<x>> \o s
           n == Len(s)
<1>1. n \in Nat /\ Len(t) = n + 1 /\ t[1] = x /\ \A k \in 1 .. n : t[k + 1] = s[k]
  BY PrependFacts
<1> HIDE DEF t, n
<1>2. \A k \in 2 .. n + 1 : t[k] = s[k - 1] /\ k - 1 \in 1 .. n
  <2> TAKE k \in 2 .. n + 1
  <2>1. k - 1 \in 1 .. n /\ (k - 1) + 1 = k
    BY <1>1
  <2> QED BY <1>1, <2>1
<1>3. Elements(t) = Elements(s) \cup {x}
  <2>1. ASSUME NEW y \in Elements(t) PROVE y \in Elements(s) \cup {x}
    <3>1. PICK k \in 1 .. n + 1 : y = t[k]
      BY <1>1 DEF Elements
    <3>2. CASE k = 1
      BY <1>1, <3>1, <3>2
    <3>3. CASE k \in 2 .. n + 1
      BY <1>2, <3>1, <3>3 DEF Elements, n
    <3> QED BY <1>1, <3>2, <3>3
  <2>2. ASSUME NEW y \in Elements(s) \cup {x} PROVE y \in Elements(t)
    <3>1. CASE y = x
      BY <1>1, <3>1 DEF Elements
    <3>2. CASE y \in Elements(s)
      <4>1. PICK k \in 1 .. n : y = s[k]
        BY <3>2 DEF Elements, n
      <4>2. k + 1 \in 1 .. Len(t) /\ t[k + 1] = y
        BY <1>1, <4>1
      <4> QED BY <4>2 DEF Elements
    <3> QED BY <3>1, <3>2
  <2> QED BY <2>1, <2>2
<1>4. ASSUME Once(s), x \notin Elements(s) PROVE Once(t)
  <2>1. \A k \in 1 .. n : s[k] # x
    BY <1>4 DEF Elements, n
  <2>2. \A k, l \in 1 .. n : s[k] = s[l] => k = l
    BY <1>4 DEF Once, n
  <2>3. \A k, l \in 1 .. n + 1 : t[k] = t[l] => k = l
    <3> TAKE k, l \in 1 .. n + 1
    <3>1. CASE k = 1 /\ l \in 2 .. n + 1
      BY <1>1, <1>2, <2>1, <3>1
    <3>2. CASE l = 1 /\ k \in 2 .. n + 1
      BY <1>1, <1>2, <2>1, <3>2
    <3>3. CASE k \in 2 .. n + 1 /\ l \in 2 .. n + 1
      <4>1. t[k] = s[k - 1] /\ t[l] = s[l - 1] /\ k - 1 \in 1 .. n /\ l - 1 \in 1 .. n
        BY <1>2, <3>3
      <4>2. s[k - 1] = s[l - 1] => k - 1 = l - 1
        BY <2>2, <4>1
      <4> QED BY <4>1, <4>2
    <3> QED BY <1>1, <3>1, <3>2, <3>3
  <2> QED BY <1>1, <2>3 DEF Once
<1> QED BY <1>3, <1>4 DEF t

LEMMA RangeTail ==
  ASSUME NEW S, NEW s \in Seq(S), s # <<>>
  PROVE  /\ Elements(s) = Elements(Tail(s)) \cup {Head(s)}
         /\ Once(s) => Once(Tail(s)) /\ Head(s) \notin Elements(Tail(s))
<1> DEFINE t == Tail(s)
           n == Len(s)
<1>1. /\ n \in Nat \ {0} /\ Len(t) = n - 1 /\ Head(s) = s[1]
      /\ \A k \in 1 .. n - 1 : t[k] = s[k + 1]
  BY TailFacts
<1> HIDE DEF t, n
<1>0. Elements(t) = {t[k] : k \in 1 .. n - 1}
  <2>1. Len(t) = n - 1
    BY <1>1
  <2> QED BY <2>1, Zenon DEF Elements
<1>2. Elements(s) = Elements(t) \cup {Head(s)}
  <2>1. ASSUME NEW y \in Elements(s) PROVE y \in Elements(t) \cup {Head(s)}
    <3>1. PICK k \in 1 .. n : y = s[k]
      BY DEF Elements, n
    <3>2. CASE k = 1
      BY <1>1, <3>1, <3>2
    <3>3. CASE k # 1
      <4>1. k - 1 \in 1 .. n - 1 /\ (k - 1) + 1 = k
        BY <1>1, <3>3
      <4>2. t[k - 1] = s[k]
        BY <1>1, <4>1
      <4> QED BY <1>0, <3>1, <4>1, <4>2
    <3> QED BY <3>2, <3>3
  <2>2. ASSUME NEW y \in Elements(t) \cup {Head(s)} PROVE y \in Elements(s)
    <3>1. CASE y = Head(s)
      <4>1. 1 \in 1 .. n /\ y = s[1]
        BY <1>1, <3>1
      <4> QED BY <4>1 DEF Elements, n
    <3>2. CASE y \in Elements(t)
      <4>1. PICK k \in 1 .. n - 1 : y = t[k]
        BY <1>0, <3>2
      <4>2. k + 1 \in 1 .. n /\ s[k + 1] = y
        BY <1>1, <4>1
      <4> QED BY <4>2 DEF Elements, n
    <3> QED BY <3>1, <3>2
  <2> QED BY <2>1, <2>2
<1>3. ASSUME Once(s) PROVE Once(t) /\ Head(s) \notin Elements(t)
  <2>1. \A k, l \in 1 .. n : s[k] = s[l] => k = l
    BY <1>3 DEF Once, n
  <2>2. Once(t)
    <3>1. \A k, l \in 1 .. n - 1 : s[k + 1] = s[l + 1] => k = l
      <4> TAKE k, l \in 1 .. n - 1
      <4>1. k + 1 \in 1 .. n /\ l + 1 \in 1 .. n
        BY <1>1
      <4>2. s[k + 1] = s[l + 1] => k + 1 = l + 1
        BY <2>1, <4>1
      <4> QED BY <4>2
    <3> QED BY <1>1, <3>1 DEF Once
  <2>3. ASSUME Head(s) \in Elements(t) PROVE FALSE
    <3>0. PICK k \in 1 .. n - 1 : Head(s) = t[k]
      BY <1>0, <2>3
    <3>1. s[1] = s[k + 1]
      BY <1>1, <3>0
    <3>2. k + 1 \in 1 .. n /\ 1 \in 1 .. n /\ k + 1 # 1
      BY <1>1
    <3> QED BY <2>1, <3>1, <3>2
  <2> QED BY <2>2, <2>3
<1> QED BY <1>2, <1>3 DEF t

\* A task that is added enters the deque at one of its ends.
LEMMA AddedBooks ==
  ASSUME BGPoolAssumption, TaskBooks, NEW t \in Tasks, t \notin Elements(accepted),
         accepted' = Append(accepted, t), pending' = pending + 1, started' = started,
         \/ t \in Normal /\ queue' = Append(queue, t)
         \/ t \in Urgent /\ queue' = <<t>> \o queue
  PROVE  TaskBooks'
<1> DEFINE n == Len(accepted)
           m == Len(queue)
<1>1. /\ accepted \in Seq(Tasks) /\ queue \in Seq(Tasks) /\ pending = m /\ Once(queue)
      /\ \A u \in Elements(queue) : u \in Elements(accepted) /\ u \notin Elements(started)
      /\ \A u \in Tasks : u \in Elements(started) => u \in Elements(accepted)
      /\ \A u \in Elements(accepted) : u \in Elements(queue) \/ u \in Elements(started)
  BY DEF TaskBooks, QueueBooks
<1>2. t \notin Elements(queue) /\ t \notin Elements(started)
  BY <1>1
<1>3. Elements(accepted') = Elements(accepted) \cup {t} /\ accepted' \in Seq(Tasks)
  BY <1>1, RangeAppend, AppendFacts
<1>4. /\ Elements(queue') = Elements(queue) \cup {t} /\ queue' \in Seq(Tasks)
      /\ Once(queue') /\ Len(queue') = m + 1
  <2>1. CASE queue' = Append(queue, t)
    BY <1>1, <1>2, <2>1, RangeAppend, AppendFacts
  <2>2. CASE queue' = <<t>> \o queue
    BY <1>1, <1>2, <2>2, RangePrepend, PrependFacts
  <2> QED BY <2>1, <2>2
<1>5. QueueBooks'
  <2>1. pending' = Len(queue')
    BY <1>1, <1>4
  <2>2. \A u \in Elements(queue') : u \in Elements(accepted') /\ u \notin Elements(started')
    BY <1>1, <1>2, <1>3, <1>4
  <2>3. \A u \in Tasks : u \in Elements(started') => u \in Elements(accepted')
    BY <1>1, <1>3
  <2>4. \A u \in Elements(accepted') : u \in Elements(queue') \/ u \in Elements(started')
    BY <1>1, <1>3, <1>4
  <2>5. Elements(accepted)' = Elements(accepted') /\ Elements(queue)' = Elements(queue')
        /\ Elements(started)' = Elements(started') /\ Once(queue)' = Once(queue')
    BY DEF Elements, Once
  <2> QED BY <1>3, <1>4, <2>1, <2>2, <2>3, <2>4, <2>5 DEF QueueBooks
<1>6. /\ n \in Nat /\ m \in Nat /\ Len(accepted') = n + 1 /\ accepted'[n + 1] = t
      /\ \A i \in 1 .. n : accepted'[i] = accepted[i] /\ accepted[i] # t
      /\ \A k \in 1 .. m : queue[k] # t
      /\ \A l \in 1 .. Len(started) : started[l] # t
  <2>1. /\ n \in Nat /\ m \in Nat /\ Len(accepted') = n + 1 /\ accepted'[n + 1] = t
        /\ \A i \in 1 .. n : accepted'[i] = accepted[i]
    BY <1>1, AppendFacts
  <2>2. \A i \in 1 .. n : accepted[i] # t
    BY DEF Elements
  <2>3. \A k \in 1 .. m : queue[k] # t
    BY <1>2 DEF Elements
  <2>4. \A l \in 1 .. Len(started) : started[l] # t
    BY <1>2 DEF Elements
  <2> QED BY <2>1, <2>2, <2>3, <2>4
<1>7. \A i, j \in 1 .. n, k, l \in 1 .. m :
        /\ i < j /\ accepted[i] \in Normal /\ accepted[j] \in Normal
        /\ queue[k] = accepted[i] /\ queue[l] = accepted[j]
        => k < l
  BY DEF TaskBooks, QueueOrder, SameOrder
<1>8. \A i, j \in 1 .. n, l \in 1 .. Len(started) :
        /\ i < j /\ accepted[i] \in Normal /\ accepted[j] \in Normal
        /\ started[l] = accepted[j]
        => \E k \in 1 .. l - 1 : started[k] = accepted[i]
  BY DEF TaskBooks, StartOrder
<1> HIDE DEF n, m
<1>9. QueueOrder'
  <2> SUFFICES ASSUME NEW i \in 1 .. n + 1, NEW j \in 1 .. n + 1,
                      NEW k \in 1 .. m + 1, NEW l \in 1 .. m + 1,
                      i < j, accepted'[i] \in Normal, accepted'[j] \in Normal,
                      queue'[k] = accepted'[i], queue'[l] = accepted'[j]
               PROVE  k < l
    BY <1>4, <1>6 DEF QueueOrder, SameOrder
  <2>0. i \in 1 .. n
    BY <1>6
  <2>1. CASE t \in Normal /\ queue' = Append(queue, t)
    <3>1. queue'[m + 1] = t /\ \A x \in 1 .. m : queue'[x] = queue[x]
      BY <1>1, <2>1, AppendFacts DEF m
    <3>2. k \in 1 .. m
      BY <1>6, <2>0, <3>1
    <3>3. CASE j = n + 1
      <4>1. queue'[l] = t
        BY <1>6, <3>3
      <4>2. l \notin 1 .. m
        BY <1>6, <3>1, <4>1
      <4>3. l = m + 1
        BY <1>6, <4>2
      <4> QED BY <1>6, <3>2, <4>3
    <3>4. CASE j \in 1 .. n
      <4>1. l \in 1 .. m
        BY <1>6, <3>1, <3>4
      <4> QED BY <1>6, <1>7, <2>0, <3>1, <3>2, <3>4, <4>1
    <3> QED BY <1>6, <3>3, <3>4
  <2>2. CASE t \in Urgent /\ queue' = <<t>> \o queue
    <3>1. queue'[1] = t /\ \A x \in 1 .. m : queue'[x + 1] = queue[x]
      BY <1>1, <2>2, PrependFacts DEF m
    <3>2. t \notin Normal
      BY <2>2 DEF BGPoolAssumption
    <3>3. j \in 1 .. n /\ k # 1 /\ l # 1
      BY <1>6, <3>1, <3>2
    <3>4. k - 1 \in 1 .. m /\ l - 1 \in 1 .. m /\ (k - 1) + 1 = k /\ (l - 1) + 1 = l
      BY <1>6, <3>3
    <3>5. queue[k - 1] = accepted[i] /\ queue[l - 1] = accepted[j]
      BY <1>6, <2>0, <3>1, <3>3, <3>4
    <3>6. k - 1 < l - 1
      BY <1>6, <1>7, <2>0, <3>3, <3>4, <3>5
    <3> QED BY <3>4, <3>6
  <2> QED BY <2>1, <2>2
<1>10. StartOrder'
  <2> SUFFICES ASSUME NEW i \in 1 .. n + 1, NEW j \in 1 .. n + 1,
                      NEW l \in 1 .. Len(started),
                      i < j, accepted'[i] \in Normal, accepted'[j] \in Normal,
                      started[l] = accepted'[j]
               PROVE  \E k \in 1 .. l - 1 : started[k] = accepted'[i]
    BY <1>6 DEF StartOrder
  <2>1. i \in 1 .. n /\ j \in 1 .. n
    BY <1>6
  <2> QED BY <1>6, <1>8, <2>1
<1> QED BY <1>5, <1>9, <1>10 DEF TaskBooks

\* A thread takes the front of the deque.
LEMMA TakenBooks ==
  ASSUME BGPoolAssumption, TaskBooks, started \in Seq(Works), Once(started),
         queue # <<>>, queue' = Tail(queue), started' = Append(started, Head(queue)),
         pending' = pending - 1, accepted' = accepted
  PROVE  TaskBooks' /\ started' \in Seq(Works) /\ Once(started')
<1> DEFINE t == Head(queue)
           m == Len(queue)
           p == Len(started)
<1>1. /\ accepted \in Seq(Tasks) /\ queue \in Seq(Tasks) /\ pending = m /\ Once(queue)
      /\ \A u \in Elements(queue) : u \in Elements(accepted) /\ u \notin Elements(started)
      /\ \A u \in Tasks : u \in Elements(started) => u \in Elements(accepted)
      /\ \A u \in Elements(accepted) : u \in Elements(queue) \/ u \in Elements(started)
  BY DEF TaskBooks, QueueBooks
<1>2. t \in Tasks /\ t = queue[1] /\ m \in Nat \ {0} /\ queue' \in Seq(Tasks)
      /\ Len(queue') = m - 1 /\ \A k \in 1 .. m - 1 : queue'[k] = queue[k + 1]
  BY <1>1, TailFacts
<1>3. Elements(queue) = Elements(queue') \cup {t} /\ Once(queue') /\ t \notin Elements(queue')
  BY <1>1, RangeTail
<1>4. t \in Works /\ t \notin Elements(started)
  BY <1>1, <1>2, <1>3 DEF Works
<1>5. /\ Elements(started') = Elements(started) \cup {t} /\ Once(started')
      /\ started' \in Seq(Works) /\ p \in Nat /\ Len(started') = p + 1
      /\ started'[p + 1] = t /\ \A l \in 1 .. p : started'[l] = started[l]
  BY <1>4, RangeAppend, AppendFacts
<1>6. QueueBooks'
  <2>1. pending' = Len(queue')
    BY <1>1, <1>2
  <2>2. \A u \in Elements(queue') : u \in Elements(accepted') /\ u \notin Elements(started')
    BY <1>1, <1>3, <1>5
  <2>3. \A u \in Tasks : u \in Elements(started') => u \in Elements(accepted')
    BY <1>1, <1>3, <1>5
  <2>4. \A u \in Elements(accepted') : u \in Elements(queue') \/ u \in Elements(started')
    BY <1>1, <1>3, <1>5
  <2>5. Elements(accepted)' = Elements(accepted') /\ Elements(queue)' = Elements(queue')
        /\ Elements(started)' = Elements(started') /\ Once(queue)' = Once(queue')
    BY DEF Elements, Once
  <2> QED BY <1>1, <1>2, <1>3, <2>1, <2>2, <2>3, <2>4, <2>5 DEF QueueBooks
<1>7. \A i, j \in 1 .. Len(accepted), k, l \in 1 .. m :
        /\ i < j /\ accepted[i] \in Normal /\ accepted[j] \in Normal
        /\ queue[k] = accepted[i] /\ queue[l] = accepted[j]
        => k < l
  BY DEF TaskBooks, QueueOrder, SameOrder
<1>8. \A i, j \in 1 .. Len(accepted), l \in 1 .. p :
        /\ i < j /\ accepted[i] \in Normal /\ accepted[j] \in Normal
        /\ started[l] = accepted[j]
        => \E k \in 1 .. l - 1 : started[k] = accepted[i]
  BY DEF TaskBooks, StartOrder
<1> HIDE DEF t, m, p
<1>9. QueueOrder'
  <2>1. ASSUME NEW i \in 1 .. Len(accepted), NEW j \in 1 .. Len(accepted),
               NEW k \in 1 .. m - 1, NEW l \in 1 .. m - 1,
               i < j, accepted[i] \in Normal, accepted[j] \in Normal,
               queue'[k] = accepted[i], queue'[l] = accepted[j]
        PROVE  k < l
    <3>1. k + 1 \in 1 .. m /\ l + 1 \in 1 .. m
      BY <1>2
    <3>2. queue[k + 1] = accepted[i] /\ queue[l + 1] = accepted[j]
      BY <1>2, <2>1
    <3>3. k + 1 < l + 1
      BY <1>7, <2>1, <3>1, <3>2
    <3> QED BY <1>2, <3>3
  <2> DEFINE q == queue'
  <2>2. Len(q) = m - 1
    BY <1>2
  <2>3. \A i, j \in 1 .. Len(accepted), k, l \in 1 .. m - 1 :
          /\ i < j /\ accepted[i] \in Normal /\ accepted[j] \in Normal
          /\ q[k] = accepted[i] /\ q[l] = accepted[j]
          => k < l
    BY <2>1
  <2> HIDE DEF q
  <2>4. \A i, j \in 1 .. Len(accepted), k, l \in 1 .. Len(q) :
          /\ i < j /\ accepted[i] \in Normal /\ accepted[j] \in Normal
          /\ q[k] = accepted[i] /\ q[l] = accepted[j]
          => k < l
    BY <2>2, <2>3
  <2>5. SameOrder(accepted, q)
    BY <2>4, Zenon DEF SameOrder
  <2> QED BY <2>5 DEF QueueOrder, q
<1>10. StartOrder'
  <2> SUFFICES ASSUME NEW i \in 1 .. Len(accepted), NEW j \in 1 .. Len(accepted),
                      NEW l \in 1 .. p + 1,
                      i < j, accepted[i] \in Normal, accepted[j] \in Normal,
                      started'[l] = accepted[j]
               PROVE  \E k \in 1 .. l - 1 : started'[k] = accepted[i]
    BY <1>5 DEF StartOrder
  <2>1. CASE l \in 1 .. p
    <3>1. PICK k \in 1 .. l - 1 : started[k] = accepted[i]
      BY <1>5, <1>8, <2>1
    <3> QED BY <1>5, <2>1, <3>1
  <2>2. CASE l = p + 1
    <3>1. accepted[j] = queue[1] /\ 1 \in 1 .. m
      BY <1>2, <1>5, <2>2
    <3>2. \A k \in 1 .. m : queue[k] # accepted[i]
      <4> SUFFICES ASSUME NEW k \in 1 .. m, queue[k] = accepted[i] PROVE FALSE
        OBVIOUS
      <4>1. k < 1
        BY <1>7, <3>1
      <4> QED BY <1>2, <4>1
    <3>3. accepted[i] \in Elements(accepted) /\ accepted[i] \notin Elements(queue)
      BY <3>2 DEF Elements, m
    <3>4. accepted[i] \in Elements(started)
      BY <1>1, <3>3
    <3>5. PICK k \in 1 .. p : started[k] = accepted[i]
      BY <3>4 DEF Elements, p
    <3>6. started'[k] = accepted[i] /\ k \in 1 .. l - 1
      BY <1>5, <2>2, <3>5
    <3> QED BY <3>6
  <2> QED BY <1>5, <2>1, <2>2
<1> QED BY <1>5, <1>6, <1>9, <1>10 DEF TaskBooks

\* A timer that is started does not concern the other tasks.
LEMMA TimerKeepsTasks ==
  ASSUME BGPoolAssumption, TaskBooks, started \in Seq(Works), UNCHANGED queueVars,
         \/ started' = started
         \/ \E id \in Ids : started' = Append(started, id)
  PROVE  TaskBooks'
<1> DEFINE p == Len(started)
<1>1. CASE started' = started
  <2>1. queue' = queue /\ accepted' = accepted /\ pending' = pending
    BY DEF queueVars
  <2>2. QueueBooks'
    BY <1>1, <2>1 DEF TaskBooks, QueueBooks, Elements, Once
  <2>3. QueueOrder' /\ StartOrder'
    BY <1>1, <2>1 DEF TaskBooks, QueueOrder, SameOrder, StartOrder
  <2> QED BY <2>2, <2>3 DEF TaskBooks
<1>2. CASE \E id \in Ids : started' = Append(started, id)
  <2>1. PICK id \in Ids : started' = Append(started, id)
    BY <1>2
  <2>2. id \notin Tasks /\ id \in Works
    BY DEF BGPoolAssumption, Tasks, Ids, Works
  <2>3. /\ Elements(started') = Elements(started) \cup {id} /\ p \in Nat /\ Len(started') = p + 1
        /\ started'[p + 1] = id /\ \A l \in 1 .. p : started'[l] = started[l]
    BY <2>1, <2>2, RangeAppend, AppendFacts
  <2>4. \A u \in Elements(queue) : u \in Tasks
    BY DEF TaskBooks, QueueBooks, Elements
  <2>5. \A u \in Tasks : u \in Elements(started') <=> u \in Elements(started)
    BY <2>2, <2>3
  <2>6. queue' = queue /\ accepted' = accepted /\ pending' = pending
    BY DEF queueVars
  <2>7. QueueBooks'
    <3>1. Elements(accepted)' = Elements(accepted) /\ Elements(queue)' = Elements(queue)
          /\ Elements(started)' = Elements(started') /\ Once(queue)' = Once(queue)
      BY <2>6 DEF Elements, Once
    <3>2. Elements(started) \subseteq Elements(started')
      BY <2>3
    <3> QED BY <2>4, <2>5, <2>6, <3>1, <3>2 DEF TaskBooks, QueueBooks
  <2>8. QueueOrder'
    BY <2>6 DEF TaskBooks, QueueOrder, SameOrder
  <2>9. StartOrder'
    <3> SUFFICES ASSUME NEW i \in 1 .. Len(accepted), NEW j \in 1 .. Len(accepted),
                        NEW l \in 1 .. p + 1,
                        i < j, accepted[i] \in Normal, accepted[j] \in Normal,
                        started'[l] = accepted[j]
                 PROVE  \E k \in 1 .. l - 1 : started'[k] = accepted[i]
      BY <2>3, <2>6 DEF StartOrder
    <3>1. l \in 1 .. p
      BY <2>2, <2>3 DEF Tasks
    <3>2. PICK k \in 1 .. l - 1 : started[k] = accepted[i]
      BY <2>3, <3>1 DEF TaskBooks, StartOrder
    <3> QED BY <2>3, <3>1, <3>2
  <2> QED BY <2>7, <2>8, <2>9 DEF TaskBooks
<1> QED BY <1>1, <1>2

-----------------------------------------------------------------------------
(* All the books together.                                                 *)

Books ==
  /\ TimerBooks /\ TaskBooks
  /\ started \in Seq(Works) /\ Once(started)

LEMMA BooksStep ==
  ASSUME BGPoolAssumption, ThreadTypes, Books, [Next]_vars
  PROVE  Books'
<1>1. CASE UNCHANGED <<timerVars, queueVars, running, started, firedAt, cancelled, now>>
  <2>1. /\ heap' = heap /\ latest' = latest /\ lastId' = lastId /\ exeOf' = exeOf
        /\ running' = running /\ started' = started /\ firedAt' = firedAt
        /\ cancelled' = cancelled /\ now' = now
    BY <1>1 DEF timerVars
  <2>2. TimerBooks'
    <3>0. TimerTypes /\ HeapBooks /\ Fates
      BY DEF Books, TimerBooks
    <3>1. TimerTypes'
      BY <2>1, <3>0 DEF TimerTypes
    <3>2. HeapBooks'
      BY <2>1, <3>0 DEF HeapBooks
    <3>3. Fates'
      BY <2>1, <3>0 DEF Fates
    <3> QED BY <3>1, <3>2, <3>3 DEF TimerBooks
  <2>3. TaskBooks'
    BY <1>1, <2>1, TimerKeepsTasks DEF Books
  <2> QED BY <2>1, <2>2, <2>3 DEF Books
<1>2. CASE Tick
  <2>1. /\ heap' = heap /\ latest' = latest /\ lastId' = lastId /\ exeOf' = exeOf
        /\ running' = running /\ started' = started /\ firedAt' = firedAt
        /\ cancelled' = cancelled /\ now' = now + 1 /\ UNCHANGED queueVars
    BY <1>2 DEF Tick, timerVars
  <2>2. TimerBooks'
    BY <2>1 DEF Books, TimerBooks, TimerTypes, HeapBooks, Fates, Elements
  <2>3. TaskBooks'
    BY <2>1, TimerKeepsTasks DEF Books
  <2> QED BY <2>1, <2>2, <2>3 DEF Books
<1>3. CASE \E t \in Normal : AddTask(t)
  <2>1. PICK t \in Normal : AddTask(t)
    BY <1>3
  <2>2. /\ t \notin Elements(accepted) /\ accepted' = Append(accepted, t) /\ pending' = pending + 1
        /\ started' = started /\ queue' = Append(queue, t) /\ t \in Tasks
    BY <2>1 DEF AddTask, PushBack, Tasks
  <2>3. /\ heap' = heap /\ latest' = latest /\ lastId' = lastId /\ exeOf' = exeOf
        /\ running' = running /\ firedAt' = firedAt /\ cancelled' = cancelled /\ now' = now
    BY <2>1 DEF AddTask, timerVars
  <2>4. TaskBooks'
    BY <2>2, AddedBooks DEF Books
  <2>5. TimerBooks'
    <3>1. started' = started
      BY <2>2
    <3> QED BY <2>3, <3>1 DEF Books, TimerBooks, TimerTypes, HeapBooks, Fates, Elements
  <2> QED BY <2>2, <2>4, <2>5 DEF Books
<1>4. CASE \E t \in Urgent : AddPriorityTask(t)
  <2>1. PICK t \in Urgent : AddPriorityTask(t)
    BY <1>4
  <2>2. /\ t \notin Elements(accepted) /\ accepted' = Append(accepted, t) /\ pending' = pending + 1
        /\ started' = started /\ queue' = <<t>> \o queue /\ t \in Tasks
    BY <2>1 DEF AddPriorityTask, PushFront, Counted, Tasks
  <2>3. /\ heap' = heap /\ latest' = latest /\ lastId' = lastId /\ exeOf' = exeOf
        /\ running' = running /\ firedAt' = firedAt /\ cancelled' = cancelled /\ now' = now
    BY <2>1 DEF AddPriorityTask, timerVars
  <2>4. TaskBooks'
    BY <2>2, AddedBooks DEF Books
  <2>5. TimerBooks'
    <3>1. started' = started
      BY <2>2
    <3> QED BY <2>3, <3>1 DEF Books, TimerBooks, TimerTypes, HeapBooks, Fates, Elements
  <2> QED BY <2>2, <2>4, <2>5 DEF Books
<1>5. CASE \E delay \in Delays : DelayTask(delay)
  <2>1. PICK delay \in Delays : DelayTask(delay)
    BY <1>5
  <2>2. UNCHANGED queueVars /\ started' = started
    BY <2>1 DEF DelayTask
  <2>3. TimerBooks'
    BY <2>1, DelayBooks DEF Books
  <2>4. TaskBooks'
    BY <2>2, TimerKeepsTasks DEF Books
  <2> QED BY <2>2, <2>3, <2>4 DEF Books
<1>6. CASE CancelStep
  <2>1. UNCHANGED queueVars /\ started' = started
    BY <1>6 DEF CancelStep
  <2>2. TimerBooks'
    BY <1>6, CancelBooks DEF Books
  <2>3. TaskBooks'
    BY <2>1, TimerKeepsTasks DEF Books
  <2> QED BY <2>1, <2>2, <2>3 DEF Books
<1>7. CASE \E w \in Threads : ThreadTimer(w)
  <2>1. PICK w \in Threads : ThreadTimer(w)
    BY <1>7
  <2>2. TimerBooks' /\ started' \in Seq(Works) /\ Once(started')
    BY <2>1, TimerTaken DEF Books
  <2>3. heap # {} /\ heap \in SUBSET Items
    BY <2>1 DEF ThreadTimer, TimerDue, ThreadTypes
  <2>4. Top(heap).id \in Ids
    BY <2>3, TopIsLeast
  <2>5. UNCHANGED queueVars /\ (started' = started \/ started' = Append(started, Top(heap).id))
    BY <2>1 DEF ThreadTimer
  <2>6. TaskBooks'
    BY <2>4, <2>5, TimerKeepsTasks DEF Books
  <2> QED BY <2>2, <2>6 DEF Books
<1>8. CASE \E w \in Threads : ThreadTask(w)
  <2>1. PICK w \in Threads : ThreadTask(w)
    BY <1>8
  <2>2. /\ queue # <<>> /\ queue' = Tail(queue) /\ started' = Append(started, Head(queue))
        /\ pending' = pending - 1 /\ accepted' = accepted
    BY <2>1 DEF ThreadTask
  <2>3. TaskBooks' /\ started' \in Seq(Works) /\ Once(started')
    BY <2>2, TakenBooks DEF Books
  <2>4. /\ heap' = heap /\ latest' = latest /\ lastId' = lastId /\ exeOf' = exeOf
        /\ running' = running /\ firedAt' = firedAt /\ cancelled' = cancelled /\ now' = now
    BY <2>1 DEF ThreadTask, timerVars
  <2>5. Head(queue) \in Works /\ Head(queue) \notin Ids
    <3>1. Head(queue) \in Tasks
      BY <2>2, TailFacts DEF Books, TaskBooks, QueueBooks
    <3> QED BY <3>1 DEF Works, BGPoolAssumption, Tasks, Ids
  <2>6. Elements(started') = Elements(started) \cup {Head(queue)}
    BY <2>2, <2>5, RangeAppend DEF Books
  <2>7. \A id \in Ids : id \in Elements(started') <=> id \in Elements(started)
    BY <2>5, <2>6
  <2>8. Elements(started)' = Elements(started')
    BY DEF Elements
  <2>9. Fates'
    <3>1. lastId \in 0 .. MaxDelayed /\ MaxDelayed \in Nat
      BY DEF Books, TimerBooks, TimerTypes, BGPoolAssumption
    <3>2. \A id \in 1 .. lastId : id \in Ids
      BY <3>1 DEF Ids
    <3> HIDE DEF Elements
    <3> QED BY <2>4, <2>7, <2>8, <3>2 DEF Books, TimerBooks, Fates
  <2>10. TimerTypes' /\ HeapBooks'
    BY <2>4 DEF Books, TimerBooks, TimerTypes, HeapBooks
  <2> QED BY <2>3, <2>9, <2>10 DEF Books, TimerBooks
<1>9. CASE \/ Start \/ Stopper \/ ProfilingLog
           \/ \E wait \in BOOLEAN : StopCall(wait)
           \/ \E id \in Ids, nb \in Cancels : CancelTask(id, nb)
           \/ \E w \in Threads : \/ ThreadWait(w) \/ ThreadExit(w) \/ ThreadTimedWait(w)
                                 \/ TaskReturns(w) \/ TaskCounted(w)
                                 \/ WaitTimeout(w) \/ SpuriousWakeup(w)
  <2>1. UNCHANGED <<timerVars, queueVars, running, started, firedAt, cancelled, now>>
    BY <1>9 DEF Start, Stopper, StopPoll, StopSet, StopJoined, ProfilingLog, StopCall, CancelTask,
                ThreadWait, ThreadExit, ThreadTimedWait, TaskReturns, TaskCounted, WaitTimeout,
                SpuriousWakeup
  <2> QED BY <1>1, <2>1
<1>10. CASE \E w \in Threads : Relock(w)
  <2>1. PICK w \in Threads : Relock(w)
    BY <1>10
  <2>2. /\ heap' = heap /\ latest' = latest /\ lastId' = lastId /\ exeOf' = exeOf
        /\ running' \in {0, running} /\ started' = started /\ firedAt' = firedAt
        /\ cancelled' = cancelled /\ now' = now /\ UNCHANGED queueVars
    BY <2>1 DEF Relock, ClearRunning, timerVars
  <2>3. TimerBooks'
    BY <2>2 DEF Books, TimerBooks, TimerTypes, HeapBooks, Fates, Elements, BGPoolAssumption
  <2>4. TaskBooks'
    BY <2>2, TimerKeepsTasks DEF Books
  <2> QED BY <2>2, <2>3, <2>4 DEF Books
<1>11. CASE UNCHANGED vars
  BY <1>1, <1>11 DEF vars
<1> QED
  BY <1>2, <1>3, <1>4, <1>5, <1>6, <1>7, <1>8, <1>9, <1>10, <1>11 DEF Next, ThreadProc

-----------------------------------------------------------------------------
(* The tasks in hand, and those Stop(true) waits for.                      *)

JobBooks ==
  /\ job \in [Threads -> Works \cup {NoTask}]
  /\ finished \in SUBSET Works /\ awaited \in SUBSET Tasks
  /\ \A w \in Threads : pc[w] \in {"run", "count", "relock"} <=> job[w] # NoTask
  /\ \A w \in Threads : pc[w] \in {"count", "relock"} => job[w] \in finished

\* A task that Stop(true) found pending is done, or in the hands of a thread;
\* it may still be in the deque only as long as Stop polls.
Covered ==
  /\ spc = "idle" => awaited = {}
  /\ \A t \in awaited : \/ t \in finished
                        \/ \E w \in Threads : pc[w] = "run" /\ job[w] = t
                        \/ spc = "poll" /\ t \in Elements(queue)

\* With one thread running_task_id_ is the delayed task it runs.
OneRunner == N = 1 => \A w \in Threads : job[w] \in Ids => running = job[w]

\* Start and Stop create and join all threads.
AllOrNone == \A v, w \in Threads : pc[v] = "none" => pc[w] = "none"

Hands == JobBooks /\ Covered /\ OneRunner /\ AllOrNone

Unemployed == {"check", "wait", "timed", "exited"}

\* Most steps leave the tasks in hand alone.
LEMMA HandsKept ==
  ASSUME Hands, UNCHANGED <<job, finished, awaited, spc, running>>,
         Elements(queue) \subseteq Elements(queue'),
         \A w \in Threads : \/ pc'[w] = pc[w]
                            \/ pc[w] \in Unemployed /\ pc'[w] \in Unemployed
  PROVE  Hands'
<1>1. \A w \in Threads : /\ pc'[w] = "none" <=> pc[w] = "none"
                         /\ pc'[w] = "run" <=> pc[w] = "run"
                         /\ pc'[w] \in {"run", "count", "relock"} <=> pc[w] \in {"run", "count", "relock"}
                         /\ pc'[w] \in {"count", "relock"} <=> pc[w] \in {"count", "relock"}
  BY DEF Unemployed
<1>2. JobBooks' /\ OneRunner' /\ AllOrNone'
  BY <1>1 DEF Hands, JobBooks, OneRunner, AllOrNone
<1>3. Covered'
  <2>1. Elements(queue)' = Elements(queue')
    BY DEF Elements
  <2> QED BY <1>1, <2>1 DEF Hands, Covered
<1> QED BY <1>2, <1>3 DEF Hands

LEMMA HandsStop ==
  ASSUME BGPoolAssumption, ThreadTypes, Books, Hands,
         Start \/ Stopper \/ \E wait \in BOOLEAN : StopCall(wait)
  PROVE  Hands'
<1>1. CASE Start
  <2>1. \A w \in Threads : pc[w] = "none" /\ job[w] = NoTask
    BY <1>1 DEF Start, Hands, AllOrNone, JobBooks, Threads, BGPoolAssumption
  <2>2. \A w \in Threads : pc'[w] = "check"
    BY <1>1 DEF Start
  <2>3. UNCHANGED <<job, finished, awaited, spc, running, queue>>
    BY <1>1 DEF Start, stopVars, queueVars
  <2>4. Covered'
    BY <2>1, <2>3 DEF Hands, Covered, Elements
  <2> QED BY <2>1, <2>2, <2>3, <2>4 DEF Hands, JobBooks, OneRunner, AllOrNone
<1>2. CASE \E wait \in BOOLEAN : StopCall(wait)
  <2>1. UNCHANGED <<pc, job, finished, queue, running>> /\ spc = "idle"
    BY <1>2 DEF StopCall, thrVars, queueVars
  <2>2. \/ awaited' = {} /\ spc' = "stop"
        \/ /\ spc' = "poll"
           /\ awaited' = {t \in Tasks : t \in Elements(queue) \cup {job[w] : w \in Threads}}
    BY <1>2 DEF StopCall
  <2>3. JobBooks' /\ OneRunner' /\ AllOrNone'
    BY <2>1, <2>2 DEF Hands, JobBooks, OneRunner, AllOrNone
  <2>4. Covered'
    <3>1. Elements(queue)' = Elements(queue)
      BY <2>1 DEF Elements
    <3>2. ASSUME NEW w \in Threads, job[w] \in Tasks
          PROVE  job[w] \in finished \/ pc[w] = "run"
      <4>1. job[w] # NoTask
        BY <3>2 DEF BGPoolAssumption, Tasks
      <4> QED BY <4>1 DEF Hands, JobBooks
    <3> QED BY <2>1, <2>2, <3>1, <3>2 DEF Covered
  <2> QED BY <2>3, <2>4 DEF Hands
<1>3. CASE StopPoll
  <2>1. UNCHANGED <<pc, job, finished, awaited, running>> /\ spc = "poll" /\ spc' = "stop"
    BY <1>3 DEF StopPoll, thrVars
  <2>2. Elements(queue) = {}
    <3>1. pending <= 0 /\ pending = Len(queue) /\ queue \in Seq(Tasks)
      BY <1>3 DEF StopPoll, PollEnds, Books, TaskBooks, QueueBooks
    <3>2. Len(queue) \in Nat
      BY <3>1
    <3> QED BY <3>1, <3>2 DEF Elements
  <2>3. JobBooks' /\ OneRunner' /\ AllOrNone'
    BY <2>1 DEF Hands, JobBooks, OneRunner, AllOrNone
  <2>4. Covered'
    BY <2>1, <2>2 DEF Hands, Covered
  <2> QED BY <2>3, <2>4 DEF Hands
<1>4. CASE StopSet
  <2>1. UNCHANGED <<job, finished, awaited, running>> /\ spc = "stop" /\ spc' = "join"
    BY <1>4 DEF StopSet
  <2>2. pc' = Broadcast(pc)
    BY <1>4 DEF StopSet, StopBroadcast
  <2>3. \A w \in Threads : pc'[w] = pc[w] \/ (pc[w] \in {"wait", "timed"} /\ pc'[w] = "check")
    BY <2>2, BroadcastWakes DEF ThreadTypes
  <2>4. JobBooks' /\ OneRunner' /\ AllOrNone'
    BY <2>1, <2>3 DEF Hands, JobBooks, OneRunner, AllOrNone
  <2>5. Covered'
    BY <2>1, <2>3 DEF Hands, Covered
  <2> QED BY <2>4, <2>5 DEF Hands
<1>5. CASE StopJoined
  <2>1. \A w \in Threads : pc[w] \in {"none", "exited"} /\ pc'[w] = "none"
    BY <1>5 DEF StopJoined
  <2>2. UNCHANGED <<job, finished, running>> /\ awaited' = {}
    BY <1>5 DEF StopJoined
  <2>3. JobBooks' /\ OneRunner' /\ AllOrNone'
    BY <2>1, <2>2 DEF Hands, JobBooks, OneRunner, AllOrNone
  <2>4. Covered'
    BY <2>2 DEF Covered
  <2> QED BY <2>3, <2>4 DEF Hands
<1> QED BY <1>1, <1>2, <1>3, <1>4, <1>5 DEF Stopper

\* A thread takes a task, x, from the deque or the heap.
LEMMA HandsTake ==
  ASSUME BGPoolAssumption, ThreadTypes, Hands, NEW w \in Threads, pc[w] = "check",
         NEW x \in Works, job' = [job EXCEPT ![w] = x], pc' = [pc EXCEPT ![w] = "run"],
         UNCHANGED <<finished, awaited, spc>>,
         \A t \in Elements(queue) : t \in Elements(queue') \/ t = x,
         x \in Ids => running' = x, x \notin Ids => running' = running
  PROVE  Hands'
<1>1. /\ job'[w] = x /\ pc'[w] = "run"
      /\ \A v \in Threads : v # w => job'[v] = job[v] /\ pc'[v] = pc[v]
      /\ job' \in [Threads -> Works \cup {NoTask}]
  BY DEF Hands, JobBooks, ThreadTypes
<1>2. x # NoTask /\ job[w] = NoTask
  <2>1. NoTask \notin Works
    BY DEF BGPoolAssumption, Works, Tasks, Ids
  <2> QED BY <2>1 DEF Hands, JobBooks
<1>3. JobBooks'
  BY <1>1, <1>2 DEF Hands, JobBooks
<1>4. AllOrNone'
  BY <1>1 DEF Hands, AllOrNone
<1>5. OneRunner'
  <2>1. N = 1 => \A v \in Threads : v = w
    BY DEF Threads
  <2> QED BY <1>1, <2>1 DEF OneRunner
<1>6. Covered'
  <2> SUFFICES ASSUME NEW t \in awaited, t \notin finished
               PROVE  \/ \E v \in Threads : pc'[v] = "run" /\ job'[v] = t
                      \/ spc = "poll" /\ t \in Elements(queue')
    BY DEF Hands, Covered, Elements
  <2>1. CASE \E v \in Threads : pc[v] = "run" /\ job[v] = t
    BY <1>1, <2>1
  <2>2. CASE spc = "poll" /\ t \in Elements(queue)
    BY <1>1, <2>2
  <2> QED BY <2>1, <2>2 DEF Hands, Covered
<1> QED BY <1>3, <1>4, <1>5, <1>6 DEF Hands

\* A task returns, is counted, and the thread locks mutex_ again.
LEMMA HandsReturn ==
  ASSUME BGPoolAssumption, ThreadTypes, Hands, NEW w \in Threads,
         TaskReturns(w) \/ TaskCounted(w) \/ Relock(w)
  PROVE  Hands'
<1>1. UNCHANGED <<awaited, spc, queue>>
  BY DEF TaskReturns, TaskCounted, Relock, stopVars, queueVars
<1>2. Elements(queue)' = Elements(queue)
  BY <1>1 DEF Elements
<1>3. CASE TaskReturns(w) \/ TaskCounted(w)
  <2>1. /\ \A v \in Threads : v # w => pc'[v] = pc[v]
        /\ pc'[w] \in {"count", "relock"} /\ pc[w] \in {"run", "count"}
        /\ UNCHANGED <<job, running>>
        /\ pc[w] = "run" => finished' = finished \cup {job[w]}
        /\ pc[w] = "count" => finished' = finished
    BY <1>3 DEF TaskReturns, TaskCounted, ThreadTypes
  <2>2. job[w] \in Works
    BY <2>1 DEF Hands, JobBooks
  <2>3. finished \subseteq finished' /\ finished' \in SUBSET Works /\ job[w] \in finished'
    BY <2>1, <2>2 DEF Hands, JobBooks
  <2>4. JobBooks' /\ OneRunner' /\ AllOrNone'
    BY <1>1, <2>1, <2>3 DEF Hands, JobBooks, OneRunner, AllOrNone
  <2>5. Covered'
    BY <1>1, <1>2, <2>1, <2>3 DEF Hands, Covered
  <2> QED BY <2>4, <2>5 DEF Hands
<1>4. CASE Relock(w)
  <2>1. /\ \A v \in Threads : v # w => pc'[v] = pc[v] /\ job'[v] = job[v]
        /\ pc'[w] = "check" /\ pc[w] = "relock" /\ job'[w] = NoTask
        /\ job' \in [Threads -> Works \cup {NoTask}] /\ UNCHANGED finished
    BY <1>4 DEF Relock, ThreadTypes, Hands, JobBooks
  <2>2. N = 1 => \A v \in Threads : v = w
    BY DEF Threads
  <2>3. NoTask \notin Ids
    BY DEF BGPoolAssumption, Ids
  <2>4. JobBooks' /\ AllOrNone'
    BY <1>1, <2>1 DEF Hands, JobBooks, AllOrNone
  <2>5. OneRunner'
    BY <2>1, <2>2, <2>3 DEF OneRunner
  <2>6. Covered'
    BY <1>1, <1>2, <2>1 DEF Hands, Covered
  <2> QED BY <2>4, <2>5, <2>6 DEF Hands
<1> QED BY <1>3, <1>4

LEMMA HandsStep ==
  ASSUME BGPoolAssumption, ThreadTypes, Books, Hands, [Next]_vars
  PROVE  Hands'
<1>0. pc \in [Threads -> ThreadStates] /\ queue \in Seq(Tasks)
  BY DEF ThreadTypes, Books, TaskBooks, QueueBooks
<1>1. CASE UNCHANGED vars \/ Tick \/ CancelStep \/ ProfilingLog
           \/ \E id \in Ids, nb \in Cancels : CancelTask(id, nb)
  <2>1. UNCHANGED <<job, finished, awaited, spc, running, queue, pc>>
    BY <1>1 DEF vars, Tick, CancelStep, ProfilingLog, CancelTask, thrVars, queueVars, stopVars
  <2> QED BY <2>1, HandsKept
<1>2. CASE \/ \E t \in Normal : AddTask(t)
           \/ \E t \in Urgent : AddPriorityTask(t)
           \/ \E delay \in Delays : DelayTask(delay)
  <2>1. UNCHANGED <<job, finished, awaited, spc, running>> /\ pc' \in Signal(pc)
    BY <1>2 DEF AddTask, AddPriorityTask, DelayTask, AddSignal, DelaySignal, stopVars
  <2>2. Elements(queue) \subseteq Elements(queue')
    <3>1. CASE \E t \in Tasks : queue' = Append(queue, t) \/ queue' = <<t>> \o queue
      <4>1. PICK t \in Tasks : queue' = Append(queue, t) \/ queue' = <<t>> \o queue
        BY <3>1
      <4>2. CASE queue' = Append(queue, t)
        BY <1>0, <4>2, RangeAppend
      <4>3. CASE queue' = <<t>> \o queue
        BY <1>0, <4>3, RangePrepend
      <4> QED BY <4>1, <4>2, <4>3
    <3>2. CASE queue' = queue
      BY <3>2
    <3> QED BY <1>2, <3>1, <3>2
               DEF AddTask, AddPriorityTask, DelayTask, PushBack, PushFront, Tasks, queueVars
  <2>3. \A w \in Threads : pc'[w] = pc[w] \/ (pc[w] \in {"wait", "timed"} /\ pc'[w] = "check")
    BY <1>0, <2>1, SignalWakes
  <2> QED BY <2>1, <2>2, <2>3, HandsKept DEF Unemployed
<1>3. CASE Start \/ Stopper \/ \E wait \in BOOLEAN : StopCall(wait)
  BY <1>3, HandsStop
<1>4. CASE \E w \in Threads : ThreadProc(w) \/ SpuriousWakeup(w)
  <2>1. PICK w \in Threads : ThreadProc(w) \/ SpuriousWakeup(w)
    BY <1>4
  <2>2. CASE \/ ThreadWait(w) \/ ThreadExit(w) \/ ThreadTimedWait(w)
             \/ WaitTimeout(w) \/ SpuriousWakeup(w)
    <3>1. UNCHANGED <<job, finished, awaited, spc, running, queue>>
      BY <2>2 DEF ThreadWait, ThreadExit, ThreadTimedWait, WaitTimeout, SpuriousWakeup,
                  queueVars, stopVars
    <3>2. \A v \in Threads : \/ pc'[v] = pc[v]
                             \/ pc[v] \in Unemployed /\ pc'[v] \in Unemployed
      BY <1>0, <2>2 DEF ThreadWait, ThreadExit, ThreadTimedWait, WaitTimeout, SpuriousWakeup,
                  Unemployed
    <3> QED BY <3>1, <3>2, HandsKept
  <2>3. CASE ThreadTimer(w)
    <3>1. heap # {} /\ heap \in SUBSET Items
      BY <2>3 DEF ThreadTimer, TimerDue, ThreadTypes
    <3>2. Top(heap).id \in Ids
      BY <3>1, TopIsLeast
    <3>3. UNCHANGED <<finished, awaited, spc, queue>> /\ pc[w] = "check"
      BY <2>3 DEF ThreadTimer, queueVars, stopVars
    <3>4. \/ /\ running' = Top(heap).id /\ job' = [job EXCEPT ![w] = Top(heap).id]
             /\ pc' = [pc EXCEPT ![w] = "run"]
          \/ UNCHANGED <<running, job, pc>>
      BY <2>3 DEF ThreadTimer, MarkRunning
    <3>5. CASE UNCHANGED <<running, job, pc>>
      BY <3>3, <3>5, HandsKept
    <3>6. CASE /\ running' = Top(heap).id /\ job' = [job EXCEPT ![w] = Top(heap).id]
               /\ pc' = [pc EXCEPT ![w] = "run"]
      <4>1. \A t \in Elements(queue) : t \in Elements(queue')
        BY <3>3
      <4>2. Top(heap).id \in Works
        BY <3>2 DEF Works
      <4> QED BY <3>2, <3>3, <3>6, <4>1, <4>2, HandsTake
    <3> QED BY <3>4, <3>5, <3>6
  <2>4. CASE ThreadTask(w)
    <3>1. queue # <<>> /\ queue' = Tail(queue)
      BY <2>4 DEF ThreadTask
    <3>2. Elements(queue) = Elements(queue') \cup {Head(queue)} /\ Head(queue) \in Tasks
      BY <1>0, <3>1, RangeTail, TailFacts
    <3>3. Head(queue) \in Works /\ Head(queue) \notin Ids
      BY <3>2 DEF Works, BGPoolAssumption, Tasks, Ids
    <3>4. /\ UNCHANGED <<finished, awaited, spc, running>> /\ pc[w] = "check"
          /\ job' = [job EXCEPT ![w] = Head(queue)] /\ pc' = [pc EXCEPT ![w] = "run"]
      BY <2>4 DEF ThreadTask, stopVars
    <3> HIDE DEF Elements
    <3>5. \A t \in Elements(queue) : t \in Elements(queue') \/ t = Head(queue)
      BY <3>2
    <3> QED BY <3>3, <3>4, <3>5, HandsTake
  <2>5. CASE TaskReturns(w) \/ TaskCounted(w) \/ Relock(w)
    BY <2>5, HandsReturn
  <2> QED BY <2>1, <2>2, <2>3, <2>4, <2>5 DEF ThreadProc
<1> QED BY <1>1, <1>2, <1>3, <1>4 DEF Next

-----------------------------------------------------------------------------
(* The theorems.                                                           *)

\* A CancelTask call in progress names a delayed task.
CancelNames == cancel # NoCancel => cancel.id \in Ids

BGInv == ThreadTypes /\ Watched /\ Books /\ Hands /\ CancelNames

LEMMA BGInvInit ==
  ASSUME BGPoolAssumption, Init
  PROVE  BGInv
<1>1. ThreadTypes /\ CancelNames
  <2>1. pc \in [Threads -> ThreadStates] /\ deadline \in [Threads -> Int]
    BY DEF Init, ThreadStates
  <2>2. CancelNames
    BY DEF Init, CancelNames
  <2>3. stop = FALSE /\ now = 0 /\ spc = "idle" /\ heap = {}
    BY DEF Init
  <2>4. now \in 0 .. MaxTime
    BY <2>3 DEF BGPoolAssumption
  <2> QED BY <2>1, <2>2, <2>3, <2>4 DEF ThreadTypes
<1>6. Watched
  <2>1. \A w \in Threads : pc[w] = "none"
    BY DEF Init
  <2> QED BY <2>1 DEF Watched, TaskWatched, TimerWatched, Live
<1>2. TimerBooks
  BY DEF Init, BGPoolAssumption, TimerBooks, TimerTypes, HeapBooks, Fates, Elements, Ids, Items
<1>3. TaskBooks
  BY DEF Init, TaskBooks, QueueBooks, QueueOrder, SameOrder, StartOrder, Elements, Once
<1>4. started \in Seq(Works) /\ Once(started)
  BY DEF Init, Once
<1>5. Hands
  <2>1. NoTask \notin Ids
    BY DEF BGPoolAssumption, Ids
  <2> QED BY <2>1 DEF Init, Hands, JobBooks, Covered, OneRunner, AllOrNone
<1> QED BY <1>1, <1>2, <1>3, <1>4, <1>5, <1>6 DEF BGInv, Books

LEMMA BGInvStep ==
  ASSUME BGPoolAssumption, BGInv, [Next]_vars
  PROVE  BGInv'
<1>1. lastId \in 0 .. MaxDelayed
  BY DEF BGInv, Books, TimerBooks, TimerTypes
<1>2. ThreadTypes'
  BY <1>1, ThreadTypesStep DEF BGInv
<1>3. Watched'
  BY WatchedStep DEF BGInv
<1>4. Books'
  BY BooksStep DEF BGInv
<1>5. Hands'
  BY HandsStep DEF BGInv
<1>6. CancelNames'
  <2>1. CASE \E id \in Ids, nb \in Cancels : cancel' = [id |-> id, nb |-> nb]
    BY <2>1 DEF CancelNames
  <2>2. CASE cancel' \in {cancel, NoCancel}
    BY <2>2 DEF BGInv, CancelNames
  <2> QED BY <2>1, <2>2
    DEF Next, Stopper, Tick, Start, StopPoll, StopSet, StopJoined, StopCall, CancelStep, ProfilingLog,
        AddTask, AddPriorityTask, DelayTask, CancelTask, ThreadProc, ThreadWait, ThreadExit,
        ThreadTimer, ThreadTimedWait, ThreadTask, TaskReturns, TaskCounted, Relock, WaitTimeout,
        SpuriousWakeup, vars
<1> QED BY <1>2, <1>3, <1>4, <1>5, <1>6 DEF BGInv

LEMMA BGInvariance ==
  ASSUME BGPoolAssumption
  PROVE  Spec => []BGInv
<1>1. Init => BGInv
  BY BGInvInit
<1>2. BGInv /\ [Next]_vars => BGInv'
  BY BGInvStep
<1> QED BY <1>1, <1>2, PTL DEF Spec

\* A sequence without repetitions is no longer than the set it is taken from.
LEMMA OnceIsShort ==
  ASSUME NEW S, IsFiniteSet(S), NEW s \in Seq(S), Once(s)
  PROVE  Len(s) <= Cardinality(S) /\ Cardinality(S) \in Nat
<1>1. Len(s) \in Nat
  OBVIOUS
<1>2. IsFiniteSet(1 .. Len(s)) /\ Cardinality(1 .. Len(s)) = Len(s)
  BY <1>1, FS_Interval
<1>3. s \in [1 .. Len(s) -> S]
  OBVIOUS
<1>4. \A k, l \in 1 .. Len(s) : s[k] = s[l] => k = l
  BY DEF Once
<1>5. s \in Injection(1 .. Len(s), S)
  BY <1>3, <1>4 DEF Injection, IsInjective
<1>6. Cardinality(1 .. Len(s)) <= Cardinality(S)
  BY <1>5, FS_Injection
<1>7. Cardinality(S) \in Nat
  BY FS_CardinalityType
<1> QED BY <1>2, <1>6, <1>7

LEMMA BooksImplyAccounted ==
  ASSUME BGPoolAssumption, BGInv
  PROVE  Accounted
<1>1. TypeOK
  <2>1. pending \in 0 .. Cardinality(Tasks)
    <3>1. IsFiniteSet(Tasks) /\ queue \in Seq(Tasks) /\ Once(queue) /\ pending = Len(queue)
      BY DEF BGPoolAssumption, Tasks, BGInv, Books, TaskBooks, QueueBooks
    <3>2. Len(queue) \in Nat
      BY <3>1
    <3> QED BY <3>1, <3>2, OnceIsShort
  <2>2. \A a \in heap : a.id \in Ids /\ a.exe \in Nat
    BY DEF BGInv, ThreadTypes, Items
  <2>3. job \in [Threads -> Tasks \cup Ids \cup {NoTask}] /\ finished \subseteq Tasks \cup Ids
    BY DEF BGInv, Hands, JobBooks, Works
  <2> QED BY <2>1, <2>2, <2>3
    DEF TypeOK, BGInv, ThreadTypes, ThreadStates, Books, TaskBooks, QueueBooks, TimerBooks, TimerTypes
<1>2. Bookkeeping
  BY DEF Bookkeeping, BGInv, Books, TaskBooks, QueueBooks, TimerBooks, HeapBooks
<1>3. DelayedOnce
  <2> SUFFICES ASSUME NEW id \in 1 .. lastId
               PROVE  Cardinality({k \in 1 .. Len(started) : started[k] = id})
                        + (IF id \in latest THEN 1 ELSE 0)
                        + (IF id \in cancelled THEN 1 ELSE 0) = 1
    BY DEF DelayedOnce
  <2> DEFINE runs == {k \in 1 .. Len(started) : started[k] = id}
  <2>1. id \in Ids
    BY DEF BGPoolAssumption, Ids, BGInv, Books, TimerBooks, TimerTypes
  <2>2. CASE id \in Elements(started)
    <3>1. PICK k \in 1 .. Len(started) : started[k] = id
      BY <2>2 DEF Elements
    <3>2. runs = {k}
      BY <3>1 DEF BGInv, Books, Once
    <3>3. Cardinality(runs) = 1
      BY <3>2, FS_Singleton
    <3>4. id \notin latest /\ id \notin cancelled
      BY <2>1, <2>2 DEF BGInv, Books, TimerBooks, Fates
    <3> QED BY <3>3, <3>4
  <2>3. CASE id \notin Elements(started)
    <3>1. runs = {}
      BY <2>3 DEF Elements
    <3>2. Cardinality(runs) = 0
      BY <3>1, FS_EmptySet
    <3>3. id \in latest \/ id \in cancelled
      BY <2>3 DEF BGInv, Books, TimerBooks, Fates
    <3>4. ~(id \in latest /\ id \in cancelled)
      BY DEF BGInv, Books, TimerBooks, Fates
    <3> QED BY <3>2, <3>3, <3>4
  <2> QED BY <2>2, <2>3
<1>4. NormalInOrder
  <2>1. DOMAIN started = 1 .. Len(started) /\ DOMAIN accepted = 1 .. Len(accepted)
    BY DEF BGInv, Books, TaskBooks, QueueBooks
  <2>2. ASSUME NEW k \in 1 .. Len(started), started[k] \in Normal
        PROVE  started[k] \in Elements(accepted)
    BY <2>2 DEF BGInv, Books, TaskBooks, QueueBooks, Tasks, Elements
  <2>3. \A k, l \in 1 .. Len(started) : started[k] = started[l] => k = l
    BY DEF BGInv, Books, Once
  <2>4. StartOrder
    BY DEF BGInv, Books, TaskBooks
  <2> QED BY <2>1, <2>2, <2>3, <2>4 DEF NormalInOrder, StartOrder
<1>5. NotEarly
  BY DEF NotEarly, BGInv, Books, TimerBooks, Fates
<1> QED BY <1>1, <1>2, <1>3, <1>4, <1>5 DEF Accounted

\* Whatever may run has a thread that is awake for it, or whose timed wait
\* ends in time: one work_cv_.signal() per AddTask and DelayTask is enough.
THEOREM QueueAndHeapWatched ==
  ASSUME BGPoolAssumption
  PROVE  Spec => []Watched
<1>1. BGInv => Watched
  BY DEF BGInv
<1> QED BY <1>1, BGInvariance, PTL

\* pending_num_, latest_ and the heap agree, every delayed task has one fate
\* and is not run early, and ordinary tasks are started once and in order.
THEOREM TasksAccountedFor ==
  ASSUME BGPoolAssumption
  PROVE  Spec => []Accounted
<1>1. BGInv => Accounted
  BY BooksImplyAccounted
<1> QED BY <1>1, BGInvariance, PTL

LEMMA StopCovers ==
  ASSUME BGPoolAssumption, BGInv, [Next]_vars, spc = "join", spc' = "idle"
  PROVE  awaited \subseteq finished
<1>1. StopJoined
  <2>1. spc' # spc
    OBVIOUS
  <2> QED BY <2>1
    DEF Next, Stopper, Tick, Start, StopPoll, StopSet, StopCall, CancelStep, ProfilingLog, AddTask,
        AddPriorityTask, DelayTask, CancelTask, ThreadProc, ThreadWait, ThreadExit, ThreadTimer,
        ThreadTimedWait, ThreadTask, TaskReturns, TaskCounted, Relock, WaitTimeout,
        SpuriousWakeup, vars, stopVars
<1>2. \A w \in Threads : pc[w] # "run"
  BY <1>1 DEF StopJoined
<1> QED BY <1>2 DEF BGInv, Hands, Covered

\* Stop(true) returns only when the tasks it found pending have returned.
THEOREM StopCoversPending ==
  ASSUME BGPoolAssumption
  PROVE  Spec => StopWaitsForPending
<1>1. BGInv /\ [Next]_vars => [spc = "join" /\ spc' = "idle" => awaited \subseteq finished]_vars
  BY StopCovers
<1> QED BY <1>1, BGInvariance, PTL DEF Spec, StopWaitsForPending

LEMMA CancelCovers ==
  ASSUME BGPoolAssumption, N = 1, BGInv, [Next]_vars
  PROVE  CancelCovered
<1> SUFFICES ASSUME cancel # NoCancel, cancel' = NoCancel, ~cancel.nb,
                    NEW w \in Threads, pc[w] = "run", job[w] = cancel.id
             PROVE  FALSE
  BY DEF CancelCovered
<1>1. CancelStep
  <2>1. cancel' # cancel
    OBVIOUS
  <2> QED BY <2>1
    DEF Next, Stopper, Tick, Start, StopPoll, StopSet, StopJoined, StopCall, ProfilingLog, AddTask,
        AddPriorityTask, DelayTask, CancelTask, ThreadProc, ThreadWait, ThreadExit, ThreadTimer,
        ThreadTimedWait, ThreadTask, TaskReturns, TaskCounted, Relock, WaitTimeout,
        SpuriousWakeup, vars
<1>2. running # cancel.id
  BY <1>1 DEF CancelStep
<1> QED BY <1>2 DEF BGInv, Hands, OneRunner, CancelNames

\* With one thread, a blocking CancelTask returns only when its task does not
\* run.
THEOREM CancelCoversTask ==
  ASSUME BGPoolAssumption, N = 1
  PROVE  Spec => CancelWaits
<1>1. BGInv /\ [Next]_vars => [CancelCovered]_vars
  BY CancelCovers
<1> QED BY <1>1, BGInvariance, PTL DEF Spec, CancelWaits

=============================================================================
