------------------------------ MODULE Reactors ------------------------------
(***************************************************************************)
(* What runs callbacks for its clients: the event loop of util/ae_util,    *)
(* SequenceTimer and TimerQueue of util/timer, and the two coroutine       *)
(* schedulers of util/coroutine_util.  rep is the representation, model    *)
(* the clock, the work a client has left and what it has been promised.    *)
(***************************************************************************)
EXTENDS Integers, Sequences, FiniteSets, SequencesExt, FiniteSetsExt, Functions, TLC

CONSTANTS
  MaxFd,      \* the descriptors are 0 .. MaxFd
  Second,     \* clock ticks in a second
  MaxTime,    \* bound on the clock
  MaxOps,     \* bound on the calls of the clients
  Cap,        \* DEFAULT_COROUTINE
  MaxDepth,   \* bound on the frames of a coroutine
  MaxThreads  \* bound on the user threads

ReactorAssumption ==
  /\ {Second, MaxTime, MaxOps, Cap, MaxDepth, MaxThreads} \subseteq Nat \ {0} /\ MaxFd \in Nat

VARIABLES rep, model

vars == <<rep, model>>

Spend(m) == [m EXCEPT !.ops = @ - 1]
Tick == /\ model.clock < MaxTime /\ model' = [model EXCEPT !.clock = @ + 1] /\ UNCHANGED rep

-----------------------------------------------------------------------------
(* aeEventLoop.  The thread is idle, inside a callback (file or time), or  *)
(* between two steps of aeProcessEvents.  A client may call the loop's     *)
(* functions while it is idle and from every callback.                     *)

Fds == 0 .. MaxFd
DELETED == -1
Masks == {{"R"}, {"W"}, {"R", "W"}, {"W", "B"}}

AeInit ==
  /\ rep = [mask |-> [f \in Fds |-> {}], rproc |-> [f \in Fds |-> 0], wproc |-> [f \in Fds |-> 0],
            epoll |-> [f \in Fds |-> {}],        \* what the kernel watches
            maxfd |-> -1, setsize |-> MaxFd + 1, timers |-> <<>>, nextId |-> 0, last |-> 0,
            pc |-> "idle", fired |-> <<>>, invert |-> FALSE, called |-> <<>>, te |-> 0, maxId |-> 0, stop |-> FALSE,
            timed |-> TRUE]
  \* a bound: the clients of one behaviour either register descriptors or timers
  /\ \E about \in {"files", "times"} : model = [clock |-> 0, ops |-> MaxOps, passed |-> 0, finalized |-> {}, about |-> about]

InCallback == rep.pc \in {"idle", "read", "write", "late", "time"}

aeCreateFileEvent(fd, mask, proc) ==
  /\ fd < rep.setsize
  /\ \E failed \in BOOLEAN : rep' = IF failed THEN rep ELSE [rep EXCEPT       \* epoll_ctl
       !.epoll[fd] = (mask \cup rep.mask[fd]) \ {"B"}, !.mask[fd] = @ \cup mask,
       !.rproc[fd] = IF "R" \in mask THEN proc ELSE @, !.wproc[fd] = IF "W" \in mask THEN proc ELSE @,
       !.maxfd = Max({@, fd})]

\* fault: the highest descriptor is taken to be the one below
FdBelow(s) == s.maxfd - 1
HighestFd(s) == Max({-1} \cup {f \in 0 .. s.maxfd - 1 : s.mask[f] # {}})
aeDeleteFileEvent(fd, mask) ==
  /\ fd < rep.setsize /\ rep.mask[fd] # {}
  /\ LET left == rep.mask[fd] \ (IF "W" \in mask THEN mask \cup {"B"} ELSE mask)
         s == [rep EXCEPT !.mask[fd] = left, !.epoll[fd] = left \ {"B"}]
     IN rep' = IF fd = rep.maxfd /\ left = {} THEN [s EXCEPT !.maxfd = HighestFd(s)] ELSE s

aeResizeSetSize(n) ==
  /\ rep.pc = "idle" /\ n # rep.setsize
  /\ rep' = IF rep.maxfd >= n THEN rep
            ELSE [rep EXCEPT !.setsize = n, !.mask = [f \in Fds |-> IF f > rep.maxfd /\ f < n THEN {} ELSE @[f]]]

aeAddMillisecondsToNow(ms) == model.clock + ms
aeCreateTimeEvent(ms) ==
  /\ rep' = [rep EXCEPT !.nextId = @ + 1,
       !.timers = <<[node |-> rep.nextId, id |-> rep.nextId, when |-> aeAddMillisecondsToNow(ms)]>> \o @]
Node(n) == SelectInSeq(rep.timers, LAMBDA t : t.node = n)
aeDeleteTimeEvent(id) ==
  LET i == SelectInSeq(rep.timers, LAMBDA t : t.id = id)
  IN i # 0 /\ rep' = [rep EXCEPT !.timers[i].id = DELETED]

ClientCalls ==
  /\ InCallback /\ model.ops > 0 /\ model' = Spend(model)
  /\ \/ /\ model.about = "files"
        /\ \/ \E fd \in Fds : (\E m \in Masks, proc \in 1 .. 2 : aeCreateFileEvent(fd, m, proc))
                               \/ \E m \in {{"R"}, {"W"}} : aeDeleteFileEvent(fd, m)
           \/ \E n \in 1 .. MaxFd + 1 : aeResizeSetSize(n)
     \/ /\ model.about = "times"
        /\ \/ \E ms \in 0 .. 1 : aeCreateTimeEvent(ms)
           \/ \E i \in DOMAIN rep.timers : rep.timers[i].id # DELETED /\ aeDeleteTimeEvent(rep.timers[i].id)
           \/ rep' = [rep EXCEPT !.stop = TRUE]                  \* aeStop

\* aeProcessEvents up to the return of aeApiPoll.  A deleted timer still counts as the nearest.
Nearest == Min({rep.timers[i].when : i \in DOMAIN rep.timers})
FiredMasks(fd) == (SUBSET rep.epoll[fd] \cup {{"W"}, rep.epoll[fd] \cup {"W"}}) \ {{}}   \* an error counts as writable
Watched == {fd \in Fds : rep.mask[fd] # {}}
aeProcessEvents(wait, timed) ==
  /\ rep.pc = "idle" /\ ~rep.stop
  /\ \E order \in SetToAllKPermutations(Watched) : \E fired \in [DOMAIN order -> SUBSET {"R", "W"}] :
       /\ \A j \in DOMAIN order : fired[j] \in FiredMasks(order[j])
       /\ rep' = [rep EXCEPT !.fired = [j \in DOMAIN order |-> [fd |-> order[j], mask |-> fired[j]]], !.pc = "files", !.timed = timed]
       /\ IF order # <<>> \/ ~wait THEN UNCHANGED model
          ELSE /\ timed /\ rep.timers # <<>> /\ Nearest <= MaxTime
               /\ model' = [model EXCEPT !.clock = Max({@, Nearest})]

\* One descriptor: the read callback, the write callback, the read callback if it was put off.
Calls(fd, kind) == kind \in rep.mask[fd] \cap Head(rep.fired).mask
FileStep ==
  LET fd == Head(rep.fired).fd
      again == rep.called = <<>> \/ rep.wproc[fd] # rep.rproc[fd]
      Move(pc, calls, kind) ==
        rep' = IF calls THEN [rep EXCEPT !.pc = pc, !.called = Append(@, kind)] ELSE [rep EXCEPT !.pc = pc \o "n"]
  IN /\ UNCHANGED model
     /\ \/ /\ rep.pc = "files" /\ rep.fired # <<>>
           /\ LET inverted == "B" \in rep.mask[fd]
              IN rep' = IF ~inverted /\ Calls(fd, "R")
                        THEN [rep EXCEPT !.invert = FALSE, !.pc = "read", !.called = <<"R">>]
                        ELSE [rep EXCEPT !.invert = inverted, !.pc = "readn", !.called = <<>>]
        \/ /\ rep.pc \in {"read", "readn"} /\ Move("write", Calls(fd, "W") /\ again, "W")
        \/ /\ rep.pc \in {"write", "writen"} /\ Move("late", rep.invert /\ Calls(fd, "R") /\ again, "R")
        \/ /\ rep.pc \in {"late", "laten"} /\ rep' = [rep EXCEPT !.fired = Tail(@), !.pc = "files", !.called = <<>>]

\* processTimeEvents: a clock that went back makes every timer due.
TimeBegin ==
  /\ rep.pc = "files" /\ rep.fired = <<>> /\ rep.timed
  /\ LET now == model.clock \div Second
         skewed == [i \in DOMAIN rep.timers |-> [rep.timers[i] EXCEPT !.when = IF now < rep.last THEN @ % Second ELSE @]]
     IN rep' = [rep EXCEPT !.timers = skewed, !.last = now, !.pc = "timers", !.maxId = rep.nextId - 1,
                           !.te = IF skewed = <<>> THEN DELETED ELSE skewed[1].node]
  /\ model' = [model EXCEPT !.passed = model.clock]

\* fault: the timer after a removed one is stepped over
TwoOn(i) == IF i + 2 <= Len(rep.timers) THEN rep.timers[i + 2].node ELSE DELETED
Onward(i) == IF i < Len(rep.timers) THEN rep.timers[i + 1].node ELSE DELETED
TimeStep ==
  LET i == Node(rep.te)
      t == rep.timers[i]
  IN /\ rep.pc = "timers" /\ rep.te # DELETED
     /\ \/ /\ t.id = DELETED
           /\ rep' = [rep EXCEPT !.timers = RemoveAt(@, i), !.te = Onward(i)]
           /\ model' = [model EXCEPT !.finalized = @ \cup {t.node}]
        \/ /\ t.id # DELETED /\ (t.id > rep.maxId \/ t.when > model.clock)
           /\ rep' = [rep EXCEPT !.te = Onward(i)] /\ UNCHANGED model
        \/ /\ t.id # DELETED /\ t.id <= rep.maxId /\ t.when <= model.clock
           /\ rep' = [rep EXCEPT !.pc = "time"] /\ UNCHANGED model
TimeReturn ==
  /\ rep.pc = "time"
  /\ LET i == Node(rep.te)
     IN \/ rep' = [rep EXCEPT !.timers[i].id = DELETED, !.pc = "timers", !.te = Onward(i)]        \* AE_NOMORE
        \/ rep' = [rep EXCEPT !.timers[i].when = aeAddMillisecondsToNow(1), !.pc = "timers", !.te = Onward(i)]
  /\ UNCHANGED model
PassEnd ==
  /\ \/ rep.pc = "timers" /\ rep.te = DELETED
     \/ rep.pc = "files" /\ rep.fired = <<>> /\ ~rep.timed
  /\ rep' = [rep EXCEPT !.pc = "idle"] /\ UNCHANGED model
aeMain == /\ rep.pc = "idle" /\ rep.stop /\ rep' = [rep EXCEPT !.stop = FALSE] /\ UNCHANGED model
ClockBack == /\ model.clock >= Second /\ rep.pc = "idle" /\ model' = [model EXCEPT !.clock = @ - Second] /\ UNCHANGED rep

AeNext ==
  \/ ClientCalls \/ FileStep \/ TimeBegin \/ TimeStep \/ TimeReturn \/ PassEnd \/ aeMain \/ ClockBack
  \/ (InCallback /\ model.about = "times" /\ Tick) \/ \E wait, timed \in BOOLEAN : aeProcessEvents(wait, timed)
-----------------------------------------------------------------------------
(* SequenceTimer: a list of timers for every interval, used by one thread. *)
(* lists maps an interval to its list; a callback may start and stop       *)
(* timers, and time passes while it runs.                                  *)

SequenceInit ==
  /\ rep = [lists |-> <<>>, item |-> <<>>, byid |-> {}, pc |-> "idle", now |-> 0, todo |-> {}, cur |-> 0, size |-> 0]
  /\ model = [clock |-> 0, ops |-> MaxOps, late |-> 0]

PushBack(lists, ms, id) ==
  [k \in DOMAIN lists \cup {ms} |-> IF k # ms THEN lists[k] ELSE Append(IF ms \in DOMAIN lists THEN lists[k] ELSE <<>>, id)]
StartTimer(ms) ==
  LET id == Len(rep.item) + 1
  IN rep' = [rep EXCEPT !.lists = PushBack(@, ms, id), !.byid = @ \cup {id},
                        !.item = Append(@, [stoped |-> FALSE, timeout |-> model.clock + ms])]
StopTimer(id) ==
  /\ id \in rep.byid
  /\ rep' = [rep EXCEPT !.byid = @ \ {id}, !.item[id].stoped = TRUE]
SequenceCalls ==
  /\ rep.pc \in {"idle", "called"} /\ model.ops > 0 /\ model' = Spend(model)
  /\ (\E ms \in 1 .. 2 : StartTimer(ms)) \/ (\E id \in rep.byid : StopTimer(id))

UpdateBegin ==
  /\ rep.pc = "idle" /\ rep.lists # <<>>
  /\ \E first \in DOMAIN rep.lists :          \* the hash map has any order
       rep' = [rep EXCEPT !.pc = "update", !.now = model.clock, !.size = Cardinality(DOMAIN rep.lists),
                          !.cur = first, !.todo = DOMAIN rep.lists \ {first}]
  /\ UNCHANGED model
UpdateStep ==
  LET list == rep.lists[rep.cur]
      broken == Cardinality(DOMAIN rep.lists) # rep.size
  IN /\ rep.pc = "update" /\ UNCHANGED model
     /\ \/ /\ list # <<>> /\ rep.item[list[1]].stoped
           /\ rep' = [rep EXCEPT !.lists[rep.cur] = Tail(@)]
        \/ /\ list # <<>> /\ ~rep.item[list[1]].stoped /\ rep.item[list[1]].timeout <= rep.now
           /\ rep' = [rep EXCEPT !.pc = "called"]
        \/ /\ list # <<>> => (~rep.item[list[1]].stoped /\ rep.item[list[1]].timeout > rep.now)
           /\ IF broken \/ rep.todo = {}
              THEN rep' = [rep EXCEPT !.pc = IF broken THEN "broken" ELSE "updated"]
              ELSE \E next \in rep.todo : rep' = [rep EXCEPT !.cur = next, !.todo = @ \ {next}]
\* fault: an interval the callback asks for is counted from the old expiry, on the list it was on
SameList(cur, ret) == cur
NewInterval(cur, ret) == IF ret > 0 THEN ret ELSE cur
CallbackReturns(ret) ==
  LET id == Head(rep.lists[rep.cur])
      erased == [rep.lists EXCEPT ![rep.cur] = Tail(@)]
  IN /\ rep.pc = "called" /\ UNCHANGED model
     /\ rep' = IF ret < 0 THEN [rep EXCEPT !.pc = "update", !.byid = @ \ {id}, !.lists = erased, !.item[id].stoped = TRUE]
               ELSE [rep EXCEPT !.pc = "update", !.item[id].timeout = rep.now + (IF ret > 0 THEN ret ELSE rep.cur),
                                !.lists = PushBack(erased, NewInterval(rep.cur, ret), id)]
UpdateEnd == /\ rep.pc \in {"updated", "broken"} /\ rep' = [rep EXCEPT !.pc = "idle"] /\ UNCHANGED model
SequenceTick ==
  /\ rep.pc \in {"idle", "called"} /\ model.clock < MaxTime /\ UNCHANGED rep
  /\ model' = [model EXCEPT !.clock = @ + 1, !.late = IF rep.pc = "called" THEN Max({@, model.clock + 1 - rep.now}) ELSE @]
SequenceNext ==
  \/ SequenceCalls \/ UpdateBegin \/ UpdateStep \/ UpdateEnd \/ SequenceTick
  \/ \E ret \in -1 .. 2 : CallbackReturns(ret)

-----------------------------------------------------------------------------
(* TimerQueue: a thread that runs handlers, with m_mtx held except while   *)
(* it waits or runs a handler.  Items are kept in the array of a           *)
(* std::priority_queue; h is the handler (0 once it was moved away, -1 for *)
(* the one that ends the thread), end 0 is the beginning of time.          *)

QueueInit ==
  /\ rep = [items |-> <<>>, idcounter |-> 0, finish |-> FALSE, cancel |-> FALSE, pc |-> "start", until |-> 0,
            woken |-> FALSE, cur |-> <<>>, client |-> "using"]
  /\ model = [clock |-> 1, ops |-> MaxOps, done |-> {}]

Item(end, id, h) == [end |-> end, id |-> id, h |-> h]
Up(seq, i) == FoldLeft(LAMBDA c, k : IF c[2] > 1 /\ c[1][c[2] \div 2].end > c[1][c[2]].end
    THEN <<[c[1] EXCEPT ![c[2]] = c[1][c[2] \div 2], ![c[2] \div 2] = c[1][c[2]]], c[2] \div 2>> ELSE c,
  <<seq, i>>, [k \in 1 .. Len(seq) |-> k])[1]
push(seq, x) == Up(Append(seq, x), Len(seq) + 1)
\* the hole at the top moves down to a leaf, where the last element is put in and moves up
pop(seq) ==
  LET n == Len(seq) - 1
      Lower(s, i) == IF 2 * i + 1 > n \/ s[2 * i + 1].end > s[2 * i].end THEN 2 * i ELSE 2 * i + 1
      down == FoldLeft(LAMBDA c, k : IF 2 * c[2] > n THEN c
                ELSE <<[c[1] EXCEPT ![c[2]] = c[1][Lower(c[1], c[2])]], Lower(c[1], c[2])>>,
              <<Front(seq), 1>>, [k \in 1 .. n |-> k])
  IN IF n = 0 THEN <<>> ELSE Up([down[1] EXCEPT ![down[2]] = Last(seq)], down[2])

Unlocked == rep.pc \in {"start", "wait", "handler"}
Notified(s) == IF s.pc = "wait" THEN [s EXCEPT !.woken = TRUE] ELSE s

add(ms) ==
  /\ rep' = Notified([rep EXCEPT !.idcounter = @ + 1,
       !.items = push(@, Item(model.clock + ms, rep.idcounter + 1, rep.idcounter + 1))])
cancel(id) ==
  LET i == SelectInSeq(rep.items, LAMBDA x : x.id = id /\ x.h # 0)
  IN i # 0 /\ rep' = Notified([rep EXCEPT !.items = push([@ EXCEPT ![i].h = 0], Item(0, 0, rep.items[i].h))])
\* fault: what was cancelled keeps its time
CancelLater(x) == [x EXCEPT !.id = 0]
CancelItem(x) == [x EXCEPT !.end = 0, !.id = 0]
Cancelled(items) == [i \in DOMAIN items |-> IF items[i].id # 0 /\ items[i].h # 0 THEN CancelItem(items[i]) ELSE items[i]]
QueueCalls ==
  /\ Unlocked /\ rep.client = "using" /\ model.ops > 0 /\ model' = Spend(model)
  /\ \/ \E ms \in 1 .. 2 : add(ms)
     \/ \E id \in 1 .. rep.idcounter : cancel(id)
cancelAll(client) ==
  /\ Unlocked /\ rep.client = "using" /\ UNCHANGED model
  /\ rep' = Notified([rep EXCEPT !.cancel = TRUE, !.items = Cancelled(@), !.client = client])
AddFinish ==
  /\ Unlocked /\ rep.client = "ending" /\ UNCHANGED model
  /\ rep' = Notified([rep EXCEPT !.idcounter = @ + 1, !.client = "joining",
       !.items = push(@, Item(model.clock, rep.idcounter + 1, -1))])
Joined == /\ rep.client = "joining" /\ rep.pc = "done" /\ rep' = [rep EXCEPT !.client = "joined"] /\ UNCHANGED model

\* calcWaitTime_lock: items without a handler that come first are dropped.
calcWaitTime_lock(s) ==
  LET t == FoldLeft(LAMBDA q, k : IF q # <<>> /\ q[1].h = 0 THEN pop(q) ELSE q, s.items, s.items)
  IN [s EXCEPT !.items = t, !.pc = "wait", !.woken = FALSE, !.until = IF t = <<>> THEN MaxTime + 9 ELSE t[1].end]
\* checkWork up to the next handler, or to the next wait of run.
checkWork(s) ==
  LET c == FoldLeft(LAMBDA q, k : IF q[2] # <<>> \/ q[1] = <<>> THEN q
                      ELSE IF q[1][1].end > model.clock THEN q
                      ELSE <<pop(q[1]), IF q[1][1].h = 0 THEN <<>> ELSE <<q[1][1]>> >>,
                    <<s.items, <<>>>>, s.items)
      t == [s EXCEPT !.items = c[1], !.cur = c[2]]
  IN IF c[2] # <<>> THEN [t EXCEPT !.pc = "handler"]
     ELSE IF s.finish THEN [t EXCEPT !.pc = "done"] ELSE calcWaitTime_lock(t)
RunBegin == rep.pc = "start" /\ rep' = calcWaitTime_lock(rep) /\ UNCHANGED model
RunWoken == /\ rep.pc = "wait" /\ (rep.woken \/ rep.until <= model.clock) /\ rep' = checkWork(rep) /\ UNCHANGED model
HandlerReturns(reschedule) ==
  LET x == rep.cur[1]
      again == reschedule /\ ~rep.cancel
      s == [rep EXCEPT !.cur = <<>>, !.finish = @ \/ x.h = -1,
             !.items = IF again THEN push(@, [x EXCEPT !.end = model.clock + 1]) ELSE @]
  IN /\ rep.pc = "handler" /\ (reschedule => x.h > 0 /\ x.id # 0 /\ model.clock < MaxTime)
     /\ rep' = checkWork(s)
     /\ model' = [model EXCEPT !.done = IF again \/ x.h = -1 THEN @ ELSE @ \cup {x.h}]
QueueNext ==
  \/ QueueCalls \/ cancelAll("using") \/ cancelAll("ending") \/ AddFinish \/ Joined \/ RunBegin \/ RunWoken \/ (Unlocked /\ Tick)
  \/ \E reschedule \in BOOLEAN : HandlerReturns(reschedule)

-----------------------------------------------------------------------------
(* SimpleCoroutine: coroutines that share one stack, which is copied out   *)
(* when one yields.  The frames of the running coroutine are a sequence.   *)

NULL == <<>>
CoroutineInit ==
  /\ rep = [co |-> [i \in 0 .. Cap - 1 |-> NULL], nco |-> 0, cap |-> Cap, running |-> -1, stack |-> <<>>]
  /\ model = [frames |-> <<>>]        \* of every coroutine made so far

Frames == UNION {[1 .. n -> 1 .. 2] : n \in 1 .. MaxDepth}
coroutine_new ==
  LET c == [c |-> Len(model.frames) + 1, status |-> "READY", cap |-> 0, size |-> 0, stack |-> <<>>]
      i == Min({i \in 0 .. rep.cap - 1 : rep.co[(i + rep.nco) % rep.cap] = NULL})
  IN /\ Len(model.frames) < MaxThreads /\ model' = [model EXCEPT !.frames = Append(@, <<>>)]
     /\ rep' = IF rep.nco >= rep.cap
               THEN [rep EXCEPT !.nco = @ + 1, !.cap = 2 * @,
                      !.co = [j \in 0 .. 2 * rep.cap - 1 |-> IF j = rep.cap THEN c ELSE IF j < rep.cap THEN @[j] ELSE NULL]]
               ELSE [rep EXCEPT !.nco = @ + 1, !.co[(i + rep.nco) % rep.cap] = c]
coroutine_resume(id) ==
  LET c == rep.co[id]
  IN /\ rep.running = -1 /\ c # NULL
     /\ rep' = [rep EXCEPT !.running = id, !.co[id].status = "RUNNING",
                           !.stack = IF c.status = "READY" THEN <<1>> ELSE SubSeq(c.stack, 1, c.size)]
     /\ model' = IF c.status = "READY" THEN [model EXCEPT !.frames[c.c] = <<1>>] ELSE model
\* fault: the size is only set together with the buffer
_save_larger(c, live) ==
  IF c.cap < Len(live) THEN [c EXCEPT !.cap = Len(live), !.size = Len(live), !.stack = live]
  ELSE [c EXCEPT !.stack = live \o SubSeq(@, Len(live) + 1, Len(@))]
_save_stack(c, live) ==
  [c EXCEPT !.cap = Max({@, Len(live)}), !.size = Len(live),
            !.stack = live \o (IF c.cap < Len(live) THEN <<>> ELSE SubSeq(@, Len(live) + 1, Len(@)))]
coroutine_yield ==
  /\ rep.running # -1 /\ UNCHANGED model
  /\ rep' = [rep EXCEPT !.co[rep.running] = [_save_stack(@, rep.stack) EXCEPT !.status = "SUSPEND"], !.running = -1,
                        !.stack = <<>>]
mainfunc ==
  /\ rep.running # -1 /\ UNCHANGED model
  /\ rep' = [rep EXCEPT !.co[rep.running] = NULL, !.nco = @ - 1, !.running = -1, !.stack = <<>>]
Compute(frames) ==       \* the coroutine's own calls and returns
  /\ rep.running # -1
  /\ rep' = [rep EXCEPT !.stack = frames] /\ model' = [model EXCEPT !.frames[rep.co[rep.running].c] = frames]
CoroutineNext ==
  \/ coroutine_new \/ coroutine_yield \/ mainfunc
  \/ (\E f \in Frames : Compute(f)) \/ \E id \in 0 .. rep.cap - 1 : coroutine_resume(id)

-----------------------------------------------------------------------------
(* easy_uthread: user threads with a stack of their own and a run queue.   *)

UthreadInit ==
  /\ rep = [runqueue |-> <<>>, thread_list |-> <<>>, thread_count |-> 0, running |-> 0, ready |-> {}, exiting |-> {},
            stoped |-> FALSE, exit_value |-> 0, gid |-> 0, pc |-> "main"]
  /\ model = [freed |-> <<>>]         \* the pools that were destroyed, in order

easy_uthread_ready(s, t) == [s EXCEPT !.ready = @ \cup {t}, !.runqueue = Append(@, t)]
easy_uthread_create ==
  LET t == rep.gid + 1
  IN /\ rep.pc \in {"main", "run"} /\ t <= MaxThreads /\ UNCHANGED model
     /\ rep' = easy_uthread_ready([rep EXCEPT !.gid = t, !.thread_count = @ + 1, !.thread_list = Append(@, t)], t)
easy_uthread_switch(s) == [s EXCEPT !.pc = "switched"]
easy_uthread_yield ==
  /\ rep.pc = "run" /\ rep' = easy_uthread_switch(easy_uthread_ready(rep, rep.running)) /\ UNCHANGED model
Sleep == rep.pc = "run" /\ rep' = easy_uthread_switch(rep) /\ UNCHANGED model
easy_uthread_exit(val) ==
  /\ rep.pc = "run" /\ UNCHANGED model
  /\ rep' = easy_uthread_switch([rep EXCEPT !.exit_value = val, !.exiting = @ \cup {rep.running}])
Asleep == ToSet(rep.thread_list) \ (rep.ready \cup rep.exiting \cup {rep.running})
Wake(t) == rep.pc = "run" /\ rep' = easy_uthread_ready(rep, t) /\ UNCHANGED model
easy_uthread_stop == rep.pc = "run" /\ ~rep.stoped /\ rep' = [rep EXCEPT !.stoped = TRUE] /\ UNCHANGED model

\* fault: a thread that exits stays on the list of all threads
LeaveListed(list, t) == list
Unlisted(list, t) == SelectSeq(list, LAMBDA x : x # t)
\* easy_uthread_scheduler: what follows the switch back, and the next turn of its loop.
Reap ==
  /\ rep.pc = "switched"
  /\ LET t == rep.running
         s == [rep EXCEPT !.running = 0, !.pc = "sched"]
     IN IF t \in rep.exiting
        THEN /\ rep' = [s EXCEPT !.thread_list = Unlisted(@, t), !.thread_count = @ - 1]
             /\ model' = [model EXCEPT !.freed = Append(@, t)]
        ELSE rep' = s /\ UNCHANGED model
Schedule ==
  /\ rep.pc \in {"main", "sched"} /\ UNCHANGED model
  /\ \/ /\ rep.stoped \/ rep.thread_count = 0
        /\ rep' = [rep EXCEPT !.pc = "returned"]
     \/ /\ ~rep.stoped /\ rep.thread_count # 0 /\ rep.runqueue = <<>>
        /\ rep' = [rep EXCEPT !.pc = "stuck", !.exit_value = 1]
     \/ /\ ~rep.stoped /\ rep.thread_count # 0 /\ rep.runqueue # <<>>
        /\ rep' = [rep EXCEPT !.runqueue = Tail(@), !.ready = @ \ {Head(rep.runqueue)}, !.running = Head(rep.runqueue),
                              !.pc = "run"]
easy_uthread_destroy ==
  /\ rep.pc \in {"returned", "stuck"} /\ rep' = [rep EXCEPT !.pc = "destroyed"]
  /\ model' = [model EXCEPT !.freed = @ \o rep.thread_list]
UthreadNext ==
  \/ easy_uthread_create \/ easy_uthread_yield \/ Sleep \/ (\E t \in Asleep : Wake(t)) \/ easy_uthread_stop
  \/ (\E val \in 0 .. 1 : easy_uthread_exit(val)) \/ Reap \/ Schedule \/ easy_uthread_destroy

-----------------------------------------------------------------------------
(* Properties *)

\* Whatever callbacks register and delete in the middle of a pass, the kernel watches what the loop
\* believes (aeApiAddEvent, aeApiDelEvent), maxfd is the highest registered descriptor, on which
\* aeProcessEvents decides whether to poll at all, and a barrier that was set when a descriptor's turn
\* came keeps the write callback before the read callback.
LoopExact ==
  /\ \A f \in Fds : rep.epoll[f] = rep.mask[f] \ {"B"}
  /\ rep.maxfd = Max({-1} \cup {f \in Fds : rep.mask[f] # {}}) /\ rep.maxfd < rep.setsize
  /\ rep.invert => rep.called \in {<<>>, <<"R">>, <<"W">>, <<"W", "R">>}

\* When processTimeEvents is through, no timer that existed when it began is still due, although
\* callbacks delete and create timers during the pass; a removed timer was finalized once.
TimersServed ==
  /\ rep.pc = "timers" /\ rep.te = DELETED =>
       \A i \in DOMAIN rep.timers : rep.timers[i].id \in 0 .. rep.maxId => rep.timers[i].when > model.passed
  /\ model.finalized \cup {rep.timers[i].node : i \in DOMAIN rep.timers} = 0 .. rep.nextId - 1
  /\ model.finalized \cap {rep.timers[i].node : i \in DOMAIN rep.timers} = {}

\* SequenceTimer finds the timers that are due at the front of the lists.  m_id_2_timer holds exactly
\* the timers that are neither stopped nor over, each is on one list, and an Update that visited all
\* lists leaves no timer due for longer than a callback has ever taken, although a timer started by a
\* callback is put in front of the one whose callback runs.
SequenceExact ==
  LET On(id) == UNION {{<<k, i>> : i \in {j \in DOMAIN rep.lists[k] : rep.lists[k][j] = id}} : k \in DOMAIN rep.lists}
  IN /\ \A id \in DOMAIN rep.item : Cardinality(On(id)) <= 1
     /\ rep.byid = {id \in DOMAIN rep.item : ~rep.item[id].stoped}
     /\ \A id \in rep.byid : /\ On(id) # {}
                             /\ rep.pc = "updated" => rep.item[id].timeout > rep.now - model.late

\* Every handler given to the TimerQueue is waiting on one item, running, or has been run for good,
\* never two of these, and all have been run when the destructor returns.
HandlersOnce ==
  \A h \in 1 .. rep.idcounter :
    LET waiting == {i \in DOMAIN rep.items : rep.items[i].h = h}
        running == rep.cur # <<>> /\ rep.cur[1].h = h
    IN \/ h = rep.idcounter /\ rep.client \in {"joining", "joined"}
       \/ /\ Cardinality(waiting) = (IF running \/ h \in model.done THEN 0 ELSE 1)
          /\ ~(running /\ h \in model.done)
          /\ rep.pc = "done" => h \in model.done

\* The steps of TimerQueue's thread, and when it has one to take.
TimerThread == RunBegin \/ RunWoken \/ \E reschedule \in BOOLEAN : HandlerReturns(reschedule)
TimerReady == rep.pc \in {"start", "handler"} \/ (rep.pc = "wait" /\ (rep.woken \/ rep.until <= model.clock))

\* However its frames grew and shrank before, a coroutine that is resumed finds the frames it yielded
\* with on the shared stack; slots are never given to two coroutines, also when coroutine_new runs inside
\* a coroutine and moves the table, nco counts them and only the running one has that status.
StacksRestored ==
  LET used == {i \in DOMAIN rep.co : rep.co[i] # NULL}
  IN /\ rep.nco = Cardinality(used) /\ rep.nco <= rep.cap
     /\ \A i, j \in used : rep.co[i].c = rep.co[j].c => i = j
     /\ {i \in used : rep.co[i].status = "RUNNING"} = {rep.running} \ {-1}
     /\ rep.running # -1 => rep.stack = model.frames[rep.co[rep.running].c]

\* A user thread is on the run queue at most once and exactly while it is ready, its memory is released
\* once and not while it is listed, all of it is released in the end, and the scheduler gives up only
\* when every thread that is left sleeps.
UthreadsExact ==
  /\ ToSet(rep.runqueue) = rep.ready /\ IsInjective(rep.runqueue)
  /\ rep.thread_count = Len(rep.thread_list) /\ IsInjective(model.freed)
  /\ rep.pc # "destroyed" => ToSet(model.freed) \cap ToSet(rep.thread_list) = {}
  /\ rep.pc = "destroyed" => ToSet(model.freed) = 1 .. rep.gid
  /\ rep.pc = "stuck" => Asleep = ToSet(rep.thread_list)
\* A user thread gives the processor away.
GivesWay == easy_uthread_yield \/ Sleep \/ \E val \in 0 .. 1 : easy_uthread_exit(val)

=============================================================================
