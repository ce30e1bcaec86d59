------------------------------- MODULE Runtime -------------------------------
(***************************************************************************)
(* Threads and what a process keeps for all of them: PosixThread, BGThread *)
(* and StdThreadWorker of util/thread_util, the thread local objects of    *)
(* util/threadlocal_util, AtExitManager of util/exit_util, the signal      *)
(* handlers of util/signal_util, the Registry of util/registry_util and    *)
(* the owning pointers of util/scoped_util.  rep is the state of the code, *)
(* model what the clients did and saw.                                     *)
(***************************************************************************)
EXTENDS Integers, Sequences, FiniteSets, SequencesExt, FiniteSetsExt, Functions, TLC

CONSTANTS
  Clients,    \* the threads that call
  MaxJobs,    \* bound on the jobs of a behaviour
  Full,       \* full_ of a BGThread
  Tids,       \* the thread ids of the kernel
  MaxObjects, \* bound on the objects of a behaviour
  Names       \* the names of registered entries

RuntimeAssumption == {MaxJobs, Full, MaxObjects} \subseteq Nat \ {0} /\ IsFiniteSet(Clients)

VARIABLES rep, model

vars == <<rep, model>>

-----------------------------------------------------------------------------
(* PosixThread: its owner and the thread it starts.  The owner's position  *)
(* is opc, the thread's tpc.                                               *)

PosixInit ==
  /\ \E periodic \in BOOLEAN :
       rep = [periodic |-> periodic, tid |-> 0, joinable |-> TRUE, is_running |-> FALSE, run_latch |-> 0, stop_latch |-> 0,
              opc |-> "idle", tpc |-> "none"]
  /\ model = [calls |-> 0, cancelled |-> FALSE, joins |-> 0, detached |-> FALSE]

Owner(from, to) == rep.opc = from /\ rep' = [rep EXCEPT !.opc = to] /\ UNCHANGED model
start ==
  /\ rep.opc = "idle" /\ rep.tid = 0                    \* isStarted
  /\ rep' = [rep EXCEPT !.run_latch = 1, !.opc = "create"] /\ UNCHANGED model
CreateThread ==
  /\ rep.opc = "create" /\ UNCHANGED model
  /\ \/ rep' = [rep EXCEPT !.tid = 1, !.tpc = "begin", !.opc = "created"]
     \/ rep' = [rep EXCEPT !.run_latch = 0, !.opc = "idle"]          \* pthread_create fails
Started == /\ rep.opc = "created" /\ rep' = [rep EXCEPT !.is_running = TRUE, !.opc = "idle"] /\ UNCHANGED model
cancelThread ==
  /\ rep.opc = "idle" /\ ~model.cancelled
  /\ rep' = [rep EXCEPT !.is_running = FALSE] /\ model' = [model EXCEPT !.cancelled = rep.tid = 1]
\* fault: a joined thread can be joined again
StillJoinable(joinable) == joinable
Unjoinable(joinable) == FALSE
join ==
  /\ rep.opc = "idle" /\ rep.tid = 1 /\ rep.joinable /\ rep.tpc = "over"
  /\ rep' = [rep EXCEPT !.joinable = Unjoinable(@)] /\ model' = [model EXCEPT !.joins = @ + 1]
detach ==
  /\ rep.opc = "idle" /\ rep.tid = 1 /\ rep.joinable
  /\ rep' = [rep EXCEPT !.joinable = Unjoinable(@)] /\ model' = [model EXCEPT !.joins = @ + 1, !.detached = TRUE]
waitUntilRun ==
  \/ Owner("idle", "waitrun")
  \/ rep.run_latch <= 0 /\ Owner("waitrun", IF rep.tid = 1 THEN "seenrun" ELSE "idle")
  \/ Owner("seenrun", "idle")
Wrapper ==
  /\ \/ /\ rep.tpc = "begin"
        /\ rep' = [rep EXCEPT !.run_latch = @ - 1, !.tpc = "reset"] /\ UNCHANGED model
     \/ /\ rep.tpc = "reset"
        /\ rep' = [rep EXCEPT !.stop_latch = 1, !.tpc = "test"] /\ UNCHANGED model
     \/ /\ rep.tpc = "test" /\ UNCHANGED model
        /\ rep' = [rep EXCEPT !.tpc = IF ~rep.periodic \/ rep.is_running THEN "call" ELSE "clear"]
     \/ /\ rep.tpc = "call"
        /\ rep' = [rep EXCEPT !.tpc = IF rep.periodic THEN "test" ELSE "clear"]
        /\ model' = [model EXCEPT !.calls = IF @ < 2 THEN @ + 1 ELSE @]
     \/ /\ rep.tpc = "clear"
        /\ rep' = [rep EXCEPT !.is_running = FALSE, !.tpc = "count"] /\ UNCHANGED model
     \/ /\ rep.tpc = "count"
        /\ rep' = [rep EXCEPT !.stop_latch = @ - 1, !.tpc = "over"] /\ UNCHANGED model
PosixNext == start \/ CreateThread \/ Started \/ cancelThread \/ join \/ detach \/ waitUntilRun \/ Wrapper

-----------------------------------------------------------------------------
(* BGThread.  mu is who holds mu_ across steps; a sleeper on a condition   *)
(* variable is "asleep" until somebody signals it.  stop() sets the flag   *)
(* and signals without the mutex.                                          *)

Me == "me"               \* the BGThread itself
BGInit ==
  /\ rep = [queue |-> <<>>, timers |-> 0, due |-> FALSE, stop |-> 0, mu |-> "", pc |-> [p \in Clients \cup {Me} |-> IF p = Me THEN "loop" ELSE "idle"],
            job |-> 0]
  /\ model = [made |-> 0, ran |-> <<>>, cleared |-> FALSE, pending |-> [c \in Clients |-> 0]]

At(p, from) == rep.pc[p] = from
To(s, p, to) == [s EXCEPT !.pc[p] = to]
Free == rep.mu = ""
Sleepers(kind) == {p \in Clients \cup {Me} : rep.pc[p] \in kind}
SignalOne(s, kind, to) ==      \* the states after the signal of a condition variable
  LET asleep == {p \in DOMAIN s.pc : s.pc[p] \in kind}
  IN IF asleep = {} THEN {s} ELSE {To(s, p, IF s.pc[p] = "timed" THEN "loop" ELSE to) : p \in asleep}
RSleep == {"asleep", "timed"}

\* Schedule: the lock, the test, the wait in two steps, and the push.
Schedule(c) ==
  \/ /\ At(c, "idle") /\ model.made < MaxJobs /\ rep.stop = 0
     /\ rep' = To(rep, c, "enter") /\ model' = [model EXCEPT !.made = @ + 1, !.pending[c] = model.made + 1]
  \/ /\ rep.pc[c] \in {"enter", "woken"} /\ Free
     /\ IF Len(rep.queue) >= Full /\ rep.stop = 0
        THEN rep' = [To(rep, c, "doze") EXCEPT !.mu = c] /\ UNCHANGED model
        ELSE /\ IF rep.stop # 0 THEN rep' = To(rep, c, "idle")
                ELSE rep' \in SignalOne([To(rep, c, "idle") EXCEPT !.queue = Append(@, model.pending[c])], RSleep, "rewoken")
             /\ model' = [model EXCEPT !.pending[c] = 0]
  \/ /\ At(c, "doze") /\ rep' = [To(rep, c, "wasleep") EXCEPT !.mu = ""] /\ UNCHANGED model
DelaySchedule(c) ==
  /\ At(c, "idle") /\ Free /\ rep.timers = 0 /\ ~rep.due /\ rep.stop = 0
  /\ rep' \in SignalOne([rep EXCEPT !.timers = 1], RSleep, "rewoken") /\ UNCHANGED model
QueueClear(c) ==
  /\ At(c, "idle") /\ Free /\ ~model.cleared /\ rep' = [rep EXCEPT !.queue = <<>>, !.timers = 0, !.due = FALSE]
  /\ model' = [model EXCEPT !.cleared = TRUE]
\* stop: the flag, the two signals, and the join.
stop(c) ==
  /\ UNCHANGED model
  /\ \/ At(c, "idle") /\ rep.stop = 0 /\ rep' = [To(rep, c, "signal") EXCEPT !.stop = 1]
     \/ At(c, "signal") /\ rep' \in SignalOne(To(rep, c, "wsignal"), RSleep, "rewoken")
     \/ At(c, "wsignal") /\ rep' \in SignalOne(To(rep, c, "join"), {"wasleep"}, "woken")
     \/ At(c, "join") /\ At(Me, "over") /\ rep' = To(rep, c, "joined")
\* fault: nobody is told of the room
SignalNobody(s) == {s}
SignalRoom(s) == SignalOne(s, {"wasleep"}, "woken")
ThreadMain ==
  /\ \/ At(Me, "loop") /\ rep' = To(rep, Me, IF rep.stop # 0 THEN "over" ELSE "lock") /\ UNCHANGED model
     \/ /\ rep.pc[Me] \in {"lock", "rewoken"} /\ Free /\ UNCHANGED model
        /\ IF rep.queue = <<>> /\ rep.timers = 0 /\ rep.stop = 0 THEN rep' = [To(rep, Me, "doze") EXCEPT !.mu = Me]
           ELSE IF rep.stop # 0 THEN rep' = To(rep, Me, "over")
           ELSE IF rep.timers > 0 /\ rep.due THEN rep' = [To(rep, Me, "run") EXCEPT !.timers = 0, !.due = FALSE, !.job = 0]
           ELSE IF rep.timers > 0 THEN rep' = [To(rep, Me, "notdue") EXCEPT !.mu = Me]
           ELSE rep' \in SignalRoom([To(rep, Me, "run") EXCEPT !.queue = Tail(@), !.job = Head(rep.queue)])
     \/ At(Me, "doze") /\ rep' = [To(rep, Me, "asleep") EXCEPT !.mu = ""] /\ UNCHANGED model
     \/ /\ At(Me, "notdue") /\ UNCHANGED model        \* should_stop is read again, under the lock
        /\ IF rep.queue = <<>> /\ rep.stop = 0 THEN rep' = [To(rep, Me, "timed") EXCEPT !.mu = ""]
           ELSE IF rep.queue = <<>> THEN rep' = To(rep, Me, "loop")          \* the mutex stays locked
           ELSE rep' \in SignalRoom([To(rep, Me, "run") EXCEPT !.queue = Tail(@), !.job = Head(rep.queue), !.mu = ""])
     \/ At(Me, "timed") /\ rep.due /\ rep' = To(rep, Me, "loop") /\ UNCHANGED model       \* the wait times out
     \/ /\ At(Me, "run") /\ rep' = [To(rep, Me, "loop") EXCEPT !.job = 0]
        /\ model' = IF rep.job = 0 THEN model ELSE [model EXCEPT !.ran = Append(@, rep.job)]
Due == /\ rep.timers > 0 /\ ~rep.due /\ rep' = [rep EXCEPT !.due = TRUE] /\ UNCHANGED model
BGNext == ThreadMain \/ Due \/ \E c \in Clients : Schedule(c) \/ DelaySchedule(c) \/ QueueClear(c) \/ stop(c)

-----------------------------------------------------------------------------
(* StdThreadWorker: one client, and the worker.                            *)

WorkerInit ==
  /\ rep = [jobs |-> <<>>, empty |-> TRUE, stopping |-> FALSE, pc |-> "dequeue", job |-> 0, client |-> "idle"]
  /\ model = [added |-> 0, ran |-> <<>>, waited |-> FALSE, misled |-> FALSE]

addJob ==
  \/ /\ rep.client = "idle" /\ model.added < MaxJobs /\ UNCHANGED model
     /\ rep' = [rep EXCEPT !.empty = FALSE, !.client = "add"]
  \/ /\ rep.client = "add"
     /\ rep' = [rep EXCEPT !.jobs = Append(@, model.added + 1), !.client = "idle"]
     /\ model' = [model EXCEPT !.added = @ + 1]
WaitJobs ==                                              \* wait(), the first half of the destructor
  \/ rep.client = "idle" /\ rep' = [rep EXCEPT !.client = "wait"] /\ UNCHANGED model
  \/ /\ rep.client = "wait" /\ rep.empty
     /\ rep' = [rep EXCEPT !.client = "stop"] /\ model' = [model EXCEPT !.waited = TRUE]
StopWorker ==                                            \* stop(), called after wait() or on its own
  /\ UNCHANGED model
  /\ \/ rep.client = "idle" /\ rep' = [rep EXCEPT !.client = "stop"]
     \/ rep.client = "stop" /\ rep' = [rep EXCEPT !.stopping = TRUE, !.client = "wake"]
     \/ rep.client = "wake" /\ rep' = [rep EXCEPT !.jobs = Append(@, 0), !.client = "join"]      \* a job that does nothing
     \/ rep.client = "join" /\ rep.pc = "over" /\ rep' = [rep EXCEPT !.client = "joined"]
\* fault: the last job of the queue is run first
TakeLast(jobs) == <<Last(jobs), Front(jobs)>>
TakeJob(jobs) == <<Head(jobs), Tail(jobs)>>
RunJobs ==
  \/ /\ rep.pc = "dequeue" /\ rep.jobs # <<>> /\ UNCHANGED model
     /\ LET t == TakeJob(rep.jobs)
        IN rep' = [rep EXCEPT !.jobs = t[2], !.job = t[1], !.pc = "dequeued"]
  \/ rep.pc = "dequeued" /\ rep' = [rep EXCEPT !.pc = IF rep.stopping THEN "over" ELSE "call"] /\ UNCHANGED model
  \/ /\ rep.pc = "call" /\ rep' = [rep EXCEPT !.pc = "test", !.job = 0] /\ model' = [model EXCEPT !.ran = Append(@, rep.job)]
  \/ /\ rep.pc = "test" /\ rep' = [rep EXCEPT !.pc = IF rep.jobs = <<>> THEN "tell" ELSE "dequeue"] /\ UNCHANGED model
  \/ /\ rep.pc = "tell" /\ rep' = [rep EXCEPT !.pc = "dequeue", !.empty = TRUE]
     /\ model' = [model EXCEPT !.misled = rep.client = "add" \/ rep.jobs # <<>>]    \* a job came after the test
WorkerNext == addJob \/ WaitJobs \/ StopWorker \/ RunJobs

-----------------------------------------------------------------------------
(* ThreadLocal and ThreadLocalD: an object for each thread.  The first is  *)
(* cleaned up when a thread exits, the second, which finds its objects     *)
(* through a map from thread ids, when it is destroyed itself.  A thread   *)
(* id is used again once its thread is gone.                               *)

LocalInit ==
  /\ \E kind \in {"ThreadLocal", "ThreadLocalD"} :
       rep = [kind |-> kind, val |-> [t \in Clients |-> 0], map |-> [i \in Tids |-> 0], tid |-> [t \in Clients |-> 0], open |-> TRUE]
  /\ model = [made |-> 0, deleted |-> <<>>, left |-> {}, by |-> <<>>]

Alive(t) == rep.tid[t] # 0
Delete(m, x) == IF x = 0 THEN m ELSE [m EXCEPT !.deleted = Append(@, x)]
\* fault: an entry that exists is kept
insertOnly(map, tid, p) == IF map[tid] = 0 THEN [map EXCEPT ![tid] = p] ELSE map
updateMap(map, tid, p) == [map EXCEPT ![tid] = p]
ThreadStart(t) ==
  /\ ~Alive(t) /\ \E i \in Tids \ Range(rep.tid) : rep' = [rep EXCEPT !.tid[t] = i, !.val[t] = 0]
  /\ UNCHANGED model
SetLocal(t, x) == [rep EXCEPT !.val[t] = x, !.map = IF rep.kind = "ThreadLocal" THEN @ ELSE updateMap(@, rep.tid[t], x)]
\* The objects of threads that are gone and had the id of t: with its first object they are forgotten.
Displaced(t) ==
  {x \in 1 .. model.made : rep.kind = "ThreadLocalD" /\ model.by[x] = rep.tid[t] /\ x \notin ToSet(model.deleted) /\ x # rep.val[t]}
Made(t) == [model EXCEPT !.made = @ + 1, !.by = Append(@, rep.tid[t]), !.left = @ \cup Displaced(t)]
getLocal(t) ==
  /\ Alive(t) /\ rep.open /\ rep.val[t] = 0 /\ model.made < MaxObjects
  /\ rep' = SetLocal(t, model.made + 1) /\ model' = Made(t)
setLocal(t) ==
  /\ Alive(t) /\ rep.open /\ model.made < MaxObjects
  /\ rep' = SetLocal(t, model.made + 1) /\ model' = Delete(Made(t), rep.val[t])
ThreadExit(t) ==
  /\ Alive(t) /\ rep' = [rep EXCEPT !.tid[t] = 0, !.val[t] = 0]
  /\ model' = IF rep.kind = "ThreadLocal" /\ rep.open THEN Delete(model, rep.val[t])
              ELSE [model EXCEPT !.left = IF rep.kind = "ThreadLocal" THEN @ \cup ({rep.val[t]} \ {0}) ELSE @]
DestroyLocal ==
  /\ rep.open /\ rep' = [rep EXCEPT !.open = FALSE]
  /\ model' = IF rep.kind = "ThreadLocal" THEN model
              ELSE [model EXCEPT !.deleted = @ \o SetToSeq(Range(rep.map) \ {0})]
LocalNext == DestroyLocal \/ \E t \in Clients : ThreadStart(t) \/ getLocal(t) \/ setLocal(t) \/ ThreadExit(t)

-----------------------------------------------------------------------------
(* AtExitManager: a stack of managers, each with a stack of callbacks that *)
(* is emptied under its mutex.                                             *)

ExitInit ==
  /\ rep = [managers |-> <<<<>>>>, pc |-> "idle"]
  /\ model = [made |-> 0, ran |-> <<>>, begun |-> 0]
Top == Last(rep.managers)
SetTop(stack) == [rep.managers EXCEPT ![Len(rep.managers)] = stack]
RegisterCallback ==
  /\ rep.pc = "idle" /\ rep.managers # <<>> /\ model.made < MaxObjects
  /\ rep' = [rep EXCEPT !.managers = SetTop(Append(Top, model.made + 1))] /\ model' = [model EXCEPT !.made = @ + 1]
ShadowManager == /\ rep.pc = "idle" /\ Len(rep.managers) \in 1 .. 1 /\ rep' = [rep EXCEPT !.managers = Append(@, <<>>)] /\ UNCHANGED model
ProcessBegin(pc) ==
  /\ rep.pc = "idle" /\ rep.managers # <<>> /\ rep' = [rep EXCEPT !.pc = pc]
  /\ model' = [model EXCEPT !.begun = Len(model.ran)]
\* fault: callbacks run in the order of their registration
NextFirst(stack) == <<Head(stack), Tail(stack)>>
NextCallback(stack) == <<Last(stack), Front(stack)>>
ProcessCallbacksNow ==
  \/ /\ rep.pc # "idle" /\ Top # <<>>
     /\ rep' = [rep EXCEPT !.managers = SetTop(NextCallback(Top)[2])]
     /\ model' = [model EXCEPT !.ran = Append(@, NextCallback(Top)[1])]
  \/ /\ rep.pc # "idle" /\ Top = <<>> /\ UNCHANGED model
     /\ rep' = [rep EXCEPT !.pc = "idle", !.managers = IF rep.pc = "destroy" THEN Front(@) ELSE @]
ExitNext == RegisterCallback \/ ShadowManager \/ ProcessBegin("now") \/ ProcessBegin("destroy") \/ ProcessCallbacksNow

-----------------------------------------------------------------------------
(* The signal handlers and the signal mask of signal_util.                 *)

Signals == {"SIGHUP", "SIGINT"}
SignalInit ==
  /\ rep = [handler |-> [g \in Signals |-> "default"], previous |-> [g \in Signals |-> "default"], hooked |-> 0,
            count |-> [g \in Signals |-> 0], mask |-> {}, saved |-> <<>>]
  /\ model = [own |-> [g \in Signals |-> "default"], sent |-> [g \in Signals |-> 0], seen |-> [g \in Signals |-> 0],
              due |-> [g \in Signals |-> 0], owed |-> [g \in Signals |-> 0], masks |-> <<{}>>]
HookupSignalHandler ==
  /\ rep.hooked < 2 /\ UNCHANGED model
  /\ rep' = IF rep.hooked > 0 THEN [rep EXCEPT !.hooked = @ + 1]
            ELSE [rep EXCEPT !.hooked = 1, !.previous = rep.handler, !.handler = [g \in Signals |-> "handleSignal"]]
\* fault: the first of two users to leave takes the handlers with it
UnhookAlways(s) == [s EXCEPT !.handler = s.previous]
Unhook(s) == IF s.hooked > 0 THEN s ELSE [s EXCEPT !.handler = s.previous]
UnhookSignalHandler == /\ rep.hooked > 0 /\ rep' = Unhook([rep EXCEPT !.hooked = @ - 1]) /\ UNCHANGED model
InstallOwn(g) ==
  /\ rep.hooked = 0 /\ model.own[g] = "default"
  /\ rep' = [rep EXCEPT !.handler[g] = "own"] /\ model' = [model EXCEPT !.own[g] = "own"]
handleSignal(g) ==
  /\ model.sent[g] < 2 /\ g \notin rep.mask /\ rep.handler[g] # "default"
  /\ rep' = IF rep.handler[g] = "handleSignal" THEN [rep EXCEPT !.count[g] = @ + 1] ELSE rep
  /\ model' = [model EXCEPT !.sent[g] = @ + 1, !.due[g] = IF rep.hooked > 0 THEN @ + 1 ELSE @,
        !.owed[g] = IF model.own[g] = "own" THEN @ + 1 ELSE @,
        !.seen[g] = IF "own" \in {rep.handler[g], IF rep.handler[g] = "handleSignal" THEN rep.previous[g] ELSE ""} THEN @ + 1 ELSE @]
BlockSignals(set) ==
  /\ Len(rep.saved) < 2 /\ rep' = [rep EXCEPT !.saved = Append(@, rep.mask), !.mask = @ \cup set]
  /\ model' = [model EXCEPT !.masks = Append(@, Last(@) \cup set)]
UnblockAllSignals ==
  /\ Len(rep.saved) < 2 /\ rep' = [rep EXCEPT !.saved = Append(@, rep.mask), !.mask = {}]
  /\ model' = [model EXCEPT !.masks = Append(@, {})]
RestoreSigset ==
  /\ rep.saved # <<>> /\ rep' = [rep EXCEPT !.mask = Last(rep.saved), !.saved = Front(@)]
  /\ model' = [model EXCEPT !.masks = Front(@)]
SignalNext ==
  \/ HookupSignalHandler \/ UnhookSignalHandler \/ UnblockAllSignals \/ RestoreSigset \/ BlockSignals(Signals)
  \/ \E g \in Signals : InstallOwn(g) \/ handleSignal(g) \/ BlockSignals({g})

-----------------------------------------------------------------------------
(* Registry: entries, found under their names and under aliases.           *)

RegistryInit == rep = [fmap |-> <<>>, list |-> <<>>] /\ model = [named |-> <<>>, deleted |-> <<>>]
Find(name) == IF name \in DOMAIN rep.fmap THEN rep.fmap[name] ELSE 0
Bind(name, e) == [n \in DOMAIN rep.fmap \cup {name} |-> IF n = name THEN e ELSE rep.fmap[n]]
__REGISTER__(name) ==
  LET e == Len(model.named) + 1
  IN /\ name \notin DOMAIN rep.fmap
     /\ rep' = [fmap |-> Bind(name, e), list |-> Append(rep.list, e)]
     /\ model' = [model EXCEPT !.named = Append(@, name)]
__REGISTER_OR_GET__(name) == __REGISTER__(name) \/ (name \in DOMAIN rep.fmap /\ UNCHANGED vars)
\* fault: an alias takes a name over
TakesName(alias, e) == TRUE
AliasFree(alias, e) == alias \in DOMAIN rep.fmap => rep.fmap[alias] = e      \* anything else is a panic
AddAlias(key, alias) ==
  /\ key \in DOMAIN rep.fmap /\ AliasFree(alias, rep.fmap[key])
  /\ rep' = [rep EXCEPT !.fmap = Bind(alias, rep.fmap[key])] /\ UNCHANGED model
DestroyRegistry ==
  /\ model.deleted = <<>> /\ rep.list # <<>>
  /\ rep' = [fmap |-> <<>>, list |-> <<>>] /\ model' = [model EXCEPT !.deleted = rep.list]
RegistryNext == DestroyRegistry \/ (model.deleted = <<>> /\ \E n, a \in Names : __REGISTER_OR_GET__(n) \/ AddAlias(n, a))

-----------------------------------------------------------------------------
(* ScopedPtr and ScopedArray: two pointers that own what they point to.    *)

ScopedInit == rep = [ptr |-> <<0, 0>>] /\ model = [made |-> 0, deleted |-> <<>>, released |-> {}]
\* fault: what a pointer held is not deleted
KeepOld(m, old) == m
DeleteOld(m, old) == Delete(m, old)
resetTo(p, x) ==
  IF x = rep.ptr[p] THEN UNCHANGED vars
  ELSE rep' = [rep EXCEPT !.ptr[p] = x] /\ model' = DeleteOld([model EXCEPT !.made = Max({@, x}), !.released = @ \ {x}], rep.ptr[p])
release(p) == /\ rep' = [rep EXCEPT !.ptr[p] = 0] /\ model' = [model EXCEPT !.released = @ \cup ({rep.ptr[p]} \ {0})]
swap(p, q) == /\ rep' = [rep EXCEPT !.ptr[p] = rep.ptr[q], !.ptr[q] = rep.ptr[p]] /\ UNCHANGED model
ScopedNext ==
  \E p \in 1 .. 2 :
    \/ release(p) \/ swap(p, 3 - p)
    \/ \E x \in {0, rep.ptr[p]} \cup model.released \cup ({model.made + 1} \cap (1 .. MaxObjects)) : resetTo(p, x)

-----------------------------------------------------------------------------
(* Properties *)

\* waitUntilRun returns only once the thread runs, a thread is joined or detached at most once, and
\* start runs its function exactly once: the latches are reset and counted down by two threads.
PosixThreadExact ==
  /\ rep.opc = "seenrun" => rep.tpc \notin {"none", "begin"}
  /\ model.joins <= 1 /\ rep.stop_latch \in 0 .. 1 /\ rep.run_latch \in 0 .. 1
  /\ ~rep.periodic => model.calls = (IF rep.tpc \in {"clear", "count", "over"} THEN 1 ELSE 0)

\* Unless the thread is being stopped or its queue was cleared, it never sleeps while a job or a timer
\* waits, and a caller of Schedule never sleeps while there is room and nobody has been told; jobs run
\* once, in the order in which they got into the queue, which is never longer than full_.
BGThreadWatched ==
  /\ Len(rep.queue) <= Full /\ IsInjective(model.ran \o rep.queue)
  /\ rep.stop = 0 /\ ~model.cleared =>
       /\ At(Me, "asleep") => rep.queue = <<>> /\ rep.timers = 0
       /\ At(Me, "timed") => rep.queue = <<>>
       /\ Sleepers({"wasleep"}) # {} => Len(rep.queue) >= Full \/ Sleepers({"woken"}) # {}

\* A job that was given to Schedule, and what becomes of it.
Submitted(j) == j \in ToSet(rep.queue) \/ \E c \in Clients : model.pending[c] = j
GivenUp == rep.stop # 0 \/ model.cleared
RanOrGivenUp(j) == j \in ToSet(model.ran) \/ GivenUp \/ rep.timers > 0

\* The worker runs the jobs in the order of their addition, none twice and none left out in between,
\* and once wait() has returned all of them have run: it is let through too early only when a job was added
\* after the worker found its queue empty and before it said so (addJob takes no lock that run() holds).
WorkerInOrder ==
  LET taken == model.ran \o (IF rep.pc = "call" THEN <<rep.job>> ELSE <<>>)
  IN /\ taken = [i \in 1 .. Len(taken) |-> i]
     /\ model.waited /\ ~model.misled => Len(model.ran) = model.added

\* No thread local object is deleted twice or while its thread can still get it, and when a ThreadLocalD
\* is destroyed all objects are gone, as its header says, but those of threads that are gone and whose id
\* another thread has made an object under: threadMap_ has forgotten them and they are never deleted.
LocalsExact ==
  /\ IsInjective(model.deleted)
  /\ rep.open => \A t \in Clients : rep.val[t] \notin ToSet(model.deleted)
  /\ rep.kind = "ThreadLocalD" /\ ~rep.open => ToSet(model.deleted) = 1 .. model.made \ model.left
  /\ rep.kind = "ThreadLocal" /\ rep.open => ToSet(model.deleted) = 1 .. model.made \ Range(rep.val)

\* Exit callbacks run once, and later registered ones first, also across shadowing managers.
CallbacksLifo ==
  /\ IsInjective(model.ran) /\ ToSet(model.ran) \cup ToSet(FlattenSeq(rep.managers)) = 1 .. model.made
  /\ rep.pc # "idle" /\ model.ran # <<>> /\ Top # <<>> /\ Len(model.ran) > model.begun => Last(model.ran) > Last(Top)

\* While somebody is hooked up, every signal is counted, the process's own handlers still see every
\* signal, and they are back in place when the last user has left; restored masks are the ones saved.
SignalsChained ==
  /\ rep.hooked = 0 => rep.handler = model.own
  /\ rep.count = model.due /\ model.seen = model.owed /\ rep.mask = Last(model.masks)

\* Every entry stays reachable under the name it was registered with whatever aliases are added, the
\* list has every entry once, and the destructor deletes each once.
RegistryExact ==
  /\ IsInjective(rep.list) /\ Range(rep.fmap) = ToSet(rep.list)
  /\ \A e \in ToSet(rep.list) : Find(model.named[e]) = e
  /\ IsInjective(model.deleted) /\ (model.deleted # <<>> => ToSet(model.deleted) = DOMAIN model.named)

\* An object is owned by one pointer, given back to the client, or deleted once.
OwnedOnce ==
  /\ IsInjective(model.deleted)
  /\ \A x \in 1 .. model.made :
       Cardinality({p \in 1 .. 2 : rep.ptr[p] = x})
         = (IF x \in model.released \cup ToSet(model.deleted) THEN 0 ELSE 1)
=============================================================================
