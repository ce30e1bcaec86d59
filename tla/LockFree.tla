------------------------------ MODULE LockFree -------------------------------
(***************************************************************************)
(* The rest of util/lock_free_util: LockFreeList, SPSCQueue and MPSCQueue, *)
(* the sequence locks SeqLock and SeqFreeLock, HazardPtrEasy and urcu_easy.*)
(* A step is one access to memory that another thread also uses; memory is *)
(* sequentially consistent.  rep is the structure with the locals of its   *)
(* threads, model what the clients have got from it.                       *)
(***************************************************************************)
EXTENDS Integers, FiniteSets, SequencesExt

CONSTANTS
  Threads,     \* 1 .. n; the numbers are the thread ids of HazardPtrEasy
  Items,       \* 1 .. n: what is sent and what is retired
  ListItems,   \* 1 .. n: the nodes of a LockFreeList
  MaxWrites,   \* stores into a sequence lock, calls of synchronize_rcu
  MaxNest      \* nested calls of rcu_read_lock

LockFreeAssumption ==
  /\ \A S \in {Threads, Items, ListItems} :
       Cardinality(S) \in Nat \ {0} /\ S = 1 .. Cardinality(S)
  /\ MaxWrites \in Nat /\ MaxNest \in Nat \ {0}

VARIABLES rep, model

vars == <<rep, model>>

Null == 0
Nobody == 0
At(t, pc) == rep.pc[t] = pc

-----------------------------------------------------------------------------
(* LockFreeList.  A node counts the list and the threads that look at it;  *)
(* the flag says that it is to be put on the list by whoever drops the     *)
(* last of these references.                                               *)

SHOULD_BE_ON_FREELIST == 16
REFS_MASK(refs) == refs % SHOULD_BE_ON_FREELIST

FreeInit ==
  /\ rep = [head |-> Null, refs |-> [n \in ListItems |-> 0], next |-> [n \in ListItems |-> Null],
            pc |-> [t \in Threads |-> "idle"], node |-> [t \in Threads |-> Null],
            cur |-> [t \in Threads |-> Null], link |-> [t \in Threads |-> Null], seen |-> [t \in Threads |-> 0]]
  /\ model = [n \in ListItems |-> 1]                           \* the owner of a node

\* The loop of try_get goes on with its head, which add does not have; locals
\* that are dead are cleared.
Goto(r, t, pc) == [r EXCEPT !.pc[t] = pc, !.node[t] = Null, !.link[t] = Null, !.seen[t] = 0]
Loop(r, t) == Goto(r, t, IF r.cur[t] = Null THEN "idle" ELSE "refs")

add(t, n) ==
  /\ At(t, "idle") /\ model[n] = t
  /\ LET r == [rep EXCEPT !.refs[n] = @ + SHOULD_BE_ON_FREELIST]
     IN rep' = IF rep.refs[n] = 0 THEN [r EXCEPT !.node[t] = n, !.pc[t] = "know"] ELSE r
  /\ model' = [model EXCEPT ![n] = Nobody]

\* add_knowing_refcount_is_zero(node)
KnowHead(t) ==
  /\ At(t, "know") /\ rep' = [rep EXCEPT !.link[t] = rep.head, !.pc[t] = "next"]
KnowNext(t) ==
  /\ At(t, "next") /\ rep' = [rep EXCEPT !.next[rep.node[t]] = rep.link[t], !.pc[t] = "open"]
KnowRefs(t) ==
  /\ At(t, "open") /\ rep' = [rep EXCEPT !.refs[rep.node[t]] = 1, !.pc[t] = "push"]
KnowPush(t) ==
  /\ At(t, "push")
  /\ rep' = IF rep.head = rep.link[t] THEN Loop([rep EXCEPT !.head = rep.node[t]], t)
            ELSE [rep EXCEPT !.link[t] = rep.head, !.pc[t] = "failed"]
KnowFailed(t) ==
  LET n == rep.node[t] IN
  /\ At(t, "failed")
  /\ LET r == [rep EXCEPT !.refs[n] = @ + SHOULD_BE_ON_FREELIST - 1]
     IN rep' = IF rep.refs[n] = 1 THEN [r EXCEPT !.pc[t] = "next"] ELSE Loop(r, t)

GetHead(t) ==
  /\ At(t, "idle") \/ At(t, "reload")
  /\ rep' = Loop([rep EXCEPT !.cur[t] = rep.head], t)
GetRefs(t) ==
  /\ At(t, "refs")
  /\ rep' = IF REFS_MASK(rep.refs[rep.cur[t]]) = 0 THEN Goto([rep EXCEPT !.cur[t] = Null], t, "reload")
            ELSE [rep EXCEPT !.seen[t] = rep.refs[rep.cur[t]], !.pc[t] = "hold"]
GetHold(t) ==
  /\ At(t, "hold")
  /\ rep' = IF rep.refs[rep.cur[t]] = rep.seen[t]
            THEN [rep EXCEPT !.refs[rep.cur[t]] = @ + 1, !.seen[t] = 0, !.pc[t] = "look"]
            ELSE Goto([rep EXCEPT !.cur[t] = Null], t, "reload")
GetNext(t) ==
  /\ At(t, "look")
  /\ rep' = [rep EXCEPT !.link[t] = rep.next[rep.cur[t]], !.node[t] = rep.cur[t], !.pc[t] = "take"]
GetTake(t) ==
  /\ At(t, "take")
  /\ rep' = IF rep.head = rep.cur[t] THEN [rep EXCEPT !.head = rep.link[t], !.pc[t] = "got"]
            ELSE [rep EXCEPT !.cur[t] = rep.head, !.link[t] = Null, !.pc[t] = "drop"]

\* fault: the last reader of a node that is to be listed leaves it at that
NotMine(refs) == FALSE
LastOfListed(refs) == refs = SHOULD_BE_ON_FREELIST + 1
GetDrop(t) ==
  LET n == rep.node[t] IN
  /\ At(t, "drop")
  /\ LET r == [rep EXCEPT !.refs[n] = @ - 1]
     IN rep' = IF LastOfListed(rep.refs[n]) THEN [r EXCEPT !.pc[t] = "know"] ELSE Loop(r, t)
GetGot(t) ==
  /\ At(t, "got")
  /\ rep' = Goto([rep EXCEPT !.refs[rep.cur[t]] = @ - 2, !.cur[t] = Null], t, "idle")
  /\ model' = [model EXCEPT ![rep.cur[t]] = t]

try_get(t) ==
  \/ /\ GetHead(t) \/ GetRefs(t) \/ GetHold(t) \/ GetNext(t) \/ GetTake(t) \/ GetDrop(t)
     /\ UNCHANGED model
  \/ GetGot(t)
add_knowing_refcount_is_zero(t) ==
  /\ KnowHead(t) \/ KnowNext(t) \/ KnowRefs(t) \/ KnowPush(t) \/ KnowFailed(t)
  /\ UNCHANGED model
FreeNext ==
  \E t \in Threads : try_get(t) \/ add_knowing_refcount_is_zero(t) \/ \E n \in ListItems : add(t, n)

Listed ==
  FoldLeft(LAMBDA c, i : IF c[1] = Null THEN c ELSE <<rep.next[c[1]], Append(c[2], c[1])>>,
           <<rep.head, <<>>>>, [i \in 1 .. Cardinality(ListItems) + 1 |-> i])[2]

\* A node of a LockFreeList is on the list once or in one thread's hands: the
\* list has no cycle and no node of an owner or of a thread that just took it,
\* although nodes are put back while others still look at them; what was just
\* taken is not marked to be listed, as try_get asserts; and when nobody is
\* inside, every node is listed or owned, with its references returned.
NodesOnce ==
  LET taken == {t \in Threads : At(t, "got")} IN
  /\ IsInjective(Listed)
  /\ \A n \in ToSet(Listed) : model[n] = Nobody /\ \A t \in taken : rep.cur[t] # n
  /\ \A t \in taken : /\ model[rep.cur[t]] = Nobody /\ rep.refs[rep.cur[t]] < SHOULD_BE_ON_FREELIST
                      /\ \A u \in taken : rep.cur[u] = rep.cur[t] => u = t
  /\ (\A t \in Threads : At(t, "idle")) =>
       \A n \in ListItems : /\ n \in ToSet(Listed) <=> model[n] = Nobody
                        /\ rep.refs[n] = IF model[n] = Nobody THEN 1 ELSE 0

-----------------------------------------------------------------------------
(* SPSCQueue and MPSCQueue: linked nodes behind a dummy.  The node of an   *)
(* item has its number, the first dummy is 0; -1 is the null pointer.      *)

End == -1
Nodes == Items \cup {0}
Producers(kind) == IF kind = "spsc" THEN {1} ELSE Threads

LinkedInit ==
  /\ \E kind \in {"spsc", "mpsc"} :
     rep = [kind |-> kind, next |-> [n \in Nodes |-> End], live |-> {0}, head |-> 0, tail |-> 0,
            pc |-> [t \in Threads |-> "idle"], node |-> [t \in Threads |-> End], prev |-> [t \in Threads |-> End],
            cpc |-> "idle", seen |-> End, destroyed |-> FALSE]
  /\ model = [made |-> 0, sent |-> <<>>, received |-> <<>>]

NewNode(t) ==
  /\ At(t, "idle") /\ t \in Producers(rep.kind) /\ model.made + 1 \in Items /\ ~rep.destroyed
  /\ rep' = [rep EXCEPT !.node[t] = model.made + 1, !.live = @ \cup {model.made + 1},
                        !.pc[t] = IF rep.kind = "spsc" THEN "link" ELSE "exchange", !.prev[t] = rep.head]
  /\ model' = [model EXCEPT !.made = @ + 1]
\* MPSCQueue::produce: head.exchange
Exchange(t) ==
  /\ At(t, "exchange")
  /\ rep' = [rep EXCEPT !.prev[t] = rep.head, !.head = rep.node[t], !.pc[t] = "link"]
  /\ model' = [model EXCEPT !.sent = Append(@, rep.node[t])]
\* The link; the head of an SPSCQueue, which only its producer uses, follows it.
Link(t) ==
  /\ At(t, "link")
  /\ rep' = [rep EXCEPT !.next[rep.prev[t]] = rep.node[t], !.pc[t] = "idle", !.head = IF rep.kind = "spsc" THEN rep.node[t] ELSE @]
  /\ model' = IF rep.kind = "spsc" THEN [model EXCEPT !.sent = Append(@, rep.node[t])] ELSE model

ConsumeLook ==
  /\ rep.cpc = "idle" /\ ~rep.destroyed /\ rep.next[rep.tail] # End
  /\ rep' = [rep EXCEPT !.seen = rep.next[rep.tail], !.cpc = "take"] /\ UNCHANGED model
ConsumeTake ==
  /\ rep.cpc = "take" /\ rep' = [rep EXCEPT !.cpc = "move"]
  /\ model' = [model EXCEPT !.received = Append(@, rep.seen)]
\* fault: the node that was read is deleted, not the one before it
DeleteRead(t, n) == n
Passed(t, n) == t
ConsumeMove ==
  /\ rep.cpc = "move" /\ UNCHANGED model
  /\ rep' = [rep EXCEPT !.tail = rep.seen, !.live = @ \ {Passed(rep.tail, rep.seen)}, !.cpc = "idle"]

\* The destructor consumes what is left and deletes the dummy.
Rest ==
  FoldLeft(LAMBDA c, i : IF rep.next[Last(c)] = End THEN c ELSE Append(c, rep.next[Last(c)]),
           <<rep.tail>>, [i \in Items |-> i])
DestroyQueue ==
  /\ ~rep.destroyed /\ rep.cpc = "idle" /\ \A t \in Threads : At(t, "idle")
  /\ rep' = [rep EXCEPT !.destroyed = TRUE, !.tail = Last(Rest), !.live = @ \ (ToSet(Rest) \cup {rep.head})]
  /\ model' = [model EXCEPT !.received = @ \o Tail(Rest)]
LinkedNext ==
  \/ \E t \in Threads : NewNode(t) \/ Exchange(t) \/ Link(t)
  \/ ConsumeLook \/ ConsumeTake \/ ConsumeMove \/ DestroyQueue

\* The consumer of a linked queue gets the items in the order in which their
\* producers got hold of the head, without a gap although a producer may stop
\* between the exchange and the link; nobody touches a node that was deleted,
\* and the destructor leaves neither an item nor a node.
LinkedInOrder ==
  /\ IsPrefix(model.received, model.sent)
  /\ {rep.head, rep.tail} \subseteq rep.live \/ rep.destroyed
  /\ \A t \in Threads : At(t, "link") => {rep.prev[t], rep.node[t]} \subseteq rep.live
  /\ rep.cpc \in {"take", "move"} => {rep.seen, rep.tail} \subseteq rep.live
  /\ rep.destroyed => rep.live = {} /\ model.received = model.sent

-----------------------------------------------------------------------------
(* SeqLock, whose writers exclude each other with a spin lock, and         *)
(* SeqFreeLock, whose client has one writer.  The protected value is two   *)
(* words that hold the number of the store which wrote them.               *)

Words == 1 .. 2
Writers(kind) == IF kind = "SeqLock" THEN Threads ELSE {1}

NoCopy == [w \in Words |-> 0]
SeqInit ==
  /\ \E kind \in {"SeqLock", "SeqFreeLock"} :
     rep = [kind |-> kind, sequence |-> 0, value |-> [w \in Words |-> 0], holder |-> Nobody,
            pc |-> [t \in Threads |-> "idle"], seq0 |-> [t \in Threads |-> 0],
            copy |-> [t \in Threads |-> NoCopy]]
  /\ model = [writes |-> 0, stored |-> 0, since |-> [t \in Threads |-> 0]]

\* write_seqlock takes the spin lock; store of SeqFreeLock has none.
WriteLock(t) ==
  /\ At(t, "idle") /\ t \in Writers(rep.kind) /\ model.writes < MaxWrites /\ rep.holder = Nobody
  /\ rep' = [rep EXCEPT !.holder = t, !.pc[t] = "odd"] /\ model' = [model EXCEPT !.writes = @ + 1]
WriteOdd(t) ==
  /\ At(t, "odd") /\ UNCHANGED model
  /\ rep' = [rep EXCEPT !.sequence = @ + 1, !.pc[t] = "write"]
WriteWord(t, w) ==
  /\ At(t, IF w = 1 THEN "write" ELSE "write2") /\ UNCHANGED model
  /\ rep' = [rep EXCEPT !.value[w] = model.writes, !.pc[t] = IF w = 1 THEN "write2" ELSE "even"]
WriteEven(t) ==
  /\ At(t, "even")
  /\ rep' = [rep EXCEPT !.sequence = @ + 1, !.pc[t] = "unlock"]
  /\ model' = [model EXCEPT !.stored = model.writes]
WriteUnlock(t) ==
  /\ At(t, "unlock") /\ UNCHANGED model /\ rep' = [rep EXCEPT !.holder = Nobody, !.pc[t] = "idle"]

\* read_seqbegin waits for an even number; load of SeqFreeLock tests it at the end.
ReadBegin(t) ==
  /\ At(t, "idle") \/ At(t, "again")
  /\ rep.kind = "SeqLock" => rep.sequence % 2 = 0
  /\ rep' = [rep EXCEPT !.seq0[t] = rep.sequence, !.pc[t] = "copy"]
  /\ model' = IF At(t, "again") THEN model ELSE [model EXCEPT !.since[t] = model.stored]
ReadWord(t, w) ==
  /\ At(t, IF w = 1 THEN "copy" ELSE "copy2") /\ UNCHANGED model
  /\ rep' = [rep EXCEPT !.copy[t][w] = rep.value[w], !.pc[t] = IF w = 1 THEN "copy2" ELSE "check"]
\* fault: only a change is noticed, not a store in progress
Unchanged(seq0, seq1) == seq0 = seq1
Consistent(seq0, seq1) == seq0 = seq1 /\ seq0 % 2 = 0
ReadCheck(t) ==
  /\ At(t, "check") /\ UNCHANGED model
  /\ rep' = [rep EXCEPT !.pc[t] = IF Consistent(rep.seq0[t], rep.sequence) THEN "returned" ELSE "again",
                        !.copy[t] = IF Consistent(rep.seq0[t], rep.sequence) THEN @ ELSE NoCopy, !.seq0[t] = 0]
ReadDone(t) ==
  /\ At(t, "returned") /\ model' = [model EXCEPT !.since[t] = 0]
  /\ rep' = [rep EXCEPT !.pc[t] = "idle", !.copy[t] = NoCopy]
SeqNext ==
  \E t \in Threads :
    \/ WriteLock(t) \/ WriteOdd(t) \/ WriteEven(t) \/ WriteUnlock(t) \/ ReadBegin(t) \/ ReadCheck(t) \/ ReadDone(t)
    \/ \E w \in Words : WriteWord(t, w) \/ ReadWord(t, w)

\* What a reader of a sequence lock returns was stored as a whole, and no
\* earlier than the last store that was complete when it began.
ReadsWhole ==
  \A t \in Threads : At(t, "returned") =>
    rep.copy[t][1] = rep.copy[t][2] /\ rep.copy[t][1] >= model.since[t]

-----------------------------------------------------------------------------
(* HazardPtrEasy, with one hazard pointer per thread.  Its client reads a  *)
(* shared pointer, announces it, makes sure that it is still the shared    *)
(* one and uses it; to replace it the client installs another and retires  *)
(* the old one, its own announcement still standing.                       *)

HazardInit ==
  /\ rep = [shared |-> 1, haz |-> [t \in Threads |-> Null], free_list |-> [t \in Threads |-> <<>>],
            pc |-> [t \in Threads |-> "idle"], p |-> [t \in Threads |-> Null],
            pos |-> [t \in Threads |-> 1], i |-> [t \in Threads |-> 1]]
  /\ model = [made |-> 1, retired |-> {}, freed |-> <<>>]

ClientLoad(t) ==
  /\ At(t, "idle") /\ UNCHANGED model
  /\ rep' = [rep EXCEPT !.p[t] = rep.shared, !.pc[t] = "announce"]
haz_set_ptr(t) ==
  /\ At(t, "announce") /\ UNCHANGED model
  /\ rep' = [rep EXCEPT !.haz[t] = rep.p[t], !.pc[t] = "validate"]
ClientValidate(t) ==
  /\ At(t, "validate") /\ UNCHANGED model
  /\ rep' = [rep EXCEPT !.pc[t] = IF rep.shared = rep.p[t] THEN "use" ELSE "clear"]
ClientDone(t) ==
  /\ At(t, "use") /\ UNCHANGED model /\ rep' = [rep EXCEPT !.pc[t] = "clear"]
ClientClear(t) ==
  /\ At(t, "clear") /\ UNCHANGED model
  /\ rep' = [rep EXCEPT !.haz[t] = Null, !.p[t] = Null, !.pc[t] = "idle"]
ClientReplace(t) ==
  /\ At(t, "use") /\ rep.shared = rep.p[t] /\ model.made + 1 \in Items
  /\ rep' = [rep EXCEPT !.shared = model.made + 1, !.pc[t] = "retire"]
  /\ model' = [model EXCEPT !.made = @ + 1]

\* haz_defer_free: onto the own list, then haz_gc from its first entry.
haz_defer_free(t) ==
  /\ At(t, "retire")
  /\ rep' = [rep EXCEPT !.free_list[t] = <<rep.p[t]>> \o @, !.pos[t] = 1, !.i[t] = 1, !.pc[t] = "gc"]
  /\ model' = [model EXCEPT !.retired = @ \cup {rep.p[t]}]
\* fault: the thread after oneself is skipped as well
SkipTwo(self, i) == i \in {self, self + 1}
SkipSelf(self, i) == i = self
\* haz_confict looks at one hazard pointer after the other.
GcLook(t) ==
  LET i == rep.i[t] IN
  /\ At(t, "gc") /\ rep.pos[t] <= Len(rep.free_list[t]) /\ i \in Threads /\ UNCHANGED model
  /\ rep' = IF ~SkipSelf(t, i) /\ rep.haz[i] = rep.free_list[t][rep.pos[t]]
            THEN [rep EXCEPT !.pos[t] = @ + 1, !.i[t] = 1]
            ELSE [rep EXCEPT !.i[t] = @ + 1]
GcFree(t) ==
  /\ At(t, "gc") /\ rep.pos[t] <= Len(rep.free_list[t]) /\ rep.i[t] \notin Threads
  /\ rep' = [rep EXCEPT !.free_list[t] = RemoveAt(@, rep.pos[t]), !.i[t] = 1]
  /\ model' = [model EXCEPT !.freed = Append(@, rep.free_list[t][rep.pos[t]])]
GcEnd(t) ==
  /\ At(t, "gc") /\ rep.pos[t] > Len(rep.free_list[t]) /\ UNCHANGED model
  /\ rep' = [rep EXCEPT !.pc[t] = "clear"]
HazardNext ==
  \E t \in Threads :
    \/ ClientLoad(t) \/ haz_set_ptr(t) \/ ClientValidate(t) \/ ClientDone(t) \/ ClientClear(t) \/ ClientReplace(t)
    \/ haz_defer_free(t) \/ GcLook(t) \/ GcFree(t) \/ GcEnd(t)

\* Nothing is freed while a thread that announced it in time uses it, although
\* haz_gc passes over the hazard pointers one by one while they change; what
\* is retired is freed once or waits in one list.
HazardsRespected ==
  LET waiting == UNION {ToSet(rep.free_list[t]) : t \in Threads} IN
  /\ \A t \in Threads : At(t, "use") \/ At(t, "retire") => rep.p[t] \notin ToSet(model.freed)
  /\ IsInjective(model.freed) /\ ToSet(model.freed) \cap waiting = {}
  /\ ToSet(model.freed) \cup waiting = model.retired /\ rep.shared \notin model.retired
  /\ \A t \in Threads, u \in Threads : t # u => ToSet(rep.free_list[t]) \cap ToSet(rep.free_list[u]) = {}

-----------------------------------------------------------------------------
(* urcu_easy.  A counter is the phase times BOTTOM_BIT and the depth of    *)
(* nesting.                                                                *)

BOTTOM_BIT == MaxNest + 1
NEST_MASK(v) == v % BOTTOM_BIT
Phase(v) == v \div BOTTOM_BIT

RcuInit ==
  /\ rep = [gp_ctr |-> 1, num |-> 0, id |-> [t \in Threads |-> -1], reader_gp |-> [i \in 0 .. Cardinality(Threads) - 1 |-> 0],
            gp_lock |-> Nobody, pc |-> [t \in Threads |-> "idle"], tmp |-> [t \in Threads |-> 0],
            at |-> 0, flips |-> 0]
  /\ model = [syncs |-> 0, old |-> [t \in Threads |-> {}]]

Mine(t) == rep.reader_gp[rep.id[t]]
Reading(t) == rep.id[t] # -1 /\ NEST_MASK(Mine(t)) > 0

rcu_thread_register(t) ==
  /\ At(t, "idle") /\ rep.id[t] = -1 /\ rep.gp_lock = Nobody /\ UNCHANGED model
  /\ rep' = [rep EXCEPT !.id[t] = rep.num, !.num = @ + 1]
\* The counter is read in one step and stored in another.
ReadLockOuter(t) ==
  /\ At(t, "idle") /\ rep.id[t] # -1 /\ ~Reading(t) /\ UNCHANGED model
  /\ rep' = [rep EXCEPT !.tmp[t] = rep.gp_ctr, !.pc[t] = "enter"]
ReadLockStore(t) ==
  /\ At(t, "enter") /\ UNCHANGED model
  /\ rep' = [rep EXCEPT !.reader_gp[rep.id[t]] = rep.tmp[t], !.tmp[t] = 0, !.pc[t] = "idle"]
ReadLockInner(t) ==
  /\ At(t, "idle") /\ Reading(t) /\ NEST_MASK(Mine(t)) < MaxNest /\ UNCHANGED model
  /\ rep' = [rep EXCEPT !.reader_gp[rep.id[t]] = @ + 1]
rcu_read_unlock(t) ==
  /\ At(t, "idle") /\ Reading(t)
  /\ rep' = [rep EXCEPT !.reader_gp[rep.id[t]] = @ - 1]
  /\ model' = IF NEST_MASK(Mine(t)) > 1 THEN model
              ELSE [model EXCEPT !.old = [u \in Threads |-> @[u] \ {t}]]

synchronize_rcu(t) ==
  /\ At(t, "idle") /\ ~Reading(t) /\ model.syncs < MaxWrites
  /\ rep' = [rep EXCEPT !.pc[t] = "lock"]
  /\ model' = [model EXCEPT !.syncs = @ + 1, !.old[t] = {u \in Threads : Reading(u)}]
SyncLock(t) ==
  /\ At(t, "lock") /\ rep.gp_lock = Nobody /\ UNCHANGED model
  /\ rep' = [rep EXCEPT !.gp_lock = t, !.pc[t] = "flip"]
\* fault: one change of phase is taken to be enough
OneFlip == 1
Flips == 2
flip_counter_and_wait(t) ==
  \/ /\ At(t, "flip") /\ rep.flips < Flips
     /\ rep' = [rep EXCEPT !.gp_ctr = (@ + BOTTOM_BIT) % (2 * BOTTOM_BIT), !.flips = @ + 1, !.at = 0, !.pc[t] = "wait"]
  \/ /\ At(t, "wait") /\ rep.at < rep.num
     /\ LET v == rep.reader_gp[rep.at] IN ~(NEST_MASK(v) > 0 /\ Phase(v) # Phase(rep.gp_ctr))   \* rcu_old_gp_ongoing
     /\ rep' = [rep EXCEPT !.at = @ + 1]
  \/ /\ At(t, "wait") /\ rep.at = rep.num /\ rep' = [rep EXCEPT !.pc[t] = "flip"]
SyncReturn(t) ==
  /\ At(t, "flip") /\ rep.flips = Flips
  /\ rep' = [rep EXCEPT !.gp_lock = Nobody, !.flips = 0, !.at = 0, !.pc[t] = "returned"] /\ UNCHANGED model
SyncDone(t) ==
  /\ At(t, "returned") /\ rep' = [rep EXCEPT !.pc[t] = "idle"] /\ model' = [model EXCEPT !.old[t] = {}]
RcuNext ==
  \E t \in Threads :
    \/ rcu_thread_register(t) \/ ReadLockOuter(t) \/ ReadLockStore(t) \/ ReadLockInner(t) \/ rcu_read_unlock(t)
    \/ synchronize_rcu(t) \/ SyncLock(t) \/ (flip_counter_and_wait(t) /\ UNCHANGED model) \/ SyncReturn(t) \/ SyncDone(t)

\* When synchronize_rcu returns, every read section that was entered before it
\* was called has ended, also one whose thread read the phase long before it
\* stored it.
GracePeriod == \A t \in Threads : At(t, "returned") => model.old[t] = {}

=============================================================================
