------------------------------ MODULE References -----------------------------
(***************************************************************************)
(* Who destroys an object, and when: ScopedRefCountedPtr over              *)
(* RefCountedBase (and TBHandle), the atomic RefCounted, CCRef with its    *)
(* autorelease pools, and Crematory, which destroys later.                 *)
(***************************************************************************)
EXTENDS Integers, FiniteSets, FiniteSetsExt, SequencesExt

CONSTANTS
  Objects, Null,
  Handles,       \* the smart pointers of a program
  Threads,       \* users of a RefCounted, and of a Crematory
  MaxRefs,       \* bound: references a user takes without a smart pointer
  MaxPools,      \* bound: autorelease pools on the stack
  MaxAdded,      \* bound: objects in an autorelease pool
  AliveTime,     \* ALIVE_TIME_S
  MaxTime        \* bound: the clock of Crematory

ReferenceAssumption ==
  /\ Null \notin Objects /\ IsFiniteSet(Objects) /\ AliveTime \in Nat
  /\ {MaxRefs, MaxPools, MaxAdded, MaxTime} \subseteq Nat \ {0}

VARIABLES
  handle, raw, obj,          \* the pointers; references without one; counts and objects
  ref, fate, holds, upc,     \* ref_ of one RefCounted, how it ended; the references of each thread
  own, cc, stack,            \* a program's references; counts of the CCRefs; the pools
  now, bodys, fired,         \* the clock; bodys_ and last_fire_time_ of Crematory
  fpc, deads, cleaned        \* the threads in fire, what they clean up, what is cleaned

handleVars == <<handle, raw, obj>>
atomicVars == <<ref, fate, holds, upc>>
poolVars == <<own, cc, stack>>
lazyVars == <<now, bodys, fired, fpc, deads, cleaned>>

-----------------------------------------------------------------------------
(* ScopedRefCountedPtr.  obj is the objects in use, those whose Unref has  *)
(* returned true, and the counts.  The pointers drop what Unref returns:   *)
(* deleting the object is left to the class, which wraps AddRef and Unref. *)

HandleInit ==
  /\ handle = [h \in Handles |-> Null] /\ raw = [o \in Objects |-> 0]
  /\ obj = [live |-> {}, ended |-> {}, ref_count |-> [o \in Objects |-> 0]]

AddRef(s, o) == IF o = Null THEN s ELSE [s EXCEPT !.ref_count[o] = @ + 1]
\* Unref returns true for the objects that enter ended.
Unref(s, o) ==
  IF o = Null THEN s
  ELSE LET t == [s EXCEPT !.ref_count[o] = @ - 1]
       IN IF t.ref_count[o] = 0 THEN [t EXCEPT !.live = @ \ {o}, !.ended = @ \cup {o}] ELSE t

AssignRefs(s, old, p) == Unref(AddRef(s, p), old)

\* A pointer is constructed or assigned from a new object.
AssignNew(h) ==
  /\ obj.live \cup obj.ended # Objects
  /\ LET o == CHOOSE x \in Objects : x \notin obj.live \cup obj.ended IN
     /\ obj' = AssignRefs([obj EXCEPT !.live = @ \cup {o}, !.ref_count[o] = 0], handle[h], o)
     /\ handle' = [handle EXCEPT ![h] = o] /\ UNCHANGED raw
\* operator=(T *) with the object of a pointer, itself included, with one that
\* the program refers to otherwise, or with NULL; the destructor is the latter.
Assign(h, p) ==
  /\ p \in {Null} \cup Range(handle) \cup {o \in Objects : raw[o] > 0}
  /\ obj' = AssignRefs(obj, handle[h], p)
  /\ handle' = [handle EXCEPT ![h] = p] /\ UNCHANGED raw
SwapHandles(h, g) ==
  handle' = [handle EXCEPT ![h] = handle[g], ![g] = handle[h]] /\ UNCHANGED <<obj, raw>>
\* release: the reference is the caller's now, who gives it up with Unref.
ReleaseHandle(h) ==
  /\ handle[h] # Null /\ raw[handle[h]] < MaxRefs
  /\ raw' = [raw EXCEPT ![handle[h]] = @ + 1]
  /\ handle' = [handle EXCEPT ![h] = Null] /\ UNCHANGED obj
UnrefRaw(o) ==
  /\ raw[o] > 0 /\ raw' = [raw EXCEPT ![o] = @ - 1] /\ obj' = Unref(obj, o)
  /\ UNCHANGED handle
\* What the class makes of the answer: the object is deleted.
SelfDelete(o) ==
  /\ o \in obj.ended /\ obj' = [obj EXCEPT !.ended = @ \ {o}] /\ UNCHANGED <<handle, raw>>

HandleNext ==
  \/ \E h \in Handles : AssignNew(h) \/ ReleaseHandle(h)
  \/ \E h \in Handles, p \in Objects \cup {Null} : Assign(h, p)
  \/ \E h, g \in Handles : SwapHandles(h, g)
  \/ \E o \in Objects : UnrefRaw(o) \/ SelfDelete(o)

-----------------------------------------------------------------------------
(* RefCounted: Unref reads the count before it decrements it.  fate tells  *)
(* how the object was deleted: by its only owner, whose Unref leaves ref_  *)
(* at one, or by the thread that decremented it to zero.                   *)

AtomicInit ==
  /\ ref = 1 /\ fate = "alive" /\ upc = [t \in Threads |-> "idle"]
  /\ \E t \in Threads : holds = [u \in Threads |-> IF u = t THEN 1 ELSE 0]

\* Ref, for the thread itself or for another one.
Ref(t, u) ==
  /\ upc[t] = "idle" /\ holds[t] > 0 /\ holds[u] < MaxRefs
  /\ ref' = ref + 1 /\ holds' = [holds EXCEPT ![u] = @ + 1]
  /\ UNCHANGED <<fate, upc>>

RefCountIsOne == ref = 1
UnrefLoad(t) ==
  /\ upc[t] = "idle" /\ holds[t] > 0
  /\ holds' = [holds EXCEPT ![t] = @ - 1]
  /\ IF RefCountIsOne THEN fate' = "owner" /\ UNCHANGED upc
     ELSE upc' = [upc EXCEPT ![t] = "sub"] /\ UNCHANGED fate
  /\ UNCHANGED ref
UnrefSub(t) ==
  /\ upc[t] = "sub"
  /\ ref' = ref - 1 /\ fate' = IF ref = 1 THEN "counted" ELSE fate
  /\ upc' = [upc EXCEPT ![t] = "idle"]
  /\ UNCHANGED holds

AtomicNext == \E t \in Threads :
  (\E u \in Threads : Ref(t, u)) \/ UnrefLoad(t) \/ UnrefSub(t)

-----------------------------------------------------------------------------
(* CCRef: an object may hold a reference to another one, its child, which  *)
(* its destructor releases.  tracked is g_ccrefAllocationList.             *)

PoolInit ==
  /\ own = [o \in Objects |-> 0]
  /\ cc = [live |-> {}, tracked |-> {}, count |-> [o \in Objects |-> 0],
           child |-> [o \in Objects |-> Null]]
  /\ stack = << <<>> >>

Delete(s, o) == [s EXCEPT !.live = @ \ {o}, !.tracked = @ \ {o}]

\* release, and the releases that the destructors it leads to make.
release(s, o) ==
  LET run[n \in 0 .. Cardinality(Objects)] ==
        LET r == IF n = 0 THEN <<s, o>> ELSE run[n - 1]
            x == r[2]
            d == [r[1] EXCEPT !.count[x] = @ - 1]
        IN IF x = Null THEN r
           ELSE IF d.count[x] > 0 THEN <<d, Null>>
           ELSE <<[Delete(d, x) EXCEPT !.child[x] = Null], d.child[x]>>
  IN run[Cardinality(Objects)][1]
releaseAll(s, objects) == FoldLeft(LAMBDA r, o : release(r, o), s, objects)

NewCCRef(o) ==
  /\ o \notin cc.live
  /\ cc' = [cc EXCEPT !.live = @ \cup {o}, !.tracked = @ \cup {o}, !.count[o] = 1]
  /\ own' = [own EXCEPT ![o] = 1] /\ UNCHANGED stack

Current == stack[Len(stack)]
\* A program retains what it owns or what waits in the current pool.
retain(o) ==
  /\ o \in cc.live /\ own[o] < MaxRefs /\ (own[o] > 0 \/ Contains(Current, o))
  /\ cc' = [cc EXCEPT !.count[o] = @ + 1]
  /\ own' = [own EXCEPT ![o] = @ + 1] /\ UNCHANGED stack
ReleaseOwned(o) ==
  /\ own[o] > 0 /\ own' = [own EXCEPT ![o] = @ - 1]
  /\ cc' = release(cc, o) /\ UNCHANGED stack
autorelease(o) ==
  /\ own[o] > 0 /\ Len(Current) < MaxAdded
  /\ own' = [own EXCEPT ![o] = @ - 1]
  /\ stack' = [stack EXCEPT ![Len(stack)] = Append(@, o)] /\ UNCHANGED cc
\* A reference of the program becomes one of object o.
Adopt(o, c) ==
  /\ o \in cc.live /\ cc.child[o] = Null /\ own[o] > 0 /\ own[c] > 0 /\ c # o
  /\ cc.child[c] = Null /\ own' = [own EXCEPT ![c] = @ - 1]
  /\ cc' = [cc EXCEPT !.child[o] = c] /\ UNCHANGED stack

push == Len(stack) < MaxPools /\ stack' = Append(stack, <<>>) /\ UNCHANGED <<cc, own>>
clear ==
  /\ cc' = releaseAll(cc, Current)
  /\ stack' = [stack EXCEPT ![Len(stack)] = <<>>] /\ UNCHANGED own
\* The destructor of the newest pool: clear, then pop.
DestroyPool ==
  /\ Len(stack) > 1
  /\ cc' = releaseAll(cc, Current) /\ stack' = Front(stack) /\ UNCHANGED own
\* destroyInstance and the getInstance that follows: all pools, the newest first.
destroyInstance ==
  /\ cc' = releaseAll(cc, FlattenSeq(Reverse(stack)))
  /\ stack' = << <<>> >> /\ UNCHANGED own

PoolNext ==
  \/ \E o \in Objects : NewCCRef(o) \/ retain(o) \/ ReleaseOwned(o) \/ autorelease(o)
  \/ \E o, c \in Objects : Adopt(o, c)
  \/ push \/ clear \/ DestroyPool \/ destroyInstance

-----------------------------------------------------------------------------
(* Crematory.                                                              *)

LazyInit ==
  /\ now = AliveTime + 1 /\ bodys = <<>> /\ fired = 0 /\ cleaned = {}
  /\ fpc = [t \in Threads |-> "idle"] /\ deads = [t \in Threads |-> <<>>]

InUse == ToSet(bodys) \cup UNION {ToSet(deads[t]) : t \in Threads} \cup cleaned
add(o) ==
  /\ \A b \in InUse : b.trash # o
  /\ bodys' = Append(bodys, [trash |-> o, dead_time |-> now + AliveTime])
  /\ UNCHANGED <<now, fired, fpc, deads, cleaned>>

\* fire looks whether there is something to do without the lock.
fire(t, force) ==
  /\ fpc[t] = "idle" /\ bodys # <<>> /\ (force \/ now - fired > AliveTime)
  /\ fpc' = [fpc EXCEPT ![t] = IF force THEN "force" ELSE "fire"]
  /\ UNCHANGED <<now, bodys, fired, deads, cleaned>>

\* fault: what dies in this very second counts as dead
DeadNow(b) == now >= b.dead_time
Dead(b) == now > b.dead_time
\* The bodies at the front of the list that are dead, or all.
Collected(t) ==
  LET kept == {i \in DOMAIN bodys : fpc[t] = "fire" /\ ~Dead(bodys[i])}
  IN SubSeq(bodys, 1, IF kept = {} THEN Len(bodys) ELSE Min(kept) - 1)
collect(t) ==
  /\ fpc[t] \in {"fire", "force"} /\ fpc' = [fpc EXCEPT ![t] = "clean"]
  /\ deads' = [deads EXCEPT ![t] = Collected(t)]
  /\ bodys' = SubSeq(bodys, Len(Collected(t)) + 1, Len(bodys))
  /\ fired' = now /\ UNCHANGED <<now, cleaned>>
cleanup(t) ==
  /\ fpc[t] = "clean" /\ fpc' = [fpc EXCEPT ![t] = "idle"]
  /\ cleaned' = cleaned \cup ToSet(deads[t])
  /\ deads' = [deads EXCEPT ![t] = <<>>] /\ UNCHANGED <<now, bodys, fired>>

Tick == now < MaxTime /\ now' = now + 1 /\ UNCHANGED <<bodys, fired, fpc, deads, cleaned>>

LazyNext ==
  \/ Tick \/ \E o \in Objects : add(o)
  \/ \E t \in Threads, force \in BOOLEAN : fire(t, force)
  \/ \E t \in Threads : collect(t) \/ cleanup(t)

HandleSpec == HandleInit /\ [][HandleNext]_handleVars
AtomicSpec == AtomicInit /\ [][AtomicNext]_atomicVars
PoolSpec == PoolInit /\ [][PoolNext]_poolVars
LazySpec == LazyInit /\ [][LazyNext]_lazyVars

-----------------------------------------------------------------------------
(* Properties.                                                             *)

\* Unref answers that the object should delete itself with the last reference
\* of the pointers and the program and not before, and the count is the number
\* of these references, also when a pointer is assigned to itself or to
\* another pointer to the same object.
HandlesExact == \A o \in Objects :
  LET refs == Cardinality({h \in Handles : handle[h] = o}) + raw[o]
  IN (o \in obj.live) = (refs > 0) /\ (o \in obj.live => obj.ref_count[o] = refs)

\* An object is alive as long as a thread has a reference or is about to give
\* one up, and is deleted with the last one, once, also when that is decided
\* on a count read before.  Its destructor asserts that ref_ is zero: so it is
\* after a decrement; Unref of the only owner decrements nothing, and is the
\* one way to fail the assertion.
AtomicExact ==
  LET active == MapThenSumSet(LAMBDA t : holds[t] + (IF upc[t] = "sub" THEN 1 ELSE 0), Threads)
  IN IF fate = "alive" THEN ref = active /\ active > 0
     ELSE active = 0 /\ ref = (IF fate = "owner" THEN 1 ELSE 0)

\* The count of a CCRef is the number of references of the program, of other
\* objects and of the autorelease pools, one for each time it was added: none
\* dies while a pool holds it, which release asserts, none is left when nobody
\* refers to it, and the tracked objects are those that exist.
PoolRefsExact == \A o \in Objects :
  LET pooled == FoldLeft(LAMBDA n, p : n + Len(SelectSeq(p, LAMBDA x : x = o)), 0, stack)
      refs == own[o] + pooled + Cardinality({x \in cc.live : cc.child[x] = o})
  IN /\ (o \in cc.live) = (refs > 0) /\ (o \in cc.live => cc.count[o] = refs)
     /\ (o \in cc.tracked) = (o \in cc.live)

\* What is added is cleaned up once, whoever fires, and not before its time
\* unless someone forces it; the list is sorted by time.
LazyExact ==
  /\ \A t, u \in Threads : t # u => ToSet(deads[t]) \cap ToSet(deads[u]) = {}
  /\ \A t \in Threads : ToSet(deads[t]) \cap (ToSet(bodys) \cup cleaned) = {}
  /\ ToSet(bodys) \cap cleaned = {}
  /\ \A i, j \in DOMAIN bodys : i < j => bodys[i].dead_time <= bodys[j].dead_time
\* A fire that is not forced takes what is dead off the list and leaves nothing
\* behind that is.
CollectsDead == \A t \in Threads : collect(t) /\ fpc[t] = "fire" =>
  /\ \A b \in ToSet(bodys) \ ToSet(bodys') : b.dead_time < now
  /\ \A b \in ToSet(bodys') : b.dead_time >= now

=============================================================================
