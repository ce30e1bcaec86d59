----------------------------- MODULE ObjectPools -----------------------------
(***************************************************************************)
(* The pools of items of one size: MemoryPoolEasy, SingleMemoryPool and    *)
(* MemoryPieceStore of util/memory_pool.h, SimpleObjectPool,               *)
(* ReusableObjectPool, TCKnvObjPool and TCKnvObjPoolR of                   *)
(* util/object_pool.h.                                                     *)
(***************************************************************************)
EXTENDS Integers, FiniteSets, FiniteSetsExt, SequencesExt

CONSTANTS
  PageItems,       \* items of a page; objects ReusableObjectPool keeps
  MaxPages,        \* bound: pages of a pool
  PieceSizes,      \* sizes MemoryPieceStore is asked for
  MaxCacheByte, MaxCacheCount,
  MaxMallocs,      \* bound: pieces that come from malloc
  Threads,         \* users of a TCKnvObjPoolR; with one of them it is a TCKnvObjPool
  Objects, Null

ObjectPoolAssumption ==
  /\ PageItems > 1 /\ MaxPages > 0 /\ MaxCacheCount > 0 /\ PieceSizes \subseteq Nat \ {0}
  /\ IsFiniteSet(Objects) /\ Null \notin Objects

VARIABLES
  kind, items,               \* the class in use; free list, pages, items that are out
  pieces,                    \* MemoryPieceStore: cached and handed out pieces
  freelist, next, prev,      \* TCKnvObjPoolR: obj_freelist and the objects' links
  made, first, single,       \* objects that exist; the threads' lists and loose objects
  pc, loc                    \* the threads' positions and local variables

itemVars == <<kind, items>>
pieceVars == <<pieces>>
knvVars == <<freelist, next, prev, made, first, single, pc, loc>>

-----------------------------------------------------------------------------
(* Items in pages, with a list of those that came back.  ptr is page_ptr_  *)
(* of MemoryPoolEasy and nalloc of SingleMemoryPool's newest block.        *)

Kinds == {"MemoryPoolEasy", "SingleMemoryPool", "SimpleObjectPool", "ReusableObjectPool"}
PageOf(p) == [i \in 1 .. PageItems |-> <<p, i - 1>>]

\* The constructors; that of SimpleObjectPool allocates a chunk.
ItemsInit ==
  /\ kind \in Kinds
  /\ items = [free |-> IF kind = "SimpleObjectPool" THEN PageOf(1) ELSE <<>>,
              pages |-> IF kind \in {"MemoryPoolEasy", "SimpleObjectPool"} THEN 1 ELSE 0,
              ptr |-> IF kind = "MemoryPoolEasy" THEN 0 ELSE PageItems, out |-> {}]

Reuse(s) == [s EXCEPT !.free = Tail(@), !.out = @ \cup {Head(s.free)}]

\* allocate of MemoryPoolEasy and get of SingleMemoryPool: a returned item, the
\* next one of the page, or the first one of a new page.
allocate ==
  LET s == items
  IN CASE s.free # <<>> -> items' = Reuse(s)
       [] s.free = <<>> /\ s.ptr < PageItems ->
            items' = [s EXCEPT !.ptr = @ + 1, !.out = @ \cup {<<s.pages, s.ptr>>}]
       [] OTHER ->
            /\ s.pages < MaxPages
            /\ items' = [s EXCEPT !.pages = @ + 1, !.ptr = 1, !.out = @ \cup {<<s.pages + 1, 0>>}]

AllocateChunk(s) == [s EXCEPT !.pages = @ + 1, !.free = PageOf(s.pages + 1) \o @]
\* SimpleObjectPool::New allocates a chunk when one item is left.
NewObject ==
  IF Len(items.free) = 1
  THEN items.pages < MaxPages /\ items' = Reuse(AllocateChunk(items))
  ELSE items' = Reuse(items)

\* ReusableObjectPool: objects come from new, and go back to it when PageItems
\* of them are kept.
GetObject ==
  IF items.free = <<>>
  THEN \E i \in 0 .. MaxPages :
         /\ <<0, i>> \notin items.out /\ items' = [items EXCEPT !.out = @ \cup {<<0, i>>}]
  ELSE items' = Reuse(items)
ReleaseObject(x) ==
  items' = [items EXCEPT !.out = @ \ {x},
                         !.free = IF Len(@) < PageItems THEN <<x>> \o @ ELSE @]

\* deallocate, back and SimpleObjectPool::Delete.
deallocate(x) == items' = [items EXCEPT !.out = @ \ {x}, !.free = <<x>> \o @]

\* SingleMemoryPool::reset; the items that are out become invalid.
reset == items' = [items EXCEPT !.free = <<>>, !.pages = 0, !.ptr = PageItems, !.out = {}]

ItemsNext ==
  /\ UNCHANGED kind
  /\ \/ kind \in {"MemoryPoolEasy", "SingleMemoryPool"} /\ allocate
     \/ kind = "SimpleObjectPool" /\ NewObject
     \/ kind = "ReusableObjectPool" /\ GetObject
     \/ kind # "ReusableObjectPool" /\ \E x \in items.out : deallocate(x)
     \/ kind = "ReusableObjectPool" /\ \E x \in items.out : ReleaseObject(x)
     \/ kind = "SingleMemoryPool" /\ reset

-----------------------------------------------------------------------------
(* MemoryPieceStore: m_cached_objects of each size, and malloc beyond.     *)

PiecesInit ==
  pieces = [cached |-> [sz \in 1 .. MaxCacheByte |-> [j \in 1 .. MaxCacheCount |-> <<sz, j>>]],
            out |-> {}, malloced |-> 0]

\* The first piece is handed out and the last one takes its place.
Pop(s) == IF Len(s) = 1 THEN <<>> ELSE <<Last(s)>> \o SubSeq(s, 2, Len(s) - 1)
AllocatePiece(sz) ==
  IF sz <= MaxCacheByte /\ pieces.cached[sz] # <<>>
  THEN pieces' = [pieces EXCEPT !.cached[sz] = Pop(@), !.out = @ \cup {Head(pieces.cached[sz])}]
  ELSE pieces.malloced < MaxMallocs /\ pieces' = [pieces EXCEPT !.malloced = @ + 1]

\* A piece inside m_buffer is cached again, with the size of its class.
ReleasePiece(x) == pieces' = [pieces EXCEPT !.out = @ \ {x}, !.cached[x[1]] = Append(@, x)]
FreePiece == pieces.malloced > 0 /\ pieces' = [pieces EXCEPT !.malloced = @ - 1]

PiecesNext ==
  \/ \E sz \in PieceSizes : AllocatePiece(sz)
  \/ \E x \in pieces.out : ReleasePiece(x)
  \/ FreePiece

-----------------------------------------------------------------------------
(* TCKnvObjPoolR: a list with compare-and-swap, and the lists of its users.*)

KnvInit ==
  /\ freelist = Null /\ next = [o \in Objects |-> Null] /\ prev = [o \in Objects |-> Null]
  /\ made = {} /\ first = [t \in Threads |-> Null] /\ single = [t \in Threads |-> {}]
  /\ pc = [t \in Threads |-> "idle"]
  /\ loc = [t \in Threads |-> [how |-> "single", o |-> Null, n |-> Null, objs |-> {}]]

Go(t, where) == pc' = [pc EXCEPT ![t] = where]
Retry(t, how) ==
  /\ loc' = [loc EXCEPT ![t] = [how |-> how, o |-> freelist, n |-> Null, objs |-> {}]]
  /\ Go(t, IF freelist = Null THEN "make" ELSE "next")

\* New(), New(first) and NewFront(first) read the list's first object, then the
\* one behind it, and swap.
StartNew(t, how) ==
  /\ pc[t] = "idle" /\ Retry(t, how)
  /\ UNCHANGED <<freelist, next, prev, made, first, single>>
ReadNext(t) ==
  /\ pc[t] = "next"
  /\ loc' = [loc EXCEPT ![t].n = next[loc[t].o]] /\ Go(t, "swap")
  /\ UNCHANGED <<freelist, next, prev, made, first, single>>
Swap(t) ==
  /\ pc[t] = "swap"
  /\ IF freelist = loc[t].o
     THEN /\ freelist' = loc[t].n /\ Go(t, "out")
          /\ loc' = [loc EXCEPT ![t].objs = {loc[t].o}]
     ELSE Retry(t, loc[t].how) /\ UNCHANGED freelist
  /\ UNCHANGED <<next, prev, made, first, single>>

\* The list is empty; new may fail.
Make(t) ==
  /\ pc[t] = "make"
  /\ \/ /\ Objects # made
        /\ LET o == CHOOSE x \in Objects : x \notin made IN
           /\ made' = made \cup {o}
           /\ loc' = [loc EXCEPT ![t].o = o, ![t].objs = {o}]
        /\ Go(t, "out")
     \/ Go(t, "idle") /\ UNCHANGED <<made, loc>>
  /\ UNCHANGED <<freelist, next, prev, first, single>>

\* The links of a new object: behind the last one, which is the first one's
\* prev; before the first one; or to itself.
LinkBack(f, o) ==
  /\ next' = IF f = Null THEN [next EXCEPT ![o] = Null]
             ELSE [next EXCEPT ![o] = Null, ![prev[f]] = o]
  /\ prev' = IF f = Null THEN [prev EXCEPT ![o] = o]
             ELSE [prev EXCEPT ![o] = prev[f], ![f] = o]
LinkFront(f, o) ==
  /\ next' = [next EXCEPT ![o] = f]
  /\ prev' = IF f = Null THEN [prev EXCEPT ![o] = o]
             ELSE [prev EXCEPT ![o] = prev[f], ![f] = o]
Out(t) ==
  LET f == first[t]
      o == loc[t].o
  IN /\ pc[t] = "out" /\ Go(t, "idle")
     /\ CASE loc[t].how = "single" -> /\ LinkBack(Null, o) /\ UNCHANGED first
                                      /\ single' = [single EXCEPT ![t] = @ \cup {o}]
          [] loc[t].how = "back" -> /\ LinkBack(f, o) /\ UNCHANGED single
                                    /\ first' = [first EXCEPT ![t] = IF f = Null THEN o ELSE f]
          [] loc[t].how = "front" -> /\ LinkFront(f, o) /\ UNCHANGED single
                                     /\ first' = [first EXCEPT ![t] = o]
     /\ loc' = [loc EXCEPT ![t].objs = {}]
     /\ UNCHANGED <<freelist, made>>

\* The links when o is taken out of the list that starts with f.
UnlinkedNext(f, o) == IF o = f THEN next ELSE [next EXCEPT ![prev[o]] = next[o]]
UnlinkedPrev(f, o) ==
  CASE o = f /\ next[o] # Null -> [prev EXCEPT ![next[o]] = prev[f]]
    [] o # f /\ next[o] # Null -> [prev EXCEPT ![next[o]] = prev[o]]
    [] o # f /\ next[o] = Null -> [prev EXCEPT ![f] = prev[o]]
    [] OTHER -> prev
NewFirst(t, o) == first' = [first EXCEPT ![t] = IF o = @ THEN next[o] ELSE @]

\* The objects from o on.
Chain(o) ==
  LET at[n \in 0 .. Cardinality(Objects)] ==
        IF n = 0 THEN o ELSE IF at[n - 1] = Null THEN Null ELSE next[at[n - 1]]
  IN {at[n] : n \in 0 .. Cardinality(Objects)} \ {Null}

\* Delete(obj), Delete(first, obj) and DeleteAll(first): what is to be put on
\* the list is taken from its user first.
Putting(t, how, o, objs) ==
  /\ pc[t] = "idle" /\ Go(t, "put")
  /\ loc' = [loc EXCEPT ![t] = [how |-> how, o |-> o, n |-> Null, objs |-> objs]]
  /\ UNCHANGED <<freelist, made>>
DeleteSingle(t, o) ==
  /\ Putting(t, "one", o, {o})
  /\ single' = [single EXCEPT ![t] = @ \ {o}] /\ UNCHANGED <<next, prev, first>>
DeleteListed(t, o) ==
  /\ Putting(t, "one", o, {o})
  /\ next' = UnlinkedNext(first[t], o) /\ prev' = UnlinkedPrev(first[t], o)
  /\ NewFirst(t, o) /\ UNCHANGED single
DeleteAll(t) ==
  /\ first[t] # Null /\ Putting(t, "all", first[t], Chain(first[t]))
  /\ first' = [first EXCEPT ![t] = Null] /\ UNCHANGED <<next, prev, single>>

\* AddToFreeList and the loops of Delete: the last object leads to the list.
Put(t) ==
  LET last == IF loc[t].how = "all" THEN prev[loc[t].o] ELSE loc[t].o
  IN /\ pc[t] = "put" /\ Go(t, "swapin")
     /\ next' = [next EXCEPT ![last] = freelist]
     /\ loc' = [loc EXCEPT ![t].n = freelist]
     /\ UNCHANGED <<freelist, prev, made, first, single>>
SwapIn(t) ==
  /\ pc[t] = "swapin"
  /\ IF freelist = loc[t].n
     THEN /\ freelist' = loc[t].o /\ Go(t, "idle")
          /\ loc' = [loc EXCEPT ![t].objs = {}]
     ELSE Go(t, "put") /\ UNCHANGED <<freelist, loc>>
  /\ UNCHANGED <<next, prev, made, first, single>>

Detach(t, o) ==
  /\ pc[t] = "idle"
  /\ next' = [UnlinkedNext(first[t], o) EXCEPT ![o] = Null]
  /\ prev' = [UnlinkedPrev(first[t], o) EXCEPT ![o] = Null]
  /\ NewFirst(t, o)
  /\ single' = [single EXCEPT ![t] = @ \cup {o}]
  /\ UNCHANGED <<freelist, made, pc, loc>>

KnvNext == \E t \in Threads :
  \/ \E how \in {"single", "back", "front"} : StartNew(t, how)
  \/ ReadNext(t) \/ Swap(t) \/ Make(t) \/ Out(t)
  \/ \E o \in single[t] : DeleteSingle(t, o)
  \/ \E o \in Chain(first[t]) : DeleteListed(t, o) \/ Detach(t, o)
  \/ DeleteAll(t) \/ Put(t) \/ SwapIn(t)

ItemsSpec == ItemsInit /\ [][ItemsNext]_itemVars
PiecesSpec == PiecesInit /\ [][PiecesNext]_pieceVars
KnvSpec == KnvInit /\ [][KnvNext]_knvVars

-----------------------------------------------------------------------------
(* Properties.                                                             *)

Carved ==
  IF kind = "ReusableObjectPool" THEN items.out \cup ToSet(items.free)
  ELSE {it \in (1 .. items.pages) \X (0 .. PageItems - 1) :
          it[1] < items.pages \/ kind = "SimpleObjectPool" \/ it[2] < items.ptr}

\* Every item that was cut from a page is either out or on the free list, and
\* on the list once; count_active is the number of items that are out; the
\* free list of SimpleObjectPool, whose first item New reads without asking,
\* is never empty; ReusableObjectPool keeps no more than it has room for.
ItemsExclusive ==
  /\ items.out \cap ToSet(items.free) = {} /\ IsInjective(items.free)
  /\ Carved = items.out \cup ToSet(items.free)
  /\ Cardinality(Carved) - Len(items.free) = Cardinality(items.out)
  /\ kind = "SimpleObjectPool" => items.free # <<>>
  /\ kind = "ReusableObjectPool" => Len(items.free) <= PageItems

\* A piece of m_buffer is handed out or cached under its own size, once: there
\* is room when it comes back, which Release asserts.
PiecesExclusive == \A sz \in 1 .. MaxCacheByte :
  LET back == pieces.cached[sz]
  IN /\ IsInjective(back)
     /\ ToSet(back) \cup {x \in pieces.out : x[1] = sz} = {<<sz, j>> : j \in 1 .. MaxCacheCount}
     /\ ToSet(back) \cap pieces.out = {}

\* What a thread has: its list, its loose objects, and what a call of it is
\* taking from the pool or putting there.
Hands(t) == Chain(first[t]) \cup single[t] \cup loc[t].objs

\* No object is in the hands of two threads.
HandsDisjoint == \A s, t \in Threads : s # t => Hands(s) \cap Hands(t) = {}

\* Every object is free or in its user's hands, and never both; each list is
\* linked in both directions, with its end as the first object's prev, so that
\* New(first) and AddToFreeList find it.
KnvSound ==
  /\ HandsDisjoint
  /\ made = Chain(freelist) \cup UNION {Hands(t) : t \in Threads}
  /\ \A t \in Threads :
       /\ Chain(freelist) \cap Hands(t) = {}
       /\ Chain(first[t]) \cap single[t] = {}
       /\ \A o \in Chain(first[t]) :
            IF next[o] = Null THEN prev[first[t]] = o ELSE prev[next[o]] = o

=============================================================================
