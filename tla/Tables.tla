------------------------------- MODULE Tables --------------------------------
(***************************************************************************)
(* The tables of util/map_util.h (FlatRep under FlatMap and FlatSet,       *)
(* LimitedMap) and util/cuckoo_map.h (CuckooCache::cache,                  *)
(* PresizedCuckooMap).  rep is the structure in use, model what a client   *)
(* believes is in it.  Nothing here is shared between threads: an          *)
(* operation is a step.                                                    *)
(***************************************************************************)
EXTENDS Integers, FiniteSets, FiniteSetsExt, SequencesExt, Functions

CONSTANTS
  Keys, Values,
  Index,               \* FlatRep: hash of a key without its lowest byte
  Width,               \* kWidth
  Sizes,               \* arguments of resize; bounds of a LimitedMap
  Wrap,                \* stands for 2^64
  TombstonesCleared,   \* whether clients clear a table that has erased entries
  Locs, Size, None,    \* CuckooCache: the hashes of an element, as locations; the slots
  H1, H2, Slots,       \* PresizedCuckooMap: a key's buckets; kSlotsPerBucket
  PathLen              \* kMaxBFSPathLen

TableAssumption ==
  /\ Index \in [Keys -> Nat] /\ Width \in {2 ^ i : i \in 0 .. 5} /\ Sizes \subseteq Nat
  /\ Size > 1 /\ None \notin Keys /\ Slots > 0 /\ PathLen > 1
  /\ \A k \in Keys : Len(Locs[k]) > 1 /\ ToSet(Locs[k]) \subseteq 0 .. Size - 1

VARIABLES rep, model

vars == <<rep, model>>

Entered(m, k, v) == [x \in DOMAIN m \cup {k} |-> IF x = k THEN v ELSE m[x]]
Without(m, k) == [x \in DOMAIN m \ {k} |-> m[x]]

-----------------------------------------------------------------------------
(* FlatRep.  A slot is empty, deleted or a pair; the marker byte only      *)
(* spares comparisons of keys.                                             *)

kEmpty == <<>>
kDeleted == <<0>>
Full(x) == Len(x) = 2

Capacity(s) == Cardinality(DOMAIN s.slot)
size(s) == (s.not_empty - s.deleted) % Wrap

FlatNew(N) ==
  LET cap == Min({c \in {Width * 2 ^ lg : lg \in 0 .. N} : 5 * N < 4 * c})
      grow == (4 * cap) \div 5
  IN [slot |-> [i \in 0 .. cap - 1 |-> kEmpty], not_empty |-> 0, deleted |-> 0,
      grow |-> grow, shrink |-> IF cap = Width THEN 0 ELSE (2 * grow) \div 5]

\* Quadratic probing: the j-th slot NextIndex leads to.
Probe(s, k, j) == (Index[k] + (j * (j + 1)) \div 2) % Capacity(s)

\* The number of probes after which Find and FindOrInsert stop; -1 if never.
Stop(s, k) ==
  LET stops == {j \in DOMAIN s.slot : LET x == s.slot[Probe(s, k, j)] IN
                                        x = kEmpty \/ (Full(x) /\ x[1] = k)}
  IN IF stops = {} THEN -1 ELSE Min(stops)

Found(s, k) == Stop(s, k) >= 0 /\ Full(s.slot[Probe(s, k, Stop(s, k))])
Lookup(s, k) == s.slot[Probe(s, k, Stop(s, k))][2]

FindOrInsert(s, k, v) ==
  LET tombs == {j \in 0 .. Stop(s, k) - 1 : s.slot[Probe(s, k, j)] = kDeleted}
  IN IF tombs # {}
     THEN [s EXCEPT !.slot[Probe(s, k, Min(tombs))] = <<k, v>>, !.deleted = (@ - 1) % Wrap]
     ELSE [s EXCEPT !.slot[Probe(s, k, Stop(s, k))] = <<k, v>>, !.not_empty = @ + 1]

FreshInsert(s, x) ==
  LET j == Min({i \in DOMAIN s.slot : s.slot[Probe(s, x[1], i)] = kEmpty})
  IN [s EXCEPT !.slot[Probe(s, x[1], j)] = x, !.not_empty = @ + 1]

CopyEntries(s, old) ==
  FoldLeft(FreshInsert, s, SelectSeq([i \in 1 .. Capacity(old) |-> old.slot[i - 1]], Full))

Resize(s, N) == CopyEntries(FlatNew(N), s)

\* After erasures grow_ is 0 and the table may be too large.
MaybeResize(s) ==
  LET t == IF s.grow = 0 /\ size(s) >= s.shrink
           THEN [s EXCEPT !.grow = (4 * Capacity(s)) \div 5] ELSE s
  IN CASE s.not_empty < s.grow -> s
       [] t.not_empty < t.grow -> t
       [] OTHER -> Resize(s, size(s) + 1)

\* fault: an erased slot is free again
EraseToEmpty(s, i) == [s EXCEPT !.slot[i] = kEmpty, !.not_empty = @ - 1]
EraseSlot(s, i) == [s EXCEPT !.slot[i] = kDeleted, !.deleted = @ + 1, !.grow = 0]

clear_no_resize(s) ==
  [s EXCEPT !.slot = [i \in DOMAIN @ |-> IF Full(@[i]) THEN kEmpty ELSE @[i]],
            !.not_empty = 0, !.deleted = 0]

FlatInit == rep = FlatNew(1) /\ model = <<>>

\* Insert keeps the value of a key that is there; operator[] lets it be assigned.
FlatInsert(k, v, assigned) ==
  LET s == MaybeResize(rep) IN
  /\ Stop(s, k) >= 0
  /\ rep' = CASE ~Found(s, k) -> FindOrInsert(s, k, v)
              [] Found(s, k) /\ assigned -> [s EXCEPT !.slot[Probe(s, k, Stop(s, k))] = <<k, v>>]
              [] OTHER -> s
  /\ model' = IF k \in DOMAIN model /\ ~assigned THEN model ELSE Entered(model, k, v)

FlatErase(k) ==
  /\ Found(rep, k)
  /\ rep' = EraseSlot(rep, Probe(rep, k, Stop(rep, k))) /\ model' = Without(model, k)

\* erase(begin(), end())
FlatEraseAll ==
  /\ rep' = FoldLeft(EraseSlot, rep, SetToSeq({i \in DOMAIN rep.slot : Full(rep.slot[i])}))
  /\ model' = <<>>

FlatClear(resizing) ==
  LET s == clear_no_resize(rep) IN
  /\ TombstonesCleared \/ rep.deleted = 0
  /\ rep' = IF resizing THEN MaybeResize([s EXCEPT !.grow = 0]) ELSE s
  /\ model' = <<>>

FlatResize(N) == rep' = Resize(rep, Max({N, size(rep)})) /\ UNCHANGED model

\* CopyFrom and the copy constructor
FlatCopy == rep' = CopyEntries(FlatNew(size(rep)), rep) /\ UNCHANGED model

FlatNext ==
  \/ \E k \in Keys, v \in Values, assigned \in BOOLEAN : FlatInsert(k, v, assigned)
  \/ \E k \in Keys : FlatErase(k)
  \/ FlatEraseAll \/ FlatCopy
  \/ \E resizing \in BOOLEAN : FlatClear(resizing)
  \/ \E N \in Sizes : FlatResize(N)

-----------------------------------------------------------------------------
(* LimitedMap: rmap orders the keys by value, equal values by age.  Of the *)
(* last operation model has what the map would hold without a bound, and   *)
(* the key it inserted.                                                    *)

Rank(r, k, v) == SelectSeq(r, LAMBDA x : x[1] <= v) \o <<<<v, k>>>>
                 \o SelectSeq(r, LAMBDA x : x[1] > v)
Unrank(r, k, v) == SelectSeq(r, LAMBDA x : x # <<v, k>>)

Offered(map, new) == model' = [offered |-> map, new |-> new]
LimitedInit ==
  /\ model = [offered |-> <<>>, new |-> None]
  /\ \E n \in Sizes \ {0} : rep = [map |-> <<>>, rmap |-> <<>>, max |-> n]

Drop(s) == [s EXCEPT !.map = Without(@, s.rmap[1][2]), !.rmap = Tail(@)]

\* The element to drop is chosen before the new one is ranked.
LimitedInsert(k, v) ==
  LET s == [rep EXCEPT !.map = Entered(@, k, v)]
      t == IF Cardinality(DOMAIN s.map) > rep.max THEN Drop(s) ELSE s
  IN /\ k \notin DOMAIN rep.map
     /\ rep' = [t EXCEPT !.rmap = Rank(@, k, v)] /\ Offered(Entered(rep.map, k, v), k)

LimitedErase(k) ==
  /\ k \in DOMAIN rep.map
  /\ rep' = [rep EXCEPT !.map = Without(@, k), !.rmap = Unrank(@, k, rep.map[k])]
  /\ Offered(Without(rep.map, k), None)

LimitedUpdate(k, v) ==
  /\ k \in DOMAIN rep.map
  /\ rep' = [rep EXCEPT !.map[k] = v, !.rmap = Rank(Unrank(@, k, rep.map[k]), k, v)]
  /\ Offered([rep.map EXCEPT ![k] = v], None)

LimitedMaxSize(n) ==
  /\ n > 0
  /\ rep' = [FoldLeft(LAMBDA s, i : Drop(s), rep, [i \in 1 .. Cardinality(DOMAIN rep.map) - n |-> i])
             EXCEPT !.max = n]
  /\ Offered(rep.map, None)

LimitedNext ==
  \/ \E k \in Keys, v \in Values : LimitedInsert(k, v) \/ LimitedUpdate(k, v)
  \/ \E k \in Keys : LimitedErase(k)
  \/ \E n \in Sizes : LimitedMaxSize(n)

-----------------------------------------------------------------------------
(* CuckooCache::cache.  flags are the discardable slots, epoch those of    *)
(* the young epoch.  Elements are erased when their slot is needed.        *)

epoch_size == Max({1, (45 * Size) \div 100})
depth_limit == Max({d \in 0 .. Size : 2 ^ d <= Size})
Table == 0 .. Size - 1

CacheInit ==
  /\ rep = [table |-> [i \in Table |-> None], flags |-> Table, epoch |-> {},
            counter |-> epoch_size]
  /\ model = {}

epoch_check(s) ==
  LET unused == Cardinality(s.epoch \ s.flags)
  IN CASE s.counter # 0 -> [s EXCEPT !.counter = @ - 1]
       [] s.counter = 0 /\ unused >= epoch_size ->
            [s EXCEPT !.epoch = {}, !.flags = @ \cup (Table \ s.epoch), !.counter = epoch_size]
       [] OTHER -> [s EXCEPT !.counter =
            Max({1, epoch_size \div 16, epoch_size - unused})]

WithEpoch(s, loc, young) == [s EXCEPT !.epoch = IF young THEN @ \cup {loc} ELSE @ \ {loc}]
Keep(s, loc, young) == WithEpoch([s EXCEPT !.flags = @ \ {loc}], loc, young)
Placed(s, e) == {i \in ToSet(Locs[e]) : s.table[i] = e}

\* One round of insert: m is the element at hand, where it was taken from, its epoch.
\* fault: the flags are not looked at
AnySlot(s, locs) == locs
Open(s, locs) == SelectSeq(locs, LAMBDA i : i \in s.flags)
Displace(c) ==
  LET s == c.s
      m == c.m
      locs == Locs[m.e]
      open == Open(s, locs)
      last == IF m.loc \in ToSet(locs) THEN CHOOSE i \in DOMAIN locs :
                  locs[i] = m.loc /\ \A j \in 1 .. i - 1 : locs[j] # m.loc ELSE 1 + Len(locs)
      loc == locs[1 + (last % Len(locs))]
  IN IF open # <<>>
     THEN [s |-> Keep([s EXCEPT !.table[open[1]] = m.e], open[1], m.young),
           m |-> [m EXCEPT !.e = None]]
     ELSE [s |-> WithEpoch([s EXCEPT !.table[loc] = m.e], loc, m.young),
           m |-> [e |-> s.table[loc], loc |-> loc, young |-> loc \in s.epoch]]

CacheInsert(e) ==
  LET s == epoch_check(rep)
      run == FoldLeft(LAMBDA c, i : IF c.m.e = None THEN c ELSE Displace(c),
                      [s |-> s, m |-> [e |-> e, loc |-> Size, young |-> TRUE]],
                      [i \in 1 .. depth_limit |-> i])
  IN /\ rep' = IF Placed(s, e) # {} THEN Keep(s, CHOOSE i \in Placed(s, e) : TRUE, TRUE) ELSE run.s
     /\ model' = model \cup {e}

\* contains(e, true)
CacheContains(e) ==
  /\ Placed(rep, e) # {}
  /\ rep' = [rep EXCEPT !.flags = @ \cup Placed(rep, e)] /\ UNCHANGED model

CacheNext == \E e \in Keys : CacheInsert(e) \/ CacheContains(e)

-----------------------------------------------------------------------------
(* PresizedCuckooMap.  A full key is moved along the shortest path, found  *)
(* by a breadth-first search, to a bucket with room.                       *)

Unused == <<>>
Buckets == Range(H1) \cup Range(H2)
alt_bucket(k, b) == IF H1[k] # b THEN H1[k] ELSE H2[k]

PathInit == rep = [b \in Buckets |-> [i \in 0 .. Slots - 1 |-> Unused]] /\ model = <<>>

Space(s, b) == {i \in 0 .. Slots - 1 : s[b][i] = Unused}
Holding(s, k) ==
  {p \in {H1[k], H2[k]} \X (0 .. Slots - 1) : s[p[1]][p[2]] # Unused /\ s[p[1]][p[2]][1] = k}

Entry(b, depth, parent, slot) == [bucket |-> b, depth |-> depth, parent |-> parent, slot |-> slot]

Onward(visited, e, b) == b # visited[e.parent].bucket
Expand(s, k, q) ==
  LET e == Head(q.queue)
      visited == Append(q.visited, e)
      slots == [i \in 1 .. Slots |-> (k + e.bucket + i - 1) % Slots]
      next == [i \in 1 .. Slots |-> Entry(alt_bucket(s[e.bucket][slots[i]][1], e.bucket),
                                          e.depth + 1, Len(visited), slots[i])]
  IN CASE Space(s, e.bucket) # {} -> [q EXCEPT !.found = <<e>>]
       [] Space(s, e.bucket) = {} /\ e.depth < PathLen ->
            [q EXCEPT !.visited = visited, !.queue = Tail(@) \o
               SelectSeq(next, LAMBDA n : Onward(visited, e, n.bucket))]
       [] OTHER -> [q EXCEPT !.queue = Tail(@)]

MaxQueue == 2 * MapThenSumSet(LAMBDA d : Slots ^ d, 0 .. PathLen - 1)
VisitedListSize == 2 * MapThenSumSet(LAMBDA d : Slots ^ d, 0 .. PathLen - 2)

Search(s, k) ==
  FoldLeft(LAMBDA q, i : IF q.found # <<>> \/ q.queue = <<>> THEN q ELSE Expand(s, k, q),
           [queue |-> <<Entry(H1[k], 1, 1, 0), Entry(H2[k], 1, 1, 0)>>, visited |-> <<>>,
            found |-> <<>>], [i \in 1 .. MaxQueue |-> i])

\* CopyItem from the end of the path backwards, then the new pair at its start
Shift(s, q, x) ==
  LET end == [s |-> s, e |-> q.found[1], free |-> Min(Space(s, q.found[1].bucket))]
      moved == FoldLeft(LAMBDA c, i :
          IF c.e.depth = 1 THEN c
          ELSE LET p == q.visited[c.e.parent] IN
               [s |-> [c.s EXCEPT ![c.e.bucket][c.free] = c.s[p.bucket][c.e.slot]],
                e |-> p, free |-> c.e.slot],
        end, [i \in 1 .. PathLen |-> i])
  IN [moved.s EXCEPT ![moved.e.bucket][moved.free] = x]

InsertUnique(k, v) ==
  LET q == Search(rep, k)
      direct == IF Space(rep, H1[k]) # {} THEN H1[k] ELSE H2[k]
  IN /\ Holding(rep, k) = {}
     /\ rep' = CASE Space(rep, direct) # {} ->
                      [rep EXCEPT ![direct][Min(Space(rep, direct))] = <<k, v>>]
                 [] Space(rep, direct) = {} /\ q.found # <<>> -> Shift(rep, q, <<k, v>>)
                 [] OTHER -> rep
     /\ model' = IF rep' = rep THEN model ELSE Entered(model, k, v)

PathNext == \E k \in Keys, v \in Values : InsertUnique(k, v)

-----------------------------------------------------------------------------
(* Properties.                                                             *)

\* A probe for any key ends, however many entries were erased, and finds
\* exactly the keys that were inserted and not erased, each once.
FlatExact ==
  /\ \A k \in Keys : Stop(rep, k) >= 0
  /\ {k \in Keys : Found(rep, k)} = DOMAIN model
  /\ \A k \in DOMAIN model : Lookup(rep, k) = model[k]
  /\ size(rep) = Cardinality(DOMAIN model)
  /\ size(rep) = Cardinality({i \in DOMAIN rep.slot : Full(rep.slot[i])})

\* "Count of entries with marker != kEmpty" (map_util.h), from which FlatRep
\* decides when the table must grow, and without which a probe need not end.
NotEmptyCounted ==
  rep.not_empty = Cardinality({i \in DOMAIN rep.slot : rep.slot[i] # kEmpty})

\* What n elements with the highest values of a map are.
AreHighest(map, of, n) ==
  /\ DOMAIN map \subseteq DOMAIN of /\ \A k \in DOMAIN map : map[k] = of[k]
  /\ Cardinality(DOMAIN map) = Min({n, Cardinality(DOMAIN of)})
  /\ \A k \in DOMAIN map, l \in DOMAIN of \ DOMAIN map : of[l] <= of[k]
\* "only keeps the N elements with the highest value" (map_util.h): after every
\* operation the map has the highest of what it had and what it was given,
\* unless what was inserted is lower than all it had: then that stays, beside
\* all the others but the lowest of them.  The two orders list the same pairs,
\* the lowest value first.
LimitedExact ==
  LET of == model.offered
      full == Cardinality(DOMAIN of) > rep.max
      lowest == model.new # None /\ full /\ \A k \in DOMAIN of \ {model.new} : of[model.new] < of[k]
  IN /\ IF lowest
        THEN /\ model.new \in DOMAIN rep.map
             /\ AreHighest(Without(rep.map, model.new), Without(of, model.new), rep.max - 1)
        ELSE AreHighest(rep.map, of, rep.max)
     /\ ToSet(rep.rmap) = {<<rep.map[k], k>> : k \in DOMAIN rep.map}
     /\ Len(rep.rmap) = Cardinality(DOMAIN rep.map)
     /\ \A i \in 2 .. Len(rep.rmap) : rep.rmap[i - 1][1] <= rep.rmap[i][1]

\* Every element of the cache stands where contains looks for it, once; a
\* slot that is not discardable has an element.
CacheExact ==
  /\ \A i \in Table : rep.table[i] # None =>
       i \in ToSet(Locs[rep.table[i]]) /\ Cardinality(Placed(rep, rep.table[i])) = 1
  /\ \A i \in Table \ rep.flags : rep.table[i] # None
  /\ Range(rep.table) \subseteq model \cup {None}

\* insert evicts at most one element, the new one included; while one of the
\* new element's slots is discardable it evicts only what stands there.
InsertEvictsOne == \A e \in Keys : CacheInsert(e) =>
  LET lost == (Range(rep.table) \cup {e}) \ (Range(rep'.table) \cup {None})
      open == ToSet(Locs[e]) \cap epoch_check(rep).flags
  IN /\ Cardinality(lost) <= 1
     /\ open # {} => lost \subseteq {rep.table[i] : i \in open}

\* Moving keys along a path loses none and doubles none, each is in one of its
\* two buckets, and the search stays within its arrays.
PathExact ==
  /\ \A k \in Keys : Cardinality(Holding(rep, k)) = IF k \in DOMAIN model THEN 1 ELSE 0
  /\ \A k \in DOMAIN model : LET p == CHOOSE x \in Holding(rep, k) : TRUE IN
       rep[p[1]][p[2]][2] = model[k]
  /\ Cardinality({p \in Buckets \X (0 .. Slots - 1) : rep[p[1]][p[2]] # Unused}) =
     Cardinality(DOMAIN model)
  /\ \A k \in Keys : Len(Search(rep, k).visited) <= VisitedListSize

=============================================================================
