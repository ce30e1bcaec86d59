------------------------------ MODULE LRUCache ------------------------------
(***************************************************************************)
(* ShardedLRUCache, LRUCache and HandleTable of util/cache.cpp.  Every     *)
(* operation on a shard is one critical section of its mutex, and an       *)
(* action here; Prune takes the mutexes of the shards one after the       *)
(* other.  The deleter and free are the entry becoming Null.               *)
(***************************************************************************)
EXTENDS Integers, FiniteSets, FiniteSetsExt, SequencesExt

CONSTANTS
  Keys,
  Hash, HashRange,  \* the hash of a key, below HashRange
  NumShards,        \* kNumShards
  MinLength,        \* the length of an empty table, 4 in the code
  Entries, Null,    \* the addresses at which a shard's entries are allocated
  Charges,
  Capacities,       \* the values of NewLRUCache's parameter
  MaxHandles        \* bound: handles a client holds

Shards == 0 .. NumShards - 1
ShardOf(hash) == hash \div (HashRange \div NumShards)
KeyShard(k) == ShardOf(Hash[k])

CacheAssumption ==
  /\ Hash \in [Keys -> 0 .. HashRange - 1]
  /\ \E i \in 0 .. 8 : MinLength = 2 ^ i
  /\ HashRange % NumShards = 0 /\ Null \notin Entries
  /\ Charges \subseteq Nat \ {0} /\ Capacities \subseteq Nat

VARIABLES
  capacity,  \* capacity_ of every shard
  shard,     \* the shards' entries, tables, lists and usage_
  held,      \* the handles clients have not released
  pruning,   \* the shard a running Prune is at, NumShards when none runs
  idle       \* history: the entries nobody holds, in the order they were given up

cacheVars == <<capacity, shard, held, pruning, idle>>

CacheInit ==
  /\ \E c \in Capacities : capacity = (c + NumShards - 1) \div NumShards
  /\ shard = [s \in Shards |->
       [entry |-> [e \in Entries |-> Null], list |-> [b \in 0 .. MinLength - 1 |-> <<>>],
        elems |-> 0, lru |-> <<>>, in_use |-> <<>>, usage |-> 0]]
  /\ held = [s \in Shards |-> [e \in Entries |-> 0]]
  /\ pruning = NumShards /\ idle = [s \in Shards |-> <<>>]

-----------------------------------------------------------------------------
(* HandleTable: list_ is a power of two of chains.                         *)

Length(c) == Cardinality(DOMAIN c.list)
Bucket(k, length) == Hash[k] % length
Position(c, k) ==
  SelectInSeq(c.list[Bucket(k, Length(c))], LAMBDA e : c.entry[e].key = k)

TableLookup(c, k) ==
  LET i == Position(c, k) IN IF i = 0 THEN Null ELSE c.list[Bucket(k, Length(c))][i]

\* The chains are read from the front and built at the front.
Resize(c) ==
  LET length == CHOOSE n \in {MinLength * 2 ^ i : i \in 0 .. c.elems} :
                  n >= c.elems /\ (n = MinLength \/ n \div 2 < c.elems)
      chains == FlattenSeq([b \in 1 .. Length(c) |-> c.list[b - 1]])
  IN [c EXCEPT !.list = [b \in 0 .. length - 1 |->
        Reverse(SelectSeq(chains, LAMBDA e : Bucket(c.entry[e].key, length) = b))]]

\* A second entry for a key takes the place of the first one.
TableInsert(c, e) ==
  LET k == c.entry[e].key
      b == Bucket(k, Length(c))
      i == Position(c, k)
      d == [c EXCEPT !.list[b] = Append(@, e), !.elems = @ + 1]
  IN IF i # 0 THEN [c EXCEPT !.list[b][i] = e]
     ELSE IF d.elems > Length(d) THEN Resize(d) ELSE d

TableRemove(c, k) ==
  LET i == Position(c, k)
  IN IF i = 0 THEN c
     ELSE [c EXCEPT !.list[Bucket(k, Length(c))] = RemoveAt(@, i), !.elems = @ - 1]

-----------------------------------------------------------------------------
(* One shard.                                                              *)

LRU_Remove(c, e) == [c EXCEPT !.lru = Remove(@, e), !.in_use = Remove(@, e)]

Ref(c, e) ==
  LET d == [c EXCEPT !.entry[e].refs = @ + 1]
  IN IF c.entry[e].refs = 1 /\ c.entry[e].in_cache
     THEN [LRU_Remove(d, e) EXCEPT !.in_use = Append(@, e)] ELSE d

\* fault: a released entry goes back to the old end of the list
AppendFirst(list, e) == <<e>> \o list
LRU_Append(list, e) == Append(list, e)

\* fault: the entry is only freed once nobody at all refers to it any more
UnrefLate(c, e) ==
  LET d == [c EXCEPT !.entry[e].refs = @ - 1]
  IN IF d.entry[e].refs = 1 /\ d.entry[e].in_cache
     THEN [LRU_Remove(d, e) EXCEPT !.lru = LRU_Append(@, e)] ELSE d
Unref(c, e) ==
  LET d == [c EXCEPT !.entry[e].refs = @ - 1]
  IN CASE d.entry[e].refs = 0 -> [d EXCEPT !.entry[e] = Null]
       [] d.entry[e].refs = 1 /\ d.entry[e].in_cache ->
            [LRU_Remove(d, e) EXCEPT !.lru = LRU_Append(@, e)]
       [] OTHER -> d

FinishErase(c, e) ==
  IF e = Null THEN c
  ELSE Unref([LRU_Remove(c, e) EXCEPT !.entry[e].in_cache = FALSE,
                                      !.usage = @ - c.entry[e].charge], e)

EraseKey(c, k) == FinishErase(TableRemove(c, k), TableLookup(c, k))

\* The loops of Insert and Prune take the oldest entry of lru_ each time.
EvictAll(c) == FoldLeft(LAMBDA d, e : EraseKey(d, d.entry[e].key), c, c.lru)
EvictOver(c) ==
  FoldLeft(LAMBDA d, e : IF d.usage > capacity THEN EraseKey(d, d.entry[e].key) ELSE d, c, c.lru)

\* fault: the entry that was replaced keeps its charge and its place
ForgetReplaced(c, e, old) == TableInsert(c, e)
Enter(c, e, old) == FinishErase(TableInsert(c, e), old)

-----------------------------------------------------------------------------
(* The operations of ShardedLRUCache.                                      *)

Handles == MapThenSumSet(LAMBDA s : MapThenSumSet(LAMBDA e : held[s][e], Entries), Shards)

\* The history of a shard, without the entries that are freed in this step.
GivenUp(s, entries) ==
  idle' = [idle EXCEPT ![s] = SelectSeq(entries, LAMBDA e : shard'[s].entry[e] # Null)]

Insert(k, charge) ==
  LET s == KeyShard(k)
      e == CHOOSE f \in Entries : shard[s].entry[f] = Null
      caching == capacity > 0
      c == [shard[s] EXCEPT !.entry[e] =
              [key |-> k, charge |-> charge, in_cache |-> caching,
               refs |-> IF caching THEN 2 ELSE 1]]
      d == IF caching
           THEN Enter([c EXCEPT !.in_use = Append(@, e), !.usage = @ + charge], e,
                      TableLookup(c, k))
           ELSE c
  IN /\ Handles < MaxHandles /\ \E f \in Entries : shard[s].entry[f] = Null
     /\ shard' = [shard EXCEPT ![s] = EvictOver(d)]
     /\ held' = [held EXCEPT ![s][e] = 1] /\ GivenUp(s, idle[s])
     /\ UNCHANGED <<capacity, pruning>>

Lookup(k) ==
  LET s == KeyShard(k)
      e == TableLookup(shard[s], k)
  IN /\ Handles < MaxHandles /\ e # Null
     /\ shard' = [shard EXCEPT ![s] = Ref(@, e)]
     /\ held' = [held EXCEPT ![s][e] = @ + 1] /\ GivenUp(s, Remove(idle[s], e))
     /\ UNCHANGED <<capacity, pruning>>

Release(s, e) ==
  /\ held[s][e] > 0
  /\ shard' = [shard EXCEPT ![s] = Unref(@, e)]
  /\ held' = [held EXCEPT ![s][e] = @ - 1]
  /\ GivenUp(s, IF held[s][e] = 1 THEN Append(idle[s], e) ELSE idle[s])
  /\ UNCHANGED <<capacity, pruning>>

Erase(k) ==
  /\ shard' = [shard EXCEPT ![KeyShard(k)] = EraseKey(@, k)]
  /\ GivenUp(KeyShard(k), idle[KeyShard(k)])
  /\ UNCHANGED <<capacity, held, pruning>>

StartPrune ==
  /\ pruning = NumShards
  /\ pruning' = 0
  /\ UNCHANGED <<capacity, shard, held, idle>>

Prune ==
  /\ pruning \in Shards
  /\ shard' = [shard EXCEPT ![pruning] = EvictAll(@)]
  /\ pruning' = pruning + 1 /\ GivenUp(pruning, idle[pruning])
  /\ UNCHANGED <<capacity, held>>

\* The destructor asserts that no entry is in use.
Destroyed == NumShards + 1
Destroy ==
  /\ pruning = NumShards /\ \A s \in Shards : shard[s].in_use = <<>>
  /\ \A s \in Shards, e \in Entries : held[s][e] = 0
  /\ shard' = [s \in Shards |-> FoldLeft(
       LAMBDA c, e : Unref([c EXCEPT !.entry[e].in_cache = FALSE], e), shard[s], shard[s].lru)]
  /\ pruning' = Destroyed /\ idle' = [s \in Shards |-> <<>>]
  /\ UNCHANGED <<capacity, held>>

CacheNext ==
  /\ pruning # Destroyed
  /\ \/ \E k \in Keys, charge \in Charges : Insert(k, charge)
     \/ \E k \in Keys : Lookup(k) \/ Erase(k)
     \/ \E s \in Shards, e \in Entries : Release(s, e)
     \/ StartPrune \/ Prune \/ Destroy

CacheSpec == CacheInit /\ [][CacheNext]_cacheVars

-----------------------------------------------------------------------------
(* Properties.                                                             *)

Cached(s) == {e \in Entries : shard[s].entry[e] # Null /\ shard[s].entry[e].in_cache}
Chained(s) == UNION {ToSet(shard[s].list[b]) : b \in DOMAIN shard[s].list}

\* An entry exists exactly as long as a client holds a handle to it or the
\* cache refers to it, and refs is the number of those references: the deleter
\* runs once, when the last of them goes, also for entries that were erased,
\* replaced or evicted while handles were out, and after the destructor none
\* is left.
RefsExact ==
  /\ \A s \in Shards, e \in Entries :
       IF shard[s].entry[e] = Null THEN held[s][e] = 0
       ELSE /\ shard[s].entry[e].refs = held[s][e] + (IF e \in Cached(s) THEN 1 ELSE 0)
            /\ shard[s].entry[e].refs > 0
  /\ pruning = Destroyed => \A s \in Shards, e \in Entries : shard[s].entry[e] = Null

\* The table, the two lists and usage_ describe the same set of entries: each
\* entry in the cache is in the chain of its hash, once, the only one with its
\* key; it is on in_use_ if a client holds it and on lru_ otherwise; usage_ is
\* the sum of the charges, and the chains hold one entry each on average.
ListsExact == pruning # Destroyed => \A s \in Shards :
  /\ ToSet(shard[s].lru) = {e \in Cached(s) : held[s][e] = 0}
  /\ ToSet(shard[s].in_use) = {e \in Cached(s) : held[s][e] > 0}
  /\ Len(shard[s].lru) + Len(shard[s].in_use) = Cardinality(Cached(s))
  /\ Chained(s) = Cached(s) /\ shard[s].elems = Cardinality(Cached(s))
  /\ shard[s].elems <= Length(shard[s])
  /\ \A e \in Cached(s) : TableLookup(shard[s], shard[s].entry[e].key) = e
  /\ shard[s].usage = MapThenSumSet(LAMBDA e : shard[s].entry[e].charge, Cached(s))

\* Insert evicts in the order in which entries were released, only entries
\* nobody holds, as many as it takes to get down to the capacity and not one
\* more: entries that are in use may keep the cache above it.
EvictsOldest ==
  \A k \in Keys, charge \in Charges : Insert(k, charge) =>
    LET s == KeyShard(k)
        rest == Remove(idle[s], TableLookup(shard[s], k))
        left == idle'[s]
        n == Len(rest) - Len(left)
    IN /\ IsSuffix(left, rest)
       /\ shard'[s].usage <= capacity \/ left = <<>>
       /\ n > 0 => shard'[s].usage + shard[s].entry[rest[n]].charge > capacity

=============================================================================
