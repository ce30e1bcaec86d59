---------------------------- MODULE StorageSuite -----------------------------
(***************************************************************************)
(* The cache, the allocators, the object pools and the reference counts,   *)
(* model checked together.  They share nothing, so a behaviour picks one   *)
(* instance (focus) and only that instance steps.  BlockAllocators is      *)
(* extended, with its constants in the configurations.                     *)
(***************************************************************************)
EXTENDS BlockAllocators, TLC

CONSTANTS
  Parts,  \* the instances to check
  Null    \* no entry

VARIABLES focus,
  \* LRUCache
  capacity, shard, held, pruning, idle,
  \* Arenas
  easy, arena, pool, given,
  \* ObjectPools
  kind, items, pieces, freelist, next, prev, made, first, single, pc, loc,
  \* References
  handle, raw, obj, ref, fate, holds, upc, own, cc, stack,
  now, bodys, fired, fpc, deads, cleaned

cacheVars == <<capacity, shard, held, pruning, idle>>
arenaVars == <<easy, arena, pool, given>>
itemVars == <<kind, items>>
knvVars == <<freelist, next, prev, made, first, single, pc, loc>>
handleVars == <<handle, raw, obj>>
atomicVars == <<ref, fate, holds, upc>>
poolVars == <<own, cc, stack>>
lazyVars == <<now, bodys, fired, fpc, deads, cleaned>>
vars == <<focus, cacheVars, buddyVars, pageVars, chunkVars, arenaVars, itemVars, pieces, knvVars,
          handleVars, atomicVars, poolVars, lazyVars>>

-----------------------------------------------------------------------------

\* Three keys in one shard, two of them in one chain until the table grows;
\* and two shards that Prune visits one after the other.
Cache == INSTANCE LRUCache WITH
  Keys <- {"a", "b", "c"}, Hash <- ("a" :> 0 @@ "b" :> 2 @@ "c" :> 1), HashRange <- 8,
  NumShards <- 1, MinLength <- 1, Entries <- 1 .. 3, Charges <- {1, 2},
  Capacities <- {0, 3}, MaxHandles <- 2
Sharded == INSTANCE LRUCache WITH
  Keys <- {"a", "b", "d"}, Hash <- ("a" :> 0 @@ "b" :> 2 @@ "d" :> 4), HashRange <- 8,
  NumShards <- 2, MinLength <- 1, Entries <- {1, 2}, Charges <- {1},
  Capacities <- {2}, MaxHandles <- 2

\* The sizes are chosen so that each allocator serves some requests from the
\* current block, some from a new one and some from a block of their own.
Easy == INSTANCE Arenas WITH
  BlockSize <- 8, Word <- 2, Aligns <- {1, 2}, MaxAlign <- 4, FirstBlocks <- 2,
  PageSize <- 10, HeadSize <- 4, NextHead <- 2, LargeSize <- 2, FailLimit <- 0,
  Sizes <- {1, 2, 3}, MaxBlocks <- 3
Arena == INSTANCE Arenas WITH
  BlockSize <- 8, Word <- 2, Aligns <- {1, 4}, MaxAlign <- 4, FirstBlocks <- 2,
  PageSize <- 10, HeadSize <- 4, NextHead <- 2, LargeSize <- 2, FailLimit <- 0,
  Sizes <- {1, 2, 7}, MaxBlocks <- 3
EasyPool == INSTANCE Arenas WITH
  BlockSize <- 8, Word <- 2, Aligns <- {1, 2}, MaxAlign <- 4, FirstBlocks <- 2,
  PageSize <- 10, HeadSize <- 4, NextHead <- 2, LargeSize <- 2, FailLimit <- 0,
  Sizes <- {3, 7}, MaxBlocks <- 4

\* One user of a TCKnvObjPool, and two of a TCKnvObjPoolR.
Object == INSTANCE ObjectPools WITH
  PageItems <- 2, MaxPages <- 3, PieceSizes <- {1, 2, 3}, MaxCacheByte <- 2,
  MaxCacheCount <- 3, MaxMallocs <- 1, Threads <- {"t"}, Objects <- 1 .. 3, Null <- 0
Shared == INSTANCE ObjectPools WITH
  PageItems <- 2, MaxPages <- 3, PieceSizes <- {1, 2, 3}, MaxCacheByte <- 2,
  MaxCacheCount <- 3, MaxMallocs <- 1, Threads <- {"t", "u"}, Objects <- 1 .. 2, Null <- 0

Reference == INSTANCE References WITH
  Objects <- 1 .. 3, Null <- 0, Handles <- {"x", "y", "z"}, Threads <- {"t", "u", "v"},
  MaxRefs <- 2, MaxPools <- 2, MaxAdded <- 2, AliveTime <- 1, MaxTime <- 5

ASSUME StorageSuiteAssumption ==
  /\ Cache!CacheAssumption /\ Sharded!CacheAssumption /\ BlockAssumption
  /\ Easy!ArenaAssumption /\ Arena!ArenaAssumption /\ EasyPool!ArenaAssumption
  /\ Object!ObjectPoolAssumption /\ Shared!ObjectPoolAssumption
  /\ Reference!ReferenceAssumption

-----------------------------------------------------------------------------

Init ==
  /\ focus \in Parts
  /\ CASE focus = "sharded" -> Sharded!CacheInit
       [] focus = "cache" -> Cache!CacheInit
       [] OTHER -> capacity = 0 /\ shard = <<>> /\ held = <<>> /\ pruning = 0 /\ idle = <<>>
  /\ BuddyInit /\ PageInit /\ ChunkInit
  /\ CASE focus = "easy" -> Easy!EasyInit /\ arena = <<>> /\ pool = <<>>
       [] focus = "arena" -> Arena!ArenaInit /\ easy = <<>> /\ pool = <<>>
       [] focus = "easypool" -> EasyPool!PoolInit /\ easy = <<>> /\ arena = <<>>
       [] OTHER -> easy = <<>> /\ arena = <<>> /\ pool = <<>> /\ given = {}
  /\ Object!ItemsInit /\ (focus # "items" => kind = "MemoryPoolEasy")
  /\ Object!PiecesInit
  /\ IF focus = "shared" THEN Shared!KnvInit ELSE Object!KnvInit
  /\ Reference!HandleInit
  /\ Reference!AtomicInit /\ (focus # "atomic" => holds["t"] = 1)
  /\ Reference!PoolInit /\ Reference!LazyInit

Next ==
  /\ UNCHANGED focus
  /\ CASE focus = "cache" -> Cache!CacheNext
       [] focus = "sharded" -> Sharded!CacheNext
       [] OTHER -> UNCHANGED cacheVars
  /\ IF focus = "buddy" THEN BuddyNext ELSE UNCHANGED buddyVars
  /\ IF focus = "pages" THEN PageNext ELSE UNCHANGED pageVars
  /\ IF focus = "chunks" THEN ChunkNext ELSE UNCHANGED chunkVars
  /\ CASE focus = "easy" -> Easy!EasyNext /\ UNCHANGED <<arena, pool>>
       [] focus = "arena" -> Arena!ArenaNext /\ UNCHANGED <<easy, pool>>
       [] focus = "easypool" -> EasyPool!PoolNext /\ UNCHANGED <<easy, arena>>
       [] OTHER -> UNCHANGED arenaVars
  /\ IF focus = "items" THEN Object!ItemsNext ELSE UNCHANGED itemVars
  /\ IF focus = "pieces" THEN Object!PiecesNext ELSE UNCHANGED pieces
  /\ CASE focus = "knv" -> Object!KnvNext
       [] focus = "shared" -> Shared!KnvNext
       [] OTHER -> UNCHANGED knvVars
  /\ IF focus = "handles" THEN Reference!HandleNext ELSE UNCHANGED handleVars
  /\ IF focus = "atomic" THEN Reference!AtomicNext ELSE UNCHANGED atomicVars
  /\ IF focus = "ccref" THEN Reference!PoolNext ELSE UNCHANGED poolVars
  /\ IF focus = "lazy" THEN Reference!LazyNext ELSE UNCHANGED lazyVars

Spec == Init /\ [][Next]_vars

-----------------------------------------------------------------------------
(* Properties.  The components' modules say what each of them means.       *)

\* No allocator or pool hands out memory that someone has already, what it
\* hands out lies where it says, aligned as asked, and what comes back can be
\* handed out again: BuddyPool refuses only what there is no room for, and
\* Arena frees every block it has allocated.
MemoryExclusive ==
  /\ focus = "buddy" => BuddyExclusive /\ BuddyComplete
  /\ focus = "chunks" => (used = {} => LayoutSound)
  /\ focus = "easy" => Easy!EasySound
  /\ focus = "arena" => Arena!ArenaSound /\ Arena!ArenaOwnsBlocks
  /\ focus = "easypool" => EasyPool!PoolSound
  /\ focus = "items" => Object!ItemsExclusive
  /\ focus = "pieces" => Object!PiecesExclusive
  /\ focus = "knv" => Object!KnvSound

\* A process that dies in the middle of alloc_page, free_page, allocate or
\* deallocate leaves shared memory in which nothing is handed out twice; each
\* death loses at most the page or block at hand.
CrashSafe ==
  /\ focus = "pages" => PagesSafe
  /\ focus = "chunks" => ChunksSafe

\* Every count of references is the number of references, and what it counts
\* ends with the last one: the entries of LRUCache, the objects of
\* ScopedRefCountedPtr, RefCounted, CCRef and Crematory.
ReferencesExact ==
  /\ focus = "cache" => Cache!RefsExact
  /\ focus = "sharded" => Sharded!RefsExact
  /\ focus = "handles" => Reference!HandlesExact
  /\ focus = "atomic" => Reference!AtomicExact
  /\ focus = "ccref" => Reference!PoolRefsExact
  /\ focus = "lazy" => Reference!LazyExact

\* The hash table, the two lists and usage_ of an LRUCache agree.
CacheConsistent ==
  /\ focus = "cache" => Cache!ListsExact
  /\ focus = "sharded" => Sharded!ListsExact

\* Insert of LRUCache evicts the entries that were released first, and as few
\* as it can; a fire of Crematory takes what is dead, all of it, and nothing
\* else.
RemovesOldestOnly ==
  [][ /\ focus = "cache" => Cache!EvictsOldest
      /\ focus = "lazy" => Reference!CollectsDead]_vars

\* Two threads never get the same object from a TCKnvObjPoolR.
HandsDisjoint == focus = "shared" => Shared!HandsDisjoint

=============================================================================
