------------------------------- MODULE Arenas --------------------------------
(***************************************************************************)
(* The allocators that hand out memory from the front of their blocks and  *)
(* take it back all at once: ArenaEasy and Arena of util/arena, easy_pool  *)
(* of util/memory_pool (whose tlock, when it is switched on, makes each    *)
(* call one step).  An address is a block and an offset in it; base is the *)
(* remainder of a block's address by MaxAlign.                             *)
(***************************************************************************)
EXTENDS Integers, FiniteSets, FiniteSetsExt, SequencesExt

CONSTANTS
  BlockSize,                  \* kBlockSize of ArenaEasy, block_size_ of Arena
  Word,                       \* alignment of malloc, size of a pointer
  Aligns, MaxAlign,           \* alignments clients ask Arena for, and the largest of them
  FirstBlocks,                \* length of first_blocks_
  PageSize,                   \* size of a page of easy_pool
  HeadSize, NextHead,         \* bytes taken by the head of the first and of other pages
  LargeSize,                  \* sizeof(easy_pool_large_t)
  FailLimit,                  \* failures after which a page is not the first any more
  Sizes,                      \* sizes clients ask for
  MaxBlocks                   \* bound: blocks of an allocator

ArenaAssumption ==
  /\ {Word, MaxAlign} \cup Aligns \subseteq {2 ^ i : i \in 0 .. 8} /\ Word <= MaxAlign
  /\ \A a \in Aligns : a <= MaxAlign
  /\ BlockSize > Word /\ FirstBlocks > 0 /\ Sizes \subseteq Nat \ {0}
  /\ NextHead <= HeadSize /\ NextHead % Word = 0 /\ HeadSize + LargeSize <= PageSize

VARIABLES
  easy,      \* ArenaEasy: its blocks' sizes, the block and offset of alloc_ptr_, counters
  arena,     \* Arena: the live blocks, its two arrays of them, freestart_ and remaining_
  pool,      \* easy_pool: the live blocks, the list of pages, current, the large blocks
  given      \* any two of the regions clients have: the properties are about pairs

easyVars == <<easy, given>>
arenaVars == <<arena, given>>
poolVars == <<pool, given>>

AlignUp(n, a) == a * ((n + a - 1) \div a)
Region(block, from, size, align) ==
  [block |-> block, from |-> from, size |-> size, align |-> align]
\* A client gets the regions; those that are watched are remembered.
Give(regions) == \E watched \in SUBSET regions :
  Cardinality(given \cup watched) <= 2 /\ given' = given \cup watched
Fresh(heap) == Min(1 .. MaxBlocks + 1 \ DOMAIN heap)

-----------------------------------------------------------------------------
(* ArenaEasy.                                                              *)

EasyInit ==
  /\ easy = [blocks |-> <<>>, block |-> 0, offset |-> 0, remaining |-> 0, memory_usage |-> 0]
  /\ given = {}

AllocateNewBlock(a, bytes) ==
  [a EXCEPT !.blocks = Append(@, bytes), !.memory_usage = @ + bytes + Word]

\* An object of more than a quarter of a block has a block to itself.
AllocateFallback(bytes) ==
  LET a == AllocateNewBlock(easy, BlockSize)
  IN IF bytes > BlockSize \div 4 THEN AllocateNewBlock(easy, bytes)
     ELSE [a EXCEPT !.block = Len(a.blocks), !.offset = bytes, !.remaining = BlockSize - bytes]

\* Allocate has no slop, AllocateAligned as much as it takes to the next word.
EasyAllocate(bytes, align) ==
  LET slop == AlignUp(easy.offset, align) - easy.offset
      bump == [easy EXCEPT !.offset = @ + slop + bytes, !.remaining = @ - slop - bytes]
  IN IF slop + bytes <= easy.remaining
     THEN /\ easy' = bump
          /\ Give({Region(easy.block, easy.offset + slop, bytes, align)})
     ELSE /\ Len(easy.blocks) < MaxBlocks
          /\ easy' = AllocateFallback(bytes)
          /\ Give({Region(Len(easy.blocks) + 1, 0, bytes, align)})

EasyNext == \E bytes \in Sizes, align \in {1, Word} : EasyAllocate(bytes, align)

-----------------------------------------------------------------------------
(* Arena.                                                                  *)

\* AlignedMalloc returns any address that is aligned as asked.
Bases(align) == {b \in 0 .. MaxAlign - 1 : b % align = 0}

FirstBlock(heap) ==
  [heap |-> heap, first |-> <<1>>, overflow |-> <<>>, block |-> 1, offset |-> 0,
   remaining |-> heap[1].size, alive |-> TRUE]

ArenaInit ==
  /\ \E base \in Bases(Word) : arena = FirstBlock(1 :> [size |-> BlockSize, base |-> base])
  /\ given = {}

LeastCommonMultiple(a, b) == Min({m \in 1 .. a * b : m % a = 0 /\ m % b = 0})
AdjustedAlignment(align) ==
  Max({Word, IF align > 1 THEN LeastCommonMultiple(align, Word) ELSE 1})

\* The block comes to the end of first_blocks_ and, when that is full, of
\* overflow_blocks_.
AllocNewBlock(a, size, align, base) ==
  LET adjusted == AdjustedAlignment(align)
      adjusted_size == IF size > adjusted THEN AlignUp(size, adjusted) ELSE size
      id == Fresh(a.heap)
      listed == IF Len(a.first) < FirstBlocks
                THEN [a EXCEPT !.first = Append(@, id)] ELSE [a EXCEPT !.overflow = Append(@, id)]
  IN [listed EXCEPT !.heap = @ @@ (id :> [size |-> adjusted_size, base |-> base])]

MakeNewBlock(a, align, base) ==
  LET id == Fresh(a.heap)
      b == AllocNewBlock(a, BlockSize, align, base)
  IN [b EXCEPT !.block = id, !.offset = 0, !.remaining = b.heap[id].size]

Take(a, size) == [a EXCEPT !.offset = @ + size, !.remaining = @ - size]
Waste(a, align) ==
  LET address == a.heap[a.block].base + a.offset IN AlignUp(address, align) - address
SatisfyAlignment(a, align) == Waste(a, align) = 0 \/ Waste(a, align) < a.remaining

GetMemory(size, align) ==
  LET id == Fresh(arena.heap)
      placed == Take(arena, Waste(arena, align))
  IN CASE size < arena.remaining /\ align = 1 ->
            /\ arena' = Take(arena, size)
            /\ Give({Region(arena.block, arena.offset, size, align)})
       [] ~(size < arena.remaining /\ align = 1) /\ size > BlockSize \div 4 ->
            /\ id <= MaxBlocks
            /\ \E base \in Bases(AdjustedAlignment(align)) :
                 arena' = AllocNewBlock(arena, size, align, base)
            /\ Give({Region(id, 0, size, align)})
       [] OTHER ->
            IF SatisfyAlignment(arena, align) /\ size <= placed.remaining
            THEN /\ arena' = Take(placed, size)
                 /\ Give({Region(arena.block, placed.offset, size, align)})
            ELSE /\ id <= MaxBlocks
                 /\ \E base \in Bases(AdjustedAlignment(align)) :
                      arena' = Take(MakeNewBlock(arena, align, base), size)
                 /\ Give({Region(id, 0, size, align)})

\* The blocks that FreeBlocks frees: all but the first.
FreeBlocks(a) == {a.first[i] : i \in 2 .. Len(a.first)} \cup ToSet(a.overflow)

Left(heap, freed) == [b \in DOMAIN heap \ freed |-> heap[b]]
Reset ==
  /\ arena' = FirstBlock(Left(arena.heap, FreeBlocks(arena)))
  /\ given' = {}

DestroyArena ==
  /\ arena' = [arena EXCEPT !.heap = Left(@, FreeBlocks(arena) \cup {1}), !.alive = FALSE]
  /\ given' = {}

ArenaNext ==
  /\ arena.alive
  /\ \/ \E size \in Sizes, align \in Aligns : GetMemory(size, align)
     \/ Reset \/ DestroyArena

-----------------------------------------------------------------------------
(* easy_pool.                                                              *)

PoolMax == PageSize - HeadSize
Page(id, last) == [id |-> id, last |-> last, failed |-> 0]

\* easy_pool_create.
PoolInit ==
  /\ pool = [heap |-> 1 :> PageSize, pages |-> <<Page(1, HeadSize)>>, current |-> 1,
             large |-> <<>>, alive |-> TRUE]
  /\ given = {}

Place(i, align) == AlignUp(pool.pages[i].last, align)
Fitting(size, align) ==
  {i \in pool.current .. Len(pool.pages) : Place(i, align) + size <= PageSize}

\* fault: the new page counts its own head from 0
alloc_block_whole(p, size) ==
  LET id == Fresh(p.heap)
  IN [p EXCEPT !.heap = @ @@ (id :> PageSize), !.pages = Append(@, Page(id, size))]
\* A page with a successor has failed once more; the first one that is tried
\* becomes the one after the last page that has failed too often.
easy_pool_alloc_block(p, size) ==
  LET id == Fresh(p.heap)
      passed == p.current .. Len(p.pages) - 1
      tired == {i \in passed : p.pages[i].failed > FailLimit}
      pages == [i \in DOMAIN p.pages |->
                  IF i \in passed THEN [p.pages[i] EXCEPT !.failed = @ + 1] ELSE p.pages[i]]
  IN [p EXCEPT !.heap = @ @@ (id :> PageSize),
               !.pages = Append(pages, Page(id, NextHead + size)),
               !.current = IF tired = {} THEN @ ELSE Max(tired) + 1]

easy_pool_alloc_large(p, size) ==
  LET id == Fresh(p.heap)
  IN [p EXCEPT !.heap = @ @@ (id :> size), !.large = <<id>> \o @]

\* blockOk and largeOk: realloc returns memory.  A call whose large block is
\* refused keeps the room for its list element.
easy_pool_alloc_ex(size, align, blockOk, largeOk) ==
  LET big == size > PoolMax
      need == IF big THEN LargeSize ELSE size
      at == Fitting(need, align)
      i == Min(at)
      region == IF at # {} THEN Region(pool.pages[i].id, Place(i, align), need, align)
                ELSE Region(Fresh(pool.heap), NextHead, need, align)
      p == IF at # {} THEN [pool EXCEPT !.pages[i].last = Place(i, align) + need]
           ELSE easy_pool_alloc_block(pool, need)
      large == Fresh(p.heap)
  IN /\ at = {} => blockOk /\ Fresh(pool.heap) <= MaxBlocks
     /\ IF big /\ largeOk
        THEN /\ large <= MaxBlocks
             /\ pool' = easy_pool_alloc_large(p, size)
             /\ Give({region, Region(large, 0, size, align)})
        ELSE pool' = p /\ Give({region})

easy_pool_clear(p) ==
  LET freed == ToSet(p.large) \cup {p.pages[i].id : i \in 2 .. Len(p.pages)}
  IN [p EXCEPT !.heap = Left(@, freed), !.pages = <<Page(1, HeadSize)>>, !.current = 1,
               !.large = <<>>]
ClearPool == pool' = easy_pool_clear(pool) /\ given' = {}

easy_pool_destroy ==
  /\ pool' = [easy_pool_clear(pool) EXCEPT !.heap = Left(@, {1}), !.alive = FALSE]
  /\ given' = {}

PoolNext ==
  /\ pool.alive
  /\ \/ \E size \in Sizes, align \in {1, Word}, blockOk, largeOk \in BOOLEAN :
          easy_pool_alloc_ex(size, align, blockOk, largeOk)
     \/ ClearPool \/ easy_pool_destroy

EasySpec == EasyInit /\ [][EasyNext]_easyVars
ArenaSpec == ArenaInit /\ [][ArenaNext]_arenaVars
PoolSpec == PoolInit /\ [][PoolNext]_poolVars

-----------------------------------------------------------------------------
(* Properties.                                                             *)

\* Regions that lie inside live blocks behind the blocks' heads, as aligned as
\* they were asked for, and apart from each other.
Sound(heap, Size(_), Base(_), Start(_)) ==
  /\ \A r \in given :
       /\ r.block \in DOMAIN heap /\ Start(r.block) <= r.from
       /\ r.from + r.size <= Size(r.block)
       /\ (Base(r.block) + r.from) % r.align = 0
  /\ \A r, q \in given : r # q /\ r.block = q.block =>
       r.from + r.size <= q.from \/ q.from + q.size <= r.from

\* What ArenaEasy hands out is sound, the current block is not used twice, and
\* MemoryUsage is the memory of all its blocks.
EasySound ==
  /\ Sound(easy.blocks, LAMBDA b : easy.blocks[b], LAMBDA b : 0, LAMBDA b : 0)
  /\ easy.block # 0 => easy.offset + easy.remaining = easy.blocks[easy.block]
  /\ easy.memory_usage = FoldLeft(LAMBDA n, s : n + s + Word, 0, easy.blocks)

\* What Arena hands out is sound for every address its blocks may have, and
\* what is counted as remaining is the end of the current block.
ArenaSound ==
  /\ Sound(arena.heap, LAMBDA b : arena.heap[b].size, LAMBDA b : arena.heap[b].base, LAMBDA b : 0)
  /\ arena.alive => arena.offset + arena.remaining = arena.heap[arena.block].size

\* Every block of Arena is in exactly one of its arrays: Reset keeps the first,
\* and nothing is left when it is destroyed.
ArenaOwnsBlocks ==
  /\ arena.alive => /\ DOMAIN arena.heap = ToSet(arena.first) \cup ToSet(arena.overflow)
                    /\ Len(arena.first) + Len(arena.overflow) = Cardinality(DOMAIN arena.heap)
  /\ ~arena.alive => DOMAIN arena.heap = {}

\* What easy_pool hands out is sound, apart from the elements of its own list
\* of large blocks too, and no block is left when it is destroyed.
PoolSound ==
  /\ Sound(pool.heap, LAMBDA b : pool.heap[b], LAMBDA b : 0,
           LAMBDA b : IF b = 1 THEN HeadSize
                      ELSE IF b \in ToSet(pool.large) THEN 0 ELSE NextHead)
  /\ IF pool.alive
     THEN DOMAIN pool.heap = ToSet(pool.large) \cup {pool.pages[i].id : i \in DOMAIN pool.pages}
     ELSE pool.heap = <<>>

=============================================================================
