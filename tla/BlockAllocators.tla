--------------------------- MODULE BlockAllocators --------------------------
(***************************************************************************)
(* The allocators of util/memory_pool that divide one region of memory     *)
(* into blocks: BuddyPool, PageMemPool and TCMemMultiChunkAllocator with   *)
(* the TCMemChunk of each block size.  The last two keep all their state   *)
(* in shared memory that outlives the process, so a step that writes it    *)
(* may be the last one of a process: the next one finds what was written.  *)
(***************************************************************************)
EXTENDS Integers, FiniteSets, FiniteSetsExt, SequencesExt

CONSTANTS
  Level,                   \* level of the buddy tree: 2^Level units
  TotalPages, MetaPages,   \* of PageMemPool
  MinBlockSize, MaxBlockSize, FactorNum, FactorDen,  \* of the multi chunk allocator
  MultiHead, AllocHead, ChunkHead,                   \* sizes of its heads
  FirstSize, TotalSizes,   \* size it is created with, and sizes it may be appended to
  MaxDeaths                \* bound: processes that die in the middle of an operation

BlockAssumption ==
  /\ Level \in Nat /\ MetaPages \in 1 .. TotalPages - 1
  /\ MinBlockSize \in 2 .. MaxBlockSize /\ FactorNum >= FactorDen /\ FactorDen > 0
  /\ {MultiHead, AllocHead, ChunkHead, MaxDeaths} \subseteq Nat

VARIABLES
  tree, taken,                        \* the nodes' states; the blocks clients have
  bitmap, free_pages, current_page,   \* the pages in use; the counters of PageMemPool
  pageStep, pageDeaths,               \* what the process writes next; how many have died
  freedMeta,                          \* history: the pages of the meta data that were freed
  segs, used, chunkStep, chunkDeaths  \* the chained allocators, blocks in use, next write, deaths

buddyVars == <<tree, taken>>
pageVars == <<bitmap, free_pages, current_page, pageStep, pageDeaths, freedMeta>>
chunkVars == <<segs, used, chunkStep, chunkDeaths>>

-----------------------------------------------------------------------------
(* BuddyPool: a complete binary tree in an array.                          *)

Nodes == 0 .. 2 ^ (Level + 1) - 2
Depth == [i \in Nodes |-> CHOOSE d \in 0 .. Level : 2 ^ d <= i + 1 /\ i + 1 < 2 ^ (d + 1)]
Buddy(i) == i - 1 + (i % 2) * 2
NodeSize(i) == 2 ^ (Level - Depth[i])
index_offset(i) == (i + 1 - 2 ^ Depth[i]) * NodeSize(i)

\* The nodes from i up to the root, and those above i.
Path == [i \in Nodes |-> {((i + 1) \div 2 ^ k) - 1 : k \in 0 .. Depth[i]}]
Above == [i \in Nodes |-> Path[i] \ {i}]

next_pow_of_2(s) == Min({n \in {2 ^ k : k \in 0 .. Level + 1} : n >= s})

BuddyInit == tree = [i \in Nodes |-> "unused"] /\ taken = {}

\* The first node of the depth that the search from the root meets, left before
\* right; below an unused node all nodes are free, whatever they say.
Find(d) ==
  LET f[i \in Nodes] ==
        CASE Depth[i] = d -> IF tree[i] = "unused" THEN i ELSE -1
          [] tree[i] \in {"used", "full"} -> -1
          [] tree[i] = "unused" -> (i + 1) * 2 ^ (d - Depth[i]) - 1
          [] OTHER -> IF f[2 * i + 1] # -1 THEN f[2 * i + 1] ELSE f[2 * i + 2]
  IN f[0]

\* The unused node above the one that was found and those in between are split.
Split(i) ==
  LET splits == {a \in Above[i] : \E b \in Path[a] : tree[b] = "unused"}
  IN [j \in Nodes |-> IF j \in splits THEN "split"
                      ELSE IF (j + 1) \div 2 - 1 \in splits THEN "unused" ELSE tree[j]]

Occupied(t, i) == t[i] \in {"used", "full"}
\* The nodes that become full: those below have no unused half.
mark_parent(t, i) ==
  {a \in Above[i] : \A b \in Path[i] : a \in Above[b] => Occupied(t, Buddy(b))}

buddy_alloc(s) ==
  LET size == IF s = 0 THEN 1 ELSE next_pow_of_2(s)
      i == Find(Level - (CHOOSE k \in 0 .. Level : 2 ^ k = size))
      t == [Split(i) EXCEPT ![i] = "used"]
  IN /\ size <= 2 ^ Level /\ i # -1
     /\ tree' = [j \in Nodes |-> IF j \in mark_parent(t, i) THEN "full" ELSE t[j]]
     /\ taken' = taken \cup {<<index_offset(i), size>>}

\* The node to which an offset leads: the first that is not divided.
NodeAt(offset) ==
  LET at(d) == 2 ^ d - 1 + offset \div 2 ^ (Level - d)
  IN at(Min({d \in 0 .. Level : tree[at(d)] \in {"used", "unused"}}))
buddy_size(offset) == NodeSize(NodeAt(offset))

\* fault: freed halves are not joined
combine_none(i) == i
\* The node that becomes unused: above i as long as the other half is unused.
combine(i) ==
  CHOOSE j \in Path[i] :
    /\ \A b \in Path[i] : j \in Above[b] => tree[Buddy(b)] = "unused"
    /\ j = 0 \/ tree[Buddy(j)] # "unused"

buddy_free(block) ==
  LET j == combine(NodeAt(block[1]))
      opened == {a \in Above[j] : \A b \in Above[j] : a \in Path[b] => tree[b] = "full"}
  IN /\ block \in taken
     /\ tree' = [a \in Nodes |-> IF a = j THEN "unused" ELSE IF a \in opened THEN "split"
                                 ELSE tree[a]]
     /\ taken' = taken \ {block}

BuddyNext ==
  (\E s \in 0 .. 2 ^ Level : buddy_alloc(s)) \/ (\E block \in taken : buddy_free(block))

-----------------------------------------------------------------------------
(* PageMemPool: a bitmap with a cursor.                                    *)

Pages == 0 .. TotalPages - 1
Clear == Pages \ bitmap

\* The constructor on fresh memory; on memory that is initialised already it
\* changes no more than the address of the pool.
PageInit ==
  /\ bitmap = 0 .. MetaPages - 1 /\ free_pages = TotalPages - MetaPages
  /\ current_page = MetaPages /\ pageStep = <<"idle", 0>> /\ pageDeaths = 0 /\ freedMeta = {}

\* The loop from current_page on ends at a clear bit and at nothing else; then
\* the page is counted, and its bit is set.
alloc_page ==
  /\ pageStep[1] = "idle" /\ free_pages > 0 /\ pageStep' = <<"seek", 0>>
  /\ UNCHANGED <<bitmap, free_pages, current_page, pageDeaths, freedMeta>>
SeekPage ==
  LET p == IF current_page = TotalPages THEN 0 ELSE current_page
  IN /\ pageStep[1] = "seek" /\ current_page' = p + 1
     /\ pageStep' = IF p \in bitmap THEN pageStep ELSE <<"take", p>>
     /\ UNCHANGED <<bitmap, free_pages, pageDeaths, freedMeta>>
TakePage ==
  /\ pageStep[1] = "take" /\ free_pages' = free_pages - 1 /\ pageStep' = <<"set", pageStep[2]>>
  /\ UNCHANGED <<bitmap, current_page, pageDeaths, freedMeta>>
SetBit ==
  /\ pageStep[1] = "set"
  /\ bitmap' = bitmap \cup {pageStep[2]} /\ pageStep' = <<"idle", 0>>
  /\ UNCHANGED <<free_pages, current_page, pageDeaths, freedMeta>>

\* A page that has been freed already is left alone; the assertion keeps page 0
\* from being freed, and no other page of the meta data.
free_page(p) ==
  /\ pageStep[1] = "idle" /\ p > 0 /\ p \in bitmap
  /\ bitmap' = bitmap \ {p} /\ pageStep' = <<"count", 0>>
  /\ freedMeta' = freedMeta \cup ({p} \cap 0 .. MetaPages - 1)
  /\ UNCHANGED <<free_pages, current_page, pageDeaths>>
CountPage ==
  /\ pageStep[1] = "count"
  /\ free_pages' = free_pages + 1 /\ pageStep' = <<"idle", 0>>
  /\ UNCHANGED <<bitmap, current_page, pageDeaths, freedMeta>>

\* A process dies between two writes and another one attaches to the memory.
PageRestart ==
  /\ pageStep[1] # "idle" /\ pageDeaths < MaxDeaths
  /\ pageStep' = <<"idle", 0>> /\ pageDeaths' = pageDeaths + 1
  /\ UNCHANGED <<bitmap, free_pages, current_page, freedMeta>>

PageNext ==
  \/ alloc_page \/ SeekPage \/ TakePage \/ SetBit \/ CountPage \/ PageRestart
  \/ \E p \in Pages : free_page(p)

-----------------------------------------------------------------------------
(* TCMemMultiChunkAllocator: segments with one chunk for each block size;  *)
(* a free block holds the number of the next one.                          *)

\* calc: the block sizes.
BlockSizes ==
  LET sizes[n \in MinBlockSize .. MaxBlockSize] ==
        IF n = MaxBlockSize THEN <<n>>
        ELSE <<n>> \o sizes[Min({MaxBlockSize, Max({(n * FactorNum) \div FactorDen, n + 1})})]
  IN sizes[MinBlockSize]
Classes == 1 .. Len(BlockSizes)
Sum(seq) == FoldLeft(LAMBDA a, b : a + b, 0, seq)

\* calc: the number of blocks of each size.
BlockCount(size) ==
  (size - MultiHead - Len(BlockSizes) * (AllocHead + ChunkHead)) \div Sum(BlockSizes)

NewChunk(n) == [first |-> 0, avail |-> n, next |-> [b \in 0 .. n - 1 |-> b + 1]]
create(size) ==
  [size |-> size, chunk |-> [i \in Classes |-> NewChunk(BlockCount(size))]]

ChunkInit == segs = <<create(FirstSize)>> /\ used = {} /\ chunkStep = <<"idle">> /\ chunkDeaths = 0

Count(g) == BlockCount(segs[g].size)
Chunk(b) == segs[b[1]].chunk[b[2]]
MemSize(g, i) == AllocHead + ChunkHead + BlockSizes[i] * Count(g)
SegmentAt(g) == Sum([h \in 1 .. g - 1 |-> segs[h].size])
ChunkAt(g, i) == SegmentAt(g) + MultiHead + Sum([j \in 1 .. i - 1 |-> MemSize(g, j)])

Blocks == UNION {{<<g, i, b>> : i \in Classes, b \in 0 .. Count(g) - 1} : g \in DOMAIN segs}
Address(b) == ChunkAt(b[1], b[2]) + AllocHead + ChunkHead + b[3] * BlockSizes[b[2]]

\* getRelative, and the index that allocate2 returns.
AllIndex(g) == Sum([h \in 1 .. g - 1 |-> Len(BlockSizes) * Count(h)])
Relative(b) == AllIndex(b[1]) + (b[2] - 1) * Count(b[1]) + b[3] + 1

\* getAbsolute and deallocate2: the block with an index.
Absolute(index) ==
  LET g == Max({h \in DOMAIN segs : AllIndex(h) < index})
      n == index - AllIndex(g) - 1
  IN <<g, 1 + n \div Count(g), n % Count(g)>>

\* deallocate: the block at an address.
Located(address) ==
  LET g == Min({h \in DOMAIN segs : address < SegmentAt(h) + segs[h].size})
      i == Min({j \in Classes : address < ChunkAt(g, j) + MemSize(g, j)})
  IN <<g, i, (address - ChunkAt(g, i) - AllocHead - ChunkHead) \div BlockSizes[i]>>

\* The chunk a request is served from: in each segment the smallest sufficient
\* size, then the largest one that is not.
Available(g) == {i \in Classes : segs[g].chunk[i].avail > 0}
Chosen(need) ==
  LET g == Min({h \in DOMAIN segs : Available(h) # {}})
      enough == {i \in Available(g) : BlockSizes[i] >= need}
  IN <<g, IF enough # {} THEN Min(enough) ELSE Max(Available(g))>>

allocate(need) ==
  LET g == Chosen(need)[1]
      i == Chosen(need)[2]
  IN /\ chunkStep[1] = "idle" /\ \E h \in DOMAIN segs : Available(h) # {}
     /\ segs' = [segs EXCEPT ![g].chunk[i].avail = @ - 1]
     /\ chunkStep' = <<"unlink", <<g, i, segs[g].chunk[i].first>>>>
     /\ UNCHANGED <<used, chunkDeaths>>
Unlink ==
  /\ chunkStep[1] = "unlink"
  /\ LET b == chunkStep[2] IN
     /\ segs' = [segs EXCEPT ![b[1]].chunk[b[2]].first = Chunk(b).next[b[3]],
                             ![b[1]].chunk[b[2]].next[b[3]] = 0]
     /\ used' = used \cup {b}
  /\ chunkStep' = <<"idle">> /\ UNCHANGED chunkDeaths

\* deallocate(Address(b)) and deallocate2(Relative(b)): the block leads to the
\* first one, it becomes the first one, it is counted.
\* fault: it is counted before it is on the list
CountEarly(b) ==
  segs' = [segs EXCEPT ![b[1]].chunk[b[2]].next[b[3]] = Chunk(b).first,
                       ![b[1]].chunk[b[2]].avail = @ + 1]
LeadOn(b) == segs' = [segs EXCEPT ![b[1]].chunk[b[2]].next[b[3]] = Chunk(b).first]
deallocate(b) ==
  /\ chunkStep[1] = "idle" /\ b \in used
  /\ LeadOn(b)
  /\ used' = used \ {b} /\ chunkStep' = <<"link", b>> /\ UNCHANGED chunkDeaths
LinkBlock ==
  /\ chunkStep[1] = "link"
  /\ LET b == chunkStep[2] IN segs' = [segs EXCEPT ![b[1]].chunk[b[2]].first = b[3]]
  /\ chunkStep' = <<"count", chunkStep[2]>> /\ UNCHANGED <<used, chunkDeaths>>
CountBlock ==
  /\ chunkStep[1] = "count"
  /\ LET b == chunkStep[2] IN segs' = [segs EXCEPT ![b[1]].chunk[b[2]].avail = @ + 1]
  /\ chunkStep' = <<"idle">> /\ UNCHANGED <<used, chunkDeaths>>

\* append and rebuild are one step each: they do not survive the death of their
\* process half-way, and nothing is claimed about it.
append(total) ==
  /\ chunkStep[1] = "idle" /\ total > SegmentAt(Len(segs) + 1)
  /\ BlockCount(total - SegmentAt(Len(segs) + 1)) > 0
  /\ segs' = Append(segs, create(total - SegmentAt(Len(segs) + 1)))
  /\ UNCHANGED <<used, chunkStep, chunkDeaths>>

rebuild ==
  /\ chunkStep[1] = "idle"
  /\ segs' = [g \in DOMAIN segs |-> create(segs[g].size)]
  /\ used' = {} /\ chunkDeaths' = 0 /\ UNCHANGED chunkStep

\* A process dies between two writes and another one connects.
ChunkRestart ==
  /\ chunkStep[1] # "idle" /\ chunkDeaths < MaxDeaths
  /\ chunkStep' = <<"idle">> /\ chunkDeaths' = chunkDeaths + 1
  /\ UNCHANGED <<segs, used>>

ChunkNext ==
  \/ \E need \in MinBlockSize .. MaxBlockSize : allocate(need)
  \/ Unlink \/ LinkBlock \/ CountBlock \/ rebuild \/ ChunkRestart
  \/ \E b \in used : deallocate(b)
  \/ \E total \in TotalSizes : append(total)

BuddySpec == BuddyInit /\ [][BuddyNext]_buddyVars
PageSpec == PageInit /\ [][PageNext]_pageVars
ChunkSpec == ChunkInit /\ [][ChunkNext]_chunkVars

-----------------------------------------------------------------------------
(* Properties.                                                             *)

Units(block) == block[1] .. block[1] + block[2] - 1

\* The nodes the walks of alloc and free can reach.
Reachable == {i \in Nodes : \A a \in Above[i] : tree[a] \in {"split", "full"}}

\* The blocks that BuddyPool has handed out are disjoint, and they are exactly
\* its used nodes: buddy_free and buddy_size find the node of each.
BuddyExclusive ==
  /\ \A a, b \in taken : a # b => Units(a) \cap Units(b) = {}
  /\ taken = {<<index_offset(i), NodeSize(i)>> : i \in {j \in Reachable : tree[j] = "used"}}
  /\ \A a \in taken : buddy_size(a[1]) = a[2]

\* buddy_alloc refuses a size only when no aligned block of that size is free:
\* full is where both halves are, and two unused halves are always joined.
BuddyComplete ==
  /\ \A i \in Reachable : tree[i] \in {"split", "full"} =>
       /\ (tree[i] = "full") <=> Occupied(tree, 2 * i + 1) /\ Occupied(tree, 2 * i + 2)
       /\ ~(tree[2 * i + 1] = "unused" /\ tree[2 * i + 2] = "unused")
  /\ \A d \in 0 .. Level :
       (Find(d) = -1) <=> \A i \in Nodes : Depth[i] = d =>
         \E b \in taken : Units(b) \cap Units(<<index_offset(i), NodeSize(i)>>) # {}

\* Whenever a process dies, PageMemPool never counts more free pages than there
\* are clear bits: the loop of alloc_page, which has no other end, finds one.
\* It counts fewer by no more than one page for each process that died.  No
\* page of the meta data is handed out unless a client has freed it.
PagesSafe ==
  LET counted == free_pages + (IF pageStep[1] \in {"set", "count"} THEN 1 ELSE 0)
      uncounted == Cardinality(Clear) - counted
  IN /\ uncounted \in 0 .. pageDeaths
     /\ pageStep[1] \in {"take", "set"} => pageStep[2] \in Clear \ ((0 .. MetaPages - 1) \ freedMeta)
     /\ pageStep[1] = "seek" => Clear # {}

\* The first n blocks of a chunk's list.
Listed(c, n) ==
  LET at[k \in 1 .. n] == IF k = 1 THEN c.first ELSE c.next[at[k - 1]]
  IN {at[k] : k \in 1 .. n}

\* Whenever a process dies, the list of each chunk has at least as many blocks
\* as the chunk counts as available, all of them distinct and none in use; and
\* all blocks but one for each process that died are in use or available.
ChunksSafe ==
  LET all == {<<g, i>> : g \in DOMAIN segs, i \in Classes}
      Pending(c, steps) == IF chunkStep[1] \in steps /\ SubSeq(chunkStep[2], 1, 2) = c THEN 1 ELSE 0
      Lost(c) == Count(c[1]) - Cardinality({b \in used : SubSeq(b, 1, 2) = c}) - Chunk(c).avail
                   - Pending(c, {"unlink", "link", "count"})
  IN /\ \A c \in all :
          LET n == Chunk(c).avail + Pending(c, {"unlink"})
              listed == Listed(Chunk(c), n)
          IN /\ Cardinality(listed) = n /\ listed \subseteq 0 .. Count(c[1]) - 1
             /\ \A b \in listed : Append(c, b) \notin used
     /\ MapThenSumSet(Lost, all) \in 0 .. chunkDeaths /\ \A c \in all : Lost(c) >= 0

\* The blocks lie in their segments, apart from each other and from the heads,
\* and address, index and block determine each other in all segments.
LayoutSound ==
  /\ \A a \in Blocks :
       /\ Located(Address(a)) = a /\ Absolute(Relative(a)) = a
       /\ Address(a) + BlockSizes[a[2]] <= SegmentAt(a[1]) + segs[a[1]].size
  /\ \A a, b \in Blocks : a # b =>
       \/ Address(a) + BlockSizes[a[2]] <= Address(b)
       \/ Address(b) + BlockSizes[b[2]] <= Address(a)

=============================================================================
