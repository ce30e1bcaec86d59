--------------------------- MODULE StructureSuite ----------------------------
(***************************************************************************)
(* The structures of util that make nobody wait, model checked together:   *)
(* the lock-free queues and readers of LockFreeSuite, tables, trees,       *)
(* lists, small containers, event loop, timers and coroutines,             *)
(* process-wide registries, codings, files, buffers and strings.  They     *)
(* share nothing, so a behaviour picks one of them (focus) and only that   *)
(* one steps.  Of those that are added here, rep is the representation and *)
(* model what their client believes.                                       *)
(***************************************************************************)
EXTENDS LockFreeSuite, Sequences, TLC

CONSTANT Tombstones  \* whether a table with erased entries is cleared

VARIABLES rep, model

repVars == <<rep, model>>
vars == <<lockFreeVars, repVars>>

-----------------------------------------------------------------------------

\* Keys 1 and 2 start to probe at the same slot of a table of four.
Flat == INSTANCE Tables WITH
  Keys <- 1 .. 4, Values <- {1, 2}, Index <- <<1, 5, 2, 3>>, Width <- 4, Sizes <- {1, 2, 5},
  Wrap <- 64, TombstonesCleared <- Tombstones, Size <- 4, None <- 0,
  Locs <- <<<<0, 1>>, <<0, 2>>, <<1, 2>>, <<3, 0>>>>,
  H1 <- <<0, 0, 1, 1>>, H2 <- <<1, 2, 2, 0>>, Slots <- 2, PathLen <- 3
Table == INSTANCE Tables WITH
  Keys <- 1 .. 5, Values <- {1, 2}, Index <- <<1, 5, 2, 3, 1>>, Width <- 4, Sizes <- {1, 2, 5},
  Wrap <- 64, TombstonesCleared <- Tombstones, Size <- 4, None <- 0,
  Locs <- <<<<0, 1>>, <<0, 2>>, <<1, 2>>, <<3, 0>>, <<1, 3>>>>,
  H1 <- <<0, 0, 1, 1, 2>>, H2 <- <<1, 2, 2, 0, 0>>, Slots <- 2, PathLen <- 3

\* The radix tree has indexes on both sides of each change of height.
Skip == INSTANCE Trees WITH
  Max1 <- 3, MaxHeight <- 2, Shift <- 2, IntBits <- 6, Indexes <- {0, 3, 4, 7, 15, 16, 31}
Tree == INSTANCE Trees WITH
  Max1 <- 4, MaxHeight <- 2, Shift <- 2, IntBits <- 6, Indexes <- {0, 3, 4, 7, 15, 16, 31}

Box == INSTANCE Containers WITH
  MaxNode <- 3, N <- 2, MaxLen <- 4, Vals <- 1 .. 3, MaxSizet <- 99
React == INSTANCE Reactors WITH
  MaxFd <- 1, Second <- 2, MaxTime <- 3, MaxOps <- 3, Cap <- 2, MaxDepth <- 2, MaxThreads <- 3
Process == INSTANCE Runtime WITH
  Clients <- {"c1", "c2"}, MaxJobs <- 3, Full <- 1, Tids <- 1 .. 2, MaxObjects <- 4,
  Names <- {"a", "b", "c"}

\* Three bytes hold the longest varint; two are enough for the others.
Stream == INSTANCE Codings WITH
  ByteBits <- 3, Bytes32 <- 3, MaxItems <- 2, Interval <- 2, WordBits <- 4, MaxBits <- 6,
  Adders <- {"a", "b"}
Code == INSTANCE Codings WITH
  ByteBits <- 3, Bytes32 <- 2, MaxItems <- 3, Interval <- 2, WordBits <- 4, MaxBits <- 7,
  Adders <- {"a", "b"}

\* A mapped file that is longer than two mappings.
File == INSTANCE Files WITH
  MaxBytes <- 4, Tries <- 4, Page <- 2, MapSize <- 2, BufSize <- 2, RollNum <- 3, MaxSize <- 1,
  MaxLogs <- 8, Clients <- {"c1", "c2"}
Mapped == INSTANCE Files WITH
  MaxBytes <- 8, Tries <- 4, Page <- 2, MapSize <- 4, BufSize <- 2, RollNum <- 3, MaxSize <- 1,
  MaxLogs <- 8, Clients <- {"c1", "c2"}

\* A DataBuffer has room for values of every width.
Buffer == INSTANCE Buffers WITH
  MaxLen <- 6, MaxItems <- 3, Initial <- 4, MaxBuffer <- 8, Default <- 4, MinBlock <- 2,
  MaxBlock <- 4, MaxBlocks <- 4
DataBuffer == INSTANCE Buffers WITH
  MaxLen <- 14, MaxItems <- 3, Initial <- 4, MaxBuffer <- 8, Default <- 4, MinBlock <- 2,
  MaxBlock <- 4, MaxBlocks <- 4
Sds == INSTANCE Buffers WITH
  MaxLen <- 5, MaxItems <- 3, Initial <- 4, MaxBuffer <- 8, Default <- 4, MinBlock <- 2,
  MaxBlock <- 4, MaxBlocks <- 4

ASSUME StructureSuiteAssumption ==
  /\ Flat!TableAssumption /\ Table!TableAssumption /\ Skip!TreeAssumption /\ Tree!TreeAssumption
  /\ Box!ContainerAssumption /\ React!ReactorAssumption /\ Process!RuntimeAssumption
  /\ Stream!CodingAssumption /\ Code!CodingAssumption
  /\ File!FileAssumption /\ Mapped!FileAssumption
  /\ Buffer!BufferAssumption /\ DataBuffer!BufferAssumption /\ Sds!BufferAssumption

-----------------------------------------------------------------------------

Init ==
  /\ LockFreeInit
  /\ CASE focus = "flat" -> Flat!FlatInit
       [] focus = "limited" -> Table!LimitedInit
       [] focus = "cuckoo" -> Table!CacheInit
       [] focus = "path" -> Table!PathInit
       [] focus = "skip" -> Skip!SkipInit
       [] focus = "splay" -> Tree!SplayInit
       [] focus = "radix" -> Tree!RadixInit
       [] focus = "list" -> Box!ListInit
       [] focus = "hlist" -> Box!HListInit
       [] focus = "adlist" -> Box!AdlistInit
       [] focus = "indexed" -> Box!IndexedInit
       [] focus = "small" -> Box!SmallInit
       [] focus = "range" -> Box!RangeInit
       [] focus = "vector" -> Box!VectorInit
       [] focus = "hash" -> Box!HashInit
       [] focus = "heap" -> Box!HeapInit
       [] focus = "top" -> Box!TopInit
       [] focus = "lru" -> Box!LruInit
       [] focus = "mru" -> Box!LruInit
       [] focus = "easy" -> Box!EasyInit
       [] focus = "ae" -> React!AeInit
       [] focus = "sequence" -> React!SequenceInit
       [] focus = "coroutine" -> React!CoroutineInit
       [] focus = "local" -> Process!LocalInit
       [] focus = "exit" -> Process!ExitInit
       [] focus = "signal" -> Process!SignalInit
       [] focus = "registry" -> Process!RegistryInit
       [] focus = "scoped" -> Process!ScopedInit
       [] focus = "stream" -> Stream!StreamInit
       [] focus = "crc" -> Code!CrcInit
       [] focus = "block" -> Code!BlockInit
       [] focus = "digest" -> Code!DigestInit
       [] focus = "base64" -> Code!Base64Init
       [] focus = "bits" -> Code!BitsInit
       [] focus = "shared" -> Code!SharedInit
       [] focus = "transfer" -> File!TransferInit
       [] focus = "mapfile" -> Mapped!MappedInit
       [] focus = "plain" -> File!PlainInit
       [] focus = "input" -> File!InputInit
       [] focus = "safe" -> File!SafeInit
       [] focus = "roll" -> File!RollInit
       [] focus = "child" -> File!ChildInit
       [] focus = "socket" -> File!SocketInit
       [] focus = "breaker" -> File!BreakerInit
       [] focus = "fixed" -> Buffer!FixedInit
       [] focus = "data" -> DataBuffer!DataInit
       [] focus = "tc" -> Buffer!TCInit
       [] focus = "pool" -> Buffer!PoolInit
       [] focus = "sds" -> Sds!SdsInit
       [] focus = "split" -> Buffer!SplitInit
       [] focus = "args" -> Buffer!ArgsInit
       [] OTHER -> rep = <<>> /\ model = <<>>

Next ==
  /\ LockFreeNext
  /\ CASE focus = "flat" -> Flat!FlatNext
       [] focus = "limited" -> Table!LimitedNext
       [] focus = "cuckoo" -> Table!CacheNext
       [] focus = "path" -> Table!PathNext
       [] focus = "skip" -> Skip!SkipNext
       [] focus = "splay" -> Tree!SplayNext
       [] focus = "radix" -> Tree!RadixNext
       [] focus = "list" -> Box!ListNext
       [] focus = "hlist" -> Box!HListNext
       [] focus = "adlist" -> Box!AdlistNext1
       [] focus = "indexed" -> Box!IndexedNext
       [] focus = "small" -> Box!SmallNext
       [] focus = "range" -> Box!RangeNext
       [] focus = "vector" -> Box!VectorNext
       [] focus = "hash" -> Box!HashNext
       [] focus = "heap" -> Box!HeapNext
       [] focus = "top" -> Box!TopNext
       [] focus = "lru" -> Box!LruNext
       [] focus = "mru" -> Box!MruNext
       [] focus = "easy" -> Box!EasyNext
       [] focus = "ae" -> React!AeNext
       [] focus = "sequence" -> React!SequenceNext
       [] focus = "coroutine" -> React!CoroutineNext
       [] focus = "local" -> Process!LocalNext
       [] focus = "exit" -> Process!ExitNext
       [] focus = "signal" -> Process!SignalNext
       [] focus = "registry" -> Process!RegistryNext
       [] focus = "scoped" -> Process!ScopedNext
       [] focus = "stream" -> Stream!StreamNext
       [] focus = "crc" -> Code!CrcNext
       [] focus = "block" -> Code!BlockNext
       [] focus = "digest" -> Code!DigestNext
       [] focus = "base64" -> Code!Base64Next
       [] focus = "bits" -> Code!BitsNext
       [] focus = "shared" -> Code!SharedNext
       [] focus = "transfer" -> File!TransferNext
       [] focus = "mapfile" -> Mapped!MappedNext
       [] focus = "plain" -> File!PlainNext
       [] focus = "input" -> File!InputNext
       [] focus = "safe" -> File!SafeNext
       [] focus = "roll" -> File!RollNext
       [] focus = "child" -> File!ChildNext
       [] focus = "socket" -> File!SocketNext
       [] focus = "breaker" -> File!BreakerNext
       [] focus = "fixed" -> Buffer!FixedNext
       [] focus = "data" -> DataBuffer!DataNext
       [] focus = "tc" -> Buffer!TCNext
       [] focus = "pool" -> Buffer!PoolNext
       [] focus = "sds" -> Sds!SdsNext
       [] focus = "split" -> Buffer!SplitNext
       [] focus = "args" -> Buffer!ArgsNext
       [] OTHER -> UNCHANGED repVars

Spec == Init /\ [][Next]_vars

-----------------------------------------------------------------------------
(* The components' properties, in the instances above, gathered by the     *)
(* promise they make.  Their own modules say what each of them means.      *)

\* A lookup finds what was put in and not taken out, and nothing else, however
\* entries were erased, moved or evicted in between: a probe of FlatRep ends,
\* LimitedMap keeps the highest values (but for a new one that is lower than
\* all) in two orders that agree, CuckooCache and PresizedCuckooMap
\* move elements without losing or doubling them (CuckooCache evicts one per
\* insert at most, a discardable one if it can), the radix tree keeps its
\* entries while it grows and shrinks, the registries keep every name, thread
\* locals and owning pointers delete an object once and not while it is used.
LookupsExact ==
  /\ [](CASE focus = "flat" -> Flat!FlatExact
          [] focus = "limited" -> Table!LimitedExact
          [] focus = "cuckoo" -> Table!CacheExact
          [] focus = "path" -> Table!PathExact
          [] focus = "radix" -> Tree!RadixExact
          [] focus = "hash" -> Box!HashExact
          [] focus = "easy" -> Box!EasyExact
          [] focus = "local" -> Process!LocalsExact
          [] focus = "registry" -> Process!RegistryExact
          [] focus = "scoped" -> Process!OwnedOnce
          [] OTHER -> TRUE)
  /\ [][focus = "cuckoo" => Table!InsertEvictsOne]_vars

\* The links of a structure agree with each other and with the order of what
\* is in it: a reader that runs beside the writer of the skip list finds every
\* key that was there when it began and each level is a sublist of the one
\* below, the splay tree stays a search tree through every rotation, both
\* directions of the lists agree, queues, ranges, vectors, heaps and the best
\* N are in order, and the recency lists end with what was not used longest.
\* Without locks, a node of LockFreeList is listed once or held by one thread,
\* and the linked queues deliver in order and touch no node they have deleted.
OrderExact ==
  CASE focus = "free" -> LockFree!NodesOnce
    [] focus = "linked" -> LockFree!LinkedInOrder
    [] focus = "skip" -> Skip!SkipListsNested /\ Skip!ReadersExact
    [] focus = "splay" -> Tree!SplayCoherent
    [] focus = "list" -> Box!ListsLinked
    [] focus = "hlist" -> Box!HListsLinked
    [] focus = "adlist" -> Box!AdlistsLinked
    [] focus = "indexed" -> Box!IndexedExact
    [] focus = "small" -> Box!SmallQueueFifo
    [] focus = "range" -> Box!RangesExact
    [] focus = "vector" -> Box!VectorExact
    [] focus = "heap" -> Box!HeapOrdered
    [] focus = "top" -> Box!TopExact
    [] focus \in {"lru", "mru"} -> Box!RecencyExact
    [] OTHER -> TRUE

\* Callbacks may register, stop and delete each other, and still the event
\* loop polls exactly the descriptors that are registered and serves every
\* timer that is due, SequenceTimer loses no timer and visits what is due, a
\* coroutine resumes on the stack it yielded with, exit callbacks run once in
\* reverse order, and signal handlers are chained and put back.
CallbacksServed ==
  CASE focus = "ae" -> React!LoopExact /\ React!TimersServed
    [] focus = "sequence" -> React!SequenceExact
    [] focus = "coroutine" -> React!StacksRestored
    [] focus = "exit" -> Process!CallbacksLifo
    [] focus = "signal" -> Process!SignalsChained
    [] OTHER -> TRUE

\* Transfers that are interrupted, cut short or fail leave in the file what
\* they report: positioned and sequential reads and writes, mapped files of
\* several mappings, preallocated files, buffered input that seeks and skips;
\* and rolled files are the newest ones.  A SubProcess forgets only the child
\* that was waited for, and Communicate gets all that the child wrote;
\* a PinkCli moves whole messages, and a SocketBreaker wakes who polls it.
FilesExact ==
  CASE focus = "transfer" -> File!TransferExact
    [] focus = "mapfile" -> Mapped!MappedExact
    [] focus = "plain" -> File!PlainExact
    [] focus = "input" -> File!InputExact
    [] focus = "roll" -> File!RollKeepsNewest
    [] focus = "child" -> File!ChildExact
    [] focus = "socket" -> File!SocketExact
    [] focus = "breaker" -> File!BreakerExact
    [] OTHER -> TRUE

\* After a crash at any step of safe_write_file the file holds a whole value:
\* the one last acknowledged, or one written since, but for the success that
\* is returned early for content already in place.
CrashAtomic == focus = "safe" => File!CrashAtomic

\* What comes out is what went in.  Codes: whichever way the bytes are cut up
\* or shared, what is decoded is what was encoded, and what was damaged is
\* refused: varints and prefixed strings (but for a fixed length that is cut
\* off itself), checksums extended piece by piece,
\* blocks with shared prefixes and restart points under every Seek and Next,
\* digests of a message in pieces, base64; bits are found where they were set
\* (but for searches within a word and BitSet's reset, see BitsFound),
\* also by threads that set them together.  Buffers: the bytes come back in
\* order, within the memory of a buffer that grows, shrinks, wraps and changes
\* its header; the block pool counts what it holds; splitting at separators
\* and splitting arguments with quotes give back the pieces that were joined.
BytesExact ==
  CASE focus = "stream" -> Stream!StreamExact
    [] focus = "crc" -> Code!CrcExact
    [] focus = "block" -> Code!BlockExact
    [] focus = "digest" -> Code!DigestExact
    [] focus = "base64" -> Code!Base64Exact
    [] focus = "bits" -> Code!BitsFound
    [] focus = "shared" -> Code!SharedBitsKept
    [] focus = "fixed" -> Buffer!FixedExact
    [] focus = "data" -> DataBuffer!DataExact
    [] focus = "tc" -> Buffer!TCExact
    [] focus = "pool" -> Buffer!PoolExact
    [] focus = "sds" -> Sds!SdsExact
    [] focus = "split" -> Buffer!SplitExact
    [] focus = "args" -> Buffer!ArgsExact
    [] OTHER -> TRUE

\* The number from which a FlatRep decides that it must grow counts the slots
\* that are not kEmpty, those of erased entries included.
NotEmptyCounted == focus = "flat" => Flat!NotEmptyCounted

=============================================================================
