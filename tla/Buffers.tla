------------------------------- MODULE Buffers -------------------------------
(***************************************************************************)
(* Growing buffers and strings: FixedBuffer, DataBuffer, TCBuffer and      *)
(* TCBufferPool of util/buffer, and the dynamic strings of util/sds with   *)
(* their headers.  rep is what the code keeps, model what its callers put  *)
(* in, took out and were given.                                            *)
(***************************************************************************)
EXTENDS Integers, Sequences, FiniteSets, SequencesExt, FiniteSetsExt

CONSTANTS
  MaxLen,     \* bound on the bytes of a buffer or a string
  MaxItems,   \* bound on the values in a DataBuffer
  Initial,    \* the first size of a DataBuffer
  MaxBuffer,  \* MAX_BUFFER_SIZE
  Default,    \* kDefaultSize, SDS_MAX_PREALLOC
  MinBlock,   \* _minBlock of the pool
  MaxBlock,   \* _maxBlock of the pool
  MaxBlocks   \* bound on the blocks of the pool

BufferAssumption ==
  {MaxLen, MaxItems, Initial, MaxBuffer, Default, MinBlock, MaxBlock, MaxBlocks} \subseteq Nat \ {0} /\ MinBlock <= MaxBlock

VARIABLES rep, model

vars == <<rep, model>>

Bytes(n) == [i \in 1..n |-> i]
RoundupPower2(n) == IF n = 0 THEN 0 ELSE Min({p \in {2^k : k \in 0..8} : p >= n})
Zeros(n) == [i \in 1..n |-> 0]
Sum_(s) == FoldLeft(LAMBDA a, b : a + b, 0, s)

-----------------------------------------------------------------------------
(* FixedBuffer<MaxLen>.                                                    *)

FixedInit == rep = [cur |-> 0, data |-> <<>>] /\ model = [kept |-> <<>>]

avail == MaxLen - rep.cur
\* fault: a text that fills the buffer is taken
FitsFull(len) == avail >= len
Fits(len) == avail > len
append(len) ==
  /\ rep' = IF Fits(len) THEN [cur |-> rep.cur + len, data |-> rep.data \o Bytes(len)] ELSE rep
  /\ model' = IF len < MaxLen - Len(model.kept) THEN [kept |-> model.kept \o Bytes(len)] ELSE model
add(len) ==                                              \* after a write to current()
  /\ len < avail
  /\ rep' = [cur |-> rep.cur + len, data |-> rep.data \o Zeros(len)]
  /\ model' = [kept |-> model.kept \o Zeros(len)]
resetFixed == rep' = [cur |-> 0, data |-> <<>>] /\ model' = [kept |-> <<>>]
FixedNext == (\E len \in 0..(MaxLen + 1) : append(len) \/ add(len)) \/ resetFixed

\* A text is appended as a whole or not at all, and there is always a byte
\* left for the terminator debugString writes at cur_ (FixedBuffer).
FixedExact == rep.data = model.kept /\ rep.cur = Len(rep.data) /\ rep.cur < MaxLen

-----------------------------------------------------------------------------
(* DataBuffer: data are the bytes from _pdata to _pfree, head is           *)
(* _pdata - _pstart, cap is _pend - _pstart, 0 before the first malloc.    *)
(* model.items are the values written and not yet read.                    *)

Base == 3                                                \* values of a byte
Widths == {1, 2, 4, 8}                                   \* of the integers
IntBytes(n, w) == [i \in 1..w |-> (n \div Base^(w - i)) % Base]
BytesInt(b) == FoldLeft(LAMBDA n, x : n * Base + x, 0, b)
Freed == [cap |-> 0, head |-> 0, data |-> <<>>]
DataInit == rep = Freed /\ model = [items |-> <<>>, got |-> <<>>, expect |-> <<>>]

Doubled(n, least) == Min({d \in {n * 2^k : k \in 0..6} : d >= least})
\* fault: the bytes already there are not counted
GrownShort(r, need) == Doubled(2 * r.cap, need)
Grown(r, need) == Doubled(2 * r.cap, Len(r.data) + need)
expand(r, need) ==
  LET flen == r.cap - Len(r.data)
  IN IF r.cap = 0 THEN [r EXCEPT !.cap = Doubled(Initial, need)]
     ELSE IF r.cap - r.head - Len(r.data) >= need THEN r
     ELSE IF flen < need \/ flen * 4 < Len(r.data) THEN [r EXCEPT !.cap = Grown(r, need), !.head = 0]
     ELSE [r EXCEPT !.head = 0]
clearData(r) == [r EXCEPT !.head = 0, !.data = <<>>]
writeBytes(r, bytes) == LET e == expand(r, Len(bytes)) IN [e EXCEPT !.data = @ \o bytes]
writeInt(r, n, w) == writeBytes(r, IntBytes(n, w))
LengthWidth == 4
writeString(r, str) ==
  LET text == IF str = <<>> THEN <<>> ELSE Append(str, 0)
  IN writeBytes(writeInt(expand(r, Len(text) + LengthWidth), Len(text), LengthWidth), text)
writeVector(r, v) == writeInt(writeInt(r, Len(v), LengthWidth), v[1], LengthWidth)

Width(item) ==
  CASE item.kind = "int" -> item.w
    [] item.kind = "bytes" -> Len(item.val)
    [] item.kind = "string" -> LengthWidth + (IF item.val = <<>> THEN 0 ELSE Len(item.val) + 1)
    [] item.kind = "vector" -> 2 * LengthWidth
Items ==
  [kind : {"int"}, w : Widths, val : {<<5>>}] \cup [kind : {"bytes", "string"}, w : {0}, val : {<<>>, <<1>>, <<1, 2>>}]
    \cup [kind : {"vector"}, w : {0}, val : {<<7>>}]
Widest == Sum_([i \in DOMAIN model.items |-> Width(model.items[i])])

Value(item) == IF item.kind = "int" THEN <<item.val[1] % Base^item.w>> ELSE item.val
\* what the client knows while it is not reading
Holds(items) == [items |-> items, got |-> <<>>, expect |-> <<>>]
Write(item) ==
  /\ Len(model.items) < MaxItems /\ Widest + Width(item) <= MaxLen
  /\ rep' = CASE item.kind = "int" -> writeInt(rep, item.val[1], item.w)
              [] item.kind = "bytes" -> writeBytes(rep, item.val)
              [] item.kind = "string" -> writeString(rep, item.val)
              [] item.kind = "vector" -> writeVector(rep, item.val)
  /\ model' = Holds(Append(model.items, item))
ensureFree(len) == rep.cap < 4 * MaxBuffer /\ rep' = expand(rep, len) /\ UNCHANGED model

Ahead(n) == SubSeq(rep.data, 1, n)
Skip(r, n) == [r EXCEPT !.head = @ + n, !.data = SubSeq(@, n + 1, Len(@))]
readString == LET slen == BytesInt(Ahead(LengthWidth))
              IN [text |-> SubSeq(rep.data, LengthWidth + 1, LengthWidth + slen), skip |-> LengthWidth + slen]
Got(item) ==
  CASE item.kind = "int" -> <<BytesInt(Ahead(item.w))>>
    [] item.kind = "bytes" -> Ahead(Len(item.val))
    [] item.kind = "string" -> IF readString.text = <<>> THEN <<>> ELSE Front(readString.text)
    [] item.kind = "vector" -> <<BytesInt(SubSeq(rep.data, LengthWidth + 1, 2 * LengthWidth))>>
Taken(item) == IF item.kind = "string" THEN readString.skip ELSE Width(item)
ReadData ==
  /\ model.items # <<>>
  /\ LET item == Head(model.items) IN
     /\ rep' = Skip(rep, Taken(item))
     /\ model' = [items |-> Tail(model.items), got |-> Got(item), expect |-> Value(item)]
drainData ==
  /\ model.items # <<>>
  /\ LET skipped == Skip(rep, Width(Head(model.items)))
     IN rep' = IF skipped.data = <<>> THEN clearData(skipped) ELSE skipped
  /\ model' = Holds(Tail(model.items))
stripData ==
  /\ model.items # <<>>
  /\ rep' = [rep EXCEPT !.data = SubSeq(@, 1, Len(@) - Width(Last(model.items)))]
  /\ model' = Holds(Front(model.items))
shrinkData ==
  /\ rep' = IF rep.cap <= MaxBuffer \/ Len(rep.data) > MaxBuffer THEN rep ELSE [rep EXCEPT !.cap = MaxBuffer, !.head = 0]
  /\ UNCHANGED model
clear == rep' = clearData(rep) /\ model' = Holds(<<>>)
destroy == rep' = Freed /\ model' = Holds(<<>>)
\* findBytes of the last value written, from the first byte on
findBytes(bytes) ==
  LET at == {i \in 0..(Len(rep.data) - Len(bytes)) : SubSeq(rep.data, i + 1, i + Len(bytes)) = bytes}
  IN IF at = {} THEN -1 ELSE Min(at)

DataNext ==
  \/ \E item \in Items : Write(item)
  \/ \E len \in {1, Initial, MaxBuffer} : ensureFree(len)
  \/ ReadData \/ drainData \/ stripData \/ shrinkData \/ clear \/ destroy

\* Values of every kind are read back as they were written, in order,
\* through growing, moving to the front, shrinking, draining and stripping;
\* the data never leave the block, and a value looked for is found no later
\* than where it lies (DataBuffer).
DataExact ==
  /\ model.got = model.expect /\ Len(rep.data) = Widest
  /\ rep.head >= 0 /\ rep.head + Len(rep.data) <= rep.cap
  /\ \A i \in DOMAIN model.items :
       LET item == model.items[i] IN
       item.kind = "bytes" /\ item.val # <<>> =>
         findBytes(item.val) \in 0..Sum_([j \in 1..(i - 1) |-> Width(model.items[j])])

-----------------------------------------------------------------------------
(* TCBuffer: two of them, for Swap.  model.held are the bytes pushed and   *)
(* not yet taken out of each, numbered in the order they were pushed.      *)

Buffers == {"a", "b"}
MaxCapacity == MaxLen + 1                                \* kMaxBufferSize
MaxPushed == MaxLen + 2                                  \* bound on the bytes pushed in a behaviour
EmptyBuffer == [read |-> 0, cap |-> 0, data |-> <<>>, percent |-> 50]
TCInit ==
  /\ rep = [b \in Buffers |-> EmptyBuffer]
  /\ model = [held |-> [b \in Buffers |-> <<>>], pushed |-> 0]

ReadableSize(r) == Len(r.data)
WritableSize(r) == r.cap - r.read - Len(r.data)
NextCapacity(cap) ==
  IF cap < Default THEN Default ELSE IF cap < RoundupPower2(cap) THEN RoundupPower2(cap) ELSE 2 * cap
\* fault: the space before the data counts where it is not used
EnoughAnywhere(r, needsize) == r.cap - Len(r.data) >= needsize
Enough(r, needsize) == WritableSize(r) >= needsize
AssureSpace(r, needsize) ==
  LET Grow(cap, i) == IF cap - Len(r.data) < needsize THEN NextCapacity(cap) ELSE cap
  IN IF Enough(r, needsize) THEN r
     ELSE [r EXCEPT !.cap = FoldLeft(Grow, r.cap, [i \in 1..6 |-> i]), !.read = 0]
ClearBuffer(r) == [r EXCEPT !.read = 0, !.data = <<>>]
Consume(r, n) ==
  LET rest == [r EXCEPT !.read = @ + n, !.data = SubSeq(@, n + 1, Len(@))]
  IN IF rest.data = <<>> THEN ClearBuffer(rest) ELSE rest

PushData(b, size) ==
  LET bytes == [i \in 1..size |-> model.pushed + i]
      fits == size > 0 /\ ReadableSize(rep[b]) + size < MaxCapacity
  IN /\ model.pushed + size <= MaxPushed
     /\ rep' = IF fits THEN [rep EXCEPT ![b] = [AssureSpace(@, size) EXCEPT !.data = @ \o bytes]] ELSE rep
     /\ model' = IF fits THEN [model EXCEPT !.held[b] = @ \o bytes, !.pushed = @ + size] ELSE model
\* PopData and PeekData with Consume: the caller copies the first bytes.
PopData(b, size) ==
  LET n == Min({size, ReadableSize(rep[b])})
  IN /\ rep' = IF n = 0 THEN rep ELSE [rep EXCEPT ![b] = Consume(@, n)]
     /\ model' = [model EXCEPT !.held[b] = SubSeq(@, n + 1, Len(@))]
Shrink(b) ==
  LET r == rep[b]
      size == ReadableSize(r)
  IN /\ UNCHANGED model
     /\ rep' = IF size = 0 THEN [rep EXCEPT ![b] = [ClearBuffer(r) EXCEPT !.cap = 0]]
               ELSE IF r.cap <= Default \/ size * 100 > r.cap * r.percent THEN rep
               ELSE [rep EXCEPT ![b].cap = RoundupPower2(size), ![b].read = 0]
Clear(b) == rep' = [rep EXCEPT ![b] = ClearBuffer(@)] /\ model' = [model EXCEPT !.held[b] = <<>>]
Swap ==
  /\ rep' = [rep EXCEPT !["a"] = [rep["b"] EXCEPT !.percent = rep["a"].percent],
                        !["b"] = [rep["a"] EXCEPT !.percent = rep["b"].percent]]
  /\ model' = [model EXCEPT !.held = [a |-> model.held["b"], b |-> model.held["a"]]]
SetHighWaterPercent(b, percents) ==
  /\ rep' = IF percents < 10 \/ percents >= 100 THEN rep ELSE [rep EXCEPT ![b].percent = percents]
  /\ UNCHANGED model

TCNext ==
  \/ \E b \in Buffers :
       \/ \E size \in 0..MaxLen : PushData(b, size) \/ PopData(b, size)
       \/ Shrink(b) \/ Clear(b)
  \/ SetHighWaterPercent("a", 9) \/ SetHighWaterPercent("a", 75) \/ Swap

\* Each buffer holds the bytes pushed to it and not yet taken, first in,
\* first out, through growing, moving, shrinking and swapping, and inside
\* its block (TCBuffer).
TCExact ==
  \A b \in Buffers : rep[b].data = model.held[b] /\ rep[b].read + Len(rep[b].data) <= rep[b].cap

-----------------------------------------------------------------------------
(* TCBufferPool: lists[i] holds the free blocks of MinBlock * 2^(i - 1)    *)
(* bytes.  model.size is the size a block was created with.                *)

ListCount == Cardinality({k \in 0..8 : MinBlock * 2^k <= MaxBlock})
PoolInit ==
  /\ rep = [lists |-> [i \in 1..ListCount |-> <<>>], total |-> 0, max |-> 2 * MinBlock]
  /\ model = [size |-> <<>>, held |-> {}, freed |-> {}]

Managed(len) == len >= MinBlock /\ len <= MaxBlock
\* fault: the list after the right one
LaterList(len) == Min({ListCount, 2 + Cardinality({k \in 0..8 : MinBlock * 2^k < len})})
_GetBufferList(len) == ListCount + 1 - Cardinality({k \in 0..8 : len * 2^k <= MaxBlock})
NewBlock(len) ==
  /\ Len(model.size) < MaxBlocks /\ rep' = rep
  /\ model' = [model EXCEPT !.size = Append(@, len), !.held = @ \cup {[block |-> Len(model.size) + 1, len |-> len]}]
Allocate(size) ==
  LET len == RoundupPower2(size)
      i == _GetBufferList(len)
  IN /\ len > 0
     /\ \/ (Managed(len) => rep.lists[i] = <<>>) /\ NewBlock(len)
        \/ /\ Managed(len) /\ rep.lists[i] # <<>>
           /\ rep' = [rep EXCEPT !.lists[i] = Tail(@), !.total = @ - len]
           /\ model' = [model EXCEPT !.held = @ \cup {[block |-> Head(rep.lists[i]), len |-> len]}]
Deallocate(s) ==
  LET kept == Managed(s.len) /\ rep.total < rep.max
  IN /\ rep' = IF kept THEN [rep EXCEPT !.lists[_GetBufferList(s.len)] = Append(@, s.block), !.total = @ + s.len] ELSE rep
     /\ model' = [model EXCEPT !.held = @ \ {s}, !.freed = IF kept THEN @ ELSE @ \cup {s.block}]
SetMaxBytes(bytes) == rep' = [rep EXCEPT !.max = bytes] /\ UNCHANGED model

PoolNext ==
  \/ \E size \in 0..(MaxBlock + 1) : Allocate(size)
  \/ \E s \in model.held : Deallocate(s)
  \/ \E bytes \in {0, 2 * MinBlock, 2 * MaxBlock} : SetMaxBytes(bytes)

\* Every block is with one caller, in one list once, or freed; it has the
\* size its caller was told; and _totalBytes is what the lists hold, which
\* passes the largest limit ever set by less than one block
\* (TCBufferPool).
PoolExact ==
  LET listed == FlattenSeq(rep.lists)
      held == {s.block : s \in model.held}
  IN /\ Cardinality(ToSet(listed)) = Len(listed) /\ Cardinality(held) = Cardinality(model.held)
     /\ ToSet(listed) \cap (held \cup model.freed) = {} /\ held \cap model.freed = {}
     /\ ToSet(listed) \cup held \cup model.freed = DOMAIN model.size
     /\ \A s \in model.held : model.size[s.block] = s.len
     /\ rep.total = Sum_([i \in DOMAIN listed |-> model.size[listed[i]]])
     /\ rep.total < 2 * MaxBlock + MaxBlock

-----------------------------------------------------------------------------
(* One sds string: type, len and alloc are its header, room what was       *)
(* allocated for the text without the terminator, buf the text and the     *)
(* byte after it.  model.str is the string its user has in mind.           *)

TypeBits == <<1, 2, 4, 6>>                               \* the width of a length in headers 5, 8, 16 and 32
Letters == 0..2                                          \* 0 is NUL
Texts(n) == UNION {[1..k -> Letters] : k \in 0..n}
Wrap(n, type) == n % 2^TypeBits[type]
sdsReqType(n) == Min({type \in DOMAIN TypeBits : n < 2^TypeBits[type]})
sdssetlen(r, n) == [r EXCEPT !.len = Wrap(n, r.type)]
sdssetalloc(r, n) == IF r.type = 1 THEN r ELSE [r EXCEPT !.alloc = Wrap(n, r.type)]
sdsalloc(r) == IF r.type = 1 THEN r.len ELSE r.alloc
sdsavail(r) == IF r.type = 1 THEN 0 ELSE r.alloc - r.len
Text(r) == SubSeq(r.buf, 1, r.len)
Holding(r, text) == sdssetlen([r EXCEPT !.buf = Append(text, 0)], Len(text))

sdsnewlen(init) ==
  LET n == Len(init)
      type == IF n = 0 THEN 2 ELSE sdsReqType(n)
  IN [type |-> type, len |-> Wrap(n, type), alloc |-> IF type = 1 THEN 0 ELSE Wrap(n, type), room |-> n, buf |-> Append(init, 0)]
\* fault: the header is chosen for the text without the room beside it
TextType(len, newlen) == Max({2, sdsReqType(len)})
RoomType(len, newlen) == Max({2, sdsReqType(newlen)})
sdsMakeRoomFor(r, addlen) ==
  LET len == r.len + addlen
      newlen == IF len < Default THEN 2 * len ELSE len + Default
      moved == [r EXCEPT !.type = RoomType(len, newlen), !.room = newlen]
  IN IF sdsavail(r) >= addlen THEN r ELSE sdssetalloc(sdssetlen(moved, r.len), newlen)
sdsRemoveFreeSpace(r) ==
  LET type == sdsReqType(r.len)
      kept == r.type = type \/ type > 2
  IN sdssetalloc(sdssetlen([r EXCEPT !.room = r.len, !.type = IF kept THEN @ ELSE type], r.len), r.len)
sdscatlen(r, t) == Holding(sdsMakeRoomFor(r, Len(t)), Text(r) \o t)
sdscpylen(r, t) == Holding(IF sdsalloc(r) < Len(t) THEN sdsMakeRoomFor(r, Len(t) - r.len) ELSE r, t)
sdsgrowzero(r, n) == IF n <= r.len THEN r ELSE Holding(sdsMakeRoomFor(r, n - r.len), Text(r) \o Zeros(n - r.len))
sdsIncrLen(r, t) == Holding(r, Text(r) \o t)             \* t: what the caller wrote behind the text
sdstrim(r, cset) ==
  LET left == {i \in 1..r.len : r.buf[i] \notin cset}    \* where the first loop may stop
      sp == IF left = {} THEN r.len + 1 ELSE Min(left)
      ep == IF left = {} THEN r.len ELSE Max(left)
  IN Holding(r, IF sp > ep THEN <<>> ELSE SubSeq(r.buf, sp, ep))
FromEnd(len, i) == IF i < 0 THEN Max({0, len + i}) ELSE i
sdsrange(r, first, last) ==
  LET start == FromEnd(r.len, first)
      end == FromEnd(r.len, last)
      newlen == IF start > end \/ start >= r.len THEN 0 ELSE Min({end, r.len - 1}) - start + 1
  IN IF r.len = 0 THEN r ELSE Holding(r, SubSeq(r.buf, start + 1, start + newlen))
strlen(r) == Min({i \in DOMAIN r.buf : r.buf[i] = 0}) - 1
sdsmapchars(r) == [r EXCEPT !.buf = [i \in DOMAIN @ |-> IF i <= r.len /\ @[i] = 1 THEN 2 ELSE @[i]]]

SdsInit == \E s \in Texts(2) : rep = sdsnewlen(s) /\ model = [str |-> s]
Become(r, s) == Len(s) <= MaxLen /\ rep' = r /\ model' = [str |-> s]
Kept(s, P) == [k \in 1..Cardinality(P) |-> s[CHOOSE i \in P : Cardinality({j \in P : j < i}) = k - 1]]
Among(s, lo, hi) == Kept(s, {i \in DOMAIN s : lo < i /\ i <= hi})
Solid(s, cset) == {i \in DOMAIN s : \E j, k \in DOMAIN s : j <= i /\ i <= k /\ s[j] \notin cset /\ s[k] \notin cset}
SdsNext ==
  \/ \E t \in Texts(2) : \/ Become(sdscatlen(rep, t), model.str \o t)
                         \/ Become(sdscpylen(rep, t), t)
                         \/ Become(sdsIncrLen(sdsMakeRoomFor(rep, 2), t), model.str \o t)
  \/ \E n \in 0..MaxLen : \/ Become(sdsgrowzero(rep, n), model.str \o Zeros(Max({n - Len(model.str), 0})))
                          \/ Become(sdsMakeRoomFor(rep, n), model.str)
                          \/ /\ n <= rep.len             \* sdsIncrLen by a negative number
                             /\ Become(Holding(rep, SubSeq(rep.buf, 1, rep.len - n)), Among(model.str, 0, Len(model.str) - n))
  \/ \E cset \in SUBSET Letters : 0 \in cset /\ Become(sdstrim(rep, cset), Kept(model.str, Solid(model.str, cset)))
  \/ \E first, last \in (-MaxLen - 1)..MaxLen :
       Become(sdsrange(rep, first, last),
              Among(model.str, FromEnd(Len(model.str), first), FromEnd(Len(model.str), last) + 1))
  \/ Become(sdsRemoveFreeSpace(rep), model.str)
  \/ Become(sdssetlen([rep EXCEPT !.buf = SubSeq(@, 1, strlen(rep) + 1)], strlen(rep)),                    \* sdsupdatelen
            SubSeq(model.str, 1, SelectInSeq(Append(model.str, 0), LAMBDA c : c = 0) - 1))
  \/ Become(Holding(rep, <<>>), <<>>)                                                                  \* sdsclear
  \/ Become(sdsmapchars(rep), [i \in DOMAIN model.str |-> IF model.str[i] = 1 THEN 2 ELSE model.str[i]])
  \/ Become(sdsnewlen(Text(rep)), model.str)                                                           \* sdsdup

\* Through appends, copies, trims, ranges, reserving and giving up room, and
\* the changes of header these bring, a string is what its user expects and
\* ends in NUL, its header has room for its length, and no more is promised
\* than was allocated (sdsMakeRoomFor, sdsRemoveFreeSpace and their users).
SdsExact ==
  /\ rep.buf = Append(model.str, 0) /\ rep.len = Len(model.str)
  /\ rep.len <= sdsalloc(rep) /\ sdsalloc(rep) <= rep.room

-----------------------------------------------------------------------------
(* sdssplitlen, one position of the text at a time.                        *)

SplitInit ==
  \E s \in Texts(MaxLen), sep \in Texts(2) \ {<<>>} :
    /\ rep = [j |-> 0, start |-> 0, tokens |-> <<>>, over |-> FALSE] /\ model = [s |-> s, sep |-> sep]
At(j) == SubSeq(model.s, j + 1, j + Len(model.sep))
\* fault: the search goes on inside the separator
NextChar(j) == j + 1
PastSep(j) == j + Len(model.sep)
SplitAt ==
  /\ ~rep.over /\ model.s # <<>> /\ rep.j < Len(model.s) - (Len(model.sep) - 1) /\ UNCHANGED model
  /\ rep' = IF At(rep.j) = model.sep
            THEN [rep EXCEPT !.tokens = Append(@, SubSeq(model.s, rep.start + 1, rep.j)), !.start = PastSep(rep.j),
                             !.j = PastSep(rep.j)]
            ELSE [rep EXCEPT !.j = @ + 1]
SplitEnd ==
  /\ ~rep.over /\ (model.s # <<>> => rep.j >= Len(model.s) - (Len(model.sep) - 1)) /\ UNCHANGED model
  /\ rep' = [rep EXCEPT !.over = TRUE,
                        !.tokens = IF model.s = <<>> THEN @ ELSE Append(@, SubSeq(model.s, rep.start + 1, Len(model.s)))]
SplitNext == SplitAt \/ SplitEnd

sdsjoinsds(tokens, sep) ==
  FoldLeft(LAMBDA join, i : join \o tokens[i] \o (IF i = Len(tokens) THEN <<>> ELSE sep), <<>>, Bytes(Len(tokens)))
\* Joining what a text was split into gives the text back, and no token
\* holds the separator (sdssplitlen, sdsjoinsds).
SplitExact ==
  rep.over => /\ sdsjoinsds(rep.tokens, model.sep) = model.s
              /\ \A i \in DOMAIN rep.tokens : ~\E j \in 0..Len(rep.tokens[i]) :
                   SubSeq(rep.tokens[i], j + 1, Min({j + Len(model.sep), Len(rep.tokens[i])})) = model.sep

-----------------------------------------------------------------------------
(* sdscatrepr and sdssplitargs: a text is quoted and the line is parsed,   *)
(* one character per step.  "nul" ends the line; "a" is also a hex digit,  *)
(* "bin" the unprintable byte with the digits a a, "tab" a blank.          *)

Chars == {"a", "n", "x", "blank", "tab", "dq", "sq", "bs", "bin"}
Blanks == {"blank", "tab"}
Quoted(c) ==
  CASE c \in {"bs", "dq"} -> <<"bs", c>>
    [] c = "tab" -> <<"bs", "t">>
    [] c = "bin" -> <<"bs", "x", "a", "a">>
    [] OTHER -> <<c>>
sdscatrepr(text) == <<"dq">> \o FlattenSeq([i \in DOMAIN text |-> Quoted(text[i])]) \o <<"dq">>
ArgsInit ==
  /\ model \in [texts : UNION {[1..n -> UNION {[1..k -> Chars] : k \in 0..2}] : n \in 1..2}]
  /\ Len(FlattenSeq(model.texts)) <= 3
  /\ LET quoted == [i \in DOMAIN model.texts |-> sdscatrepr(model.texts[i])]
     IN rep = [line |-> sdsjoinsds(quoted, <<"blank">>) \o <<"nul", "nul", "nul">>, p |-> 1, in |-> "skip", current |-> <<>>,
               vector |-> <<>>]

Char(k) == rep.line[rep.p + k]
\* fault: a hex escape is one character shorter
ShortHex == 2
HexLength == 3
Onward(k, in, text) == [rep EXCEPT !.p = @ + k, !.in = in, !.current = @ \o text]
Unescaped(c) == IF c = "t" THEN "tab" ELSE c
TokenEnds == [rep EXCEPT !.vector = Append(@, rep.current), !.current = <<>>, !.in = "skip",
                         !.p = IF Char(0) = "nul" THEN @ ELSE @ + 1]
Broken == [rep EXCEPT !.in = "err", !.vector = <<>>]
Closed == IF Char(1) # "nul" /\ Char(1) \notin Blanks THEN Broken ELSE TokenEnds
SkipBlanks ==
  /\ rep.in = "skip" /\ UNCHANGED model
  /\ rep' = IF Char(0) \in Blanks THEN Onward(1, "skip", <<>>)
            ELSE [rep EXCEPT !.in = IF Char(0) = "nul" THEN "done" ELSE "plain"]
InQuotes ==
  /\ rep.in = "dq" /\ UNCHANGED model
  /\ rep' = IF Char(0) = "bs" /\ Char(1) = "x" /\ Char(2) = "a" /\ Char(3) = "a" THEN Onward(HexLength + 1, "dq", <<"bin">>)
            ELSE IF Char(0) = "bs" /\ Char(1) # "nul" THEN Onward(2, "dq", <<Unescaped(Char(1))>>)
            ELSE IF Char(0) = "dq" THEN Closed
            ELSE IF Char(0) = "nul" THEN Broken ELSE Onward(1, "dq", <<Char(0)>>)
InSingleQuotes ==
  /\ rep.in = "sq" /\ UNCHANGED model
  /\ rep' = IF Char(0) = "bs" /\ Char(1) = "sq" THEN Onward(2, "sq", <<"sq">>)
            ELSE IF Char(0) = "sq" THEN Closed
            ELSE IF Char(0) = "nul" THEN Broken ELSE Onward(1, "sq", <<Char(0)>>)
Unquoted ==
  /\ rep.in = "plain" /\ UNCHANGED model
  /\ rep' = IF Char(0) \in Blanks \cup {"nul"} THEN TokenEnds
            ELSE IF Char(0) \in {"dq", "sq"} THEN Onward(1, Char(0), <<>>) ELSE Onward(1, "plain", <<Char(0)>>)
ArgsNext == SkipBlanks \/ InQuotes \/ InSingleQuotes \/ Unquoted

\* Texts quoted by sdscatrepr and put on one line come back from
\* sdssplitargs as they were, whatever blanks, quotes, backslashes and
\* unprintable bytes they hold.
ArgsExact == rep.in \in {"done", "err"} => rep.in = "done" /\ rep.vector = model.texts

=============================================================================
