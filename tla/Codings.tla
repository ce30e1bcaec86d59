------------------------------- MODULE Codings -------------------------------
(***************************************************************************)
(* The encodings of the library: the byte streams of util/coding_util, the *)
(* checksum of util/crc_util, the blocks of util/block, the buffering of   *)
(* the digests of util/sha_util, util/base64, the bit sets of util/bitmap  *)
(* and the Bloom filter of util/bloom.  rep is the state of the code,      *)
(* model what was encoded.                                                 *)
(*                                                                         *)
(* A byte has ByteBits bits instead of 8, a uint32_t Bytes32 bytes instead *)
(* of 4 and a uint64_t twice as many, so a varint carries ByteBits - 1     *)
(* bits in each byte and the last byte of the longest one is not full, as  *)
(* in the code.                                                            *)
(***************************************************************************)
EXTENDS Integers, Sequences, FiniteSets, SequencesExt, FiniteSetsExt, Functions, TLC

CONSTANTS
  ByteBits,   \* bits of a byte
  Bytes32,    \* bytes of a uint32_t
  MaxItems,   \* bound on the items of a stream and the entries of a block
  Interval,   \* bound on block_restart_interval
  WordBits,   \* bits of a word of a bit set
  MaxBits,    \* bits of a bit set
  Adders      \* the threads that add to a filter or a StaticBitMap

CodingAssumption ==
  {ByteBits - 1, Bytes32 - 1, MaxItems, Interval, WordBits, MaxBits} \subseteq Nat \ {0}

VARIABLES rep, model

vars == <<rep, model>>

Byte == 2 ^ ByteBits
Group == 2 ^ (ByteBits - 1)                        \* the continuation bit, 128
Bits32 == ByteBits * Bytes32
Bits64 == 2 * Bits32
Ceil(a, b) == (a + b - 1) \div b
MaxVarint32 == Ceil(Bits32, ByteBits - 1)          \* kMaxVarint32Bytes
MaxVarint64 == Ceil(Bits64, ByteBits - 1)          \* kMaxVarint64Bytes
DropFront(s, n) == SubSeq(s, n + 1, Len(s))
Front0(s, n) == SubSeq(s, 1, n)

-----------------------------------------------------------------------------
(* coding_util: a writer puts items on a string, the tail of the string    *)
(* may be lost, a reader gets the items in the same order.                 *)

EncodeFixed(v, n) == [i \in 1 .. n |-> (v \div Byte ^ (i - 1)) % Byte]
DecodeFixed(s, n) == FoldLeft(LAMBDA a, i : a + s[i] * Byte ^ (i - 1), 0, [i \in 1 .. n |-> i])
EncodeBigEndian(v, n) == Reverse(EncodeFixed(v, n))
DecodeBigEndian(s, n) == DecodeFixed(Reverse(Front0(s, n)), n)
ReadBigEndian(s, n) == FoldLeft(LAMBDA a, i : ((a * Byte) % (Byte ^ n)) + s[i], s[1], [i \in 1 .. n - 1 |-> i + 1])
EndianTransform(v, n) == DecodeBigEndian(EncodeFixed(v, n), n)

VarintLength(v) == CHOOSE n \in 1 .. MaxVarint64 : v < Group ^ n /\ (n = 1 \/ v >= Group ^ (n - 1))
\* fault: the last byte keeps its continuation bit
Endless(v, i, n) == ((v \div Group ^ (i - 1)) % Group) + Group
VarintByte(v, i, n) == ((v \div Group ^ (i - 1)) % Group) + (IF i < n THEN Group ELSE 0)
EncodeVarint32(v) == LET n == VarintLength(v) IN [i \in 1 .. n |-> VarintByte(v, i, n)]
EncodeVarint64(v) == LET n == VarintLength(v) IN [i \in 1 .. n |-> VarintByte(v, i, n)]

Failed(s) == [ok |-> FALSE, value |-> 0, rest |-> s]
\* The bytes of s up to the first without a continuation bit, at most max of them.
GetVarintPtr(s, max, bits) ==
  LET ends == {i \in 1 .. Len(s) : i <= max /\ s[i] < Group}
      n == Min(ends)
  IN IF ends = {} THEN Failed(s)
     ELSE [ok |-> TRUE, rest |-> DropFront(s, n),
           value |-> FoldLeft(LAMBDA a, i : (a + (s[i] % Group) * Group ^ (i - 1)) % (2 ^ bits), 0, [i \in 1 .. n |-> i])]
GetVarint32(s) ==
  IF s # <<>> /\ Head(s) < Group THEN [ok |-> TRUE, value |-> Head(s), rest |-> Tail(s)]
  ELSE GetVarintPtr(s, MaxVarint32, Bits32)
GetVarint64(s) == GetVarintPtr(s, MaxVarint64, Bits64)
GetFixed(s, n) ==
  IF Len(s) < n THEN Failed(s) ELSE [ok |-> TRUE, value |-> DecodeFixed(s, n), rest |-> DropFront(s, n)]
\* After the length the bytes; the length is consumed even when the bytes are missing.
\* fault: the bytes are not counted before they are taken
TakeAnyway(len) ==
  IF ~len.ok THEN [ok |-> FALSE, value |-> <<>>, rest |-> len.rest]
  ELSE [ok |-> TRUE, value |-> Front0(len.rest, IF len.value < Len(len.rest) THEN len.value ELSE Len(len.rest)),
        rest |-> DropFront(len.rest, len.value)]
TakePrefixed(len) ==
  IF len.ok /\ Len(len.rest) >= len.value
  THEN [ok |-> TRUE, value |-> Front0(len.rest, len.value), rest |-> DropFront(len.rest, len.value)]
  ELSE [ok |-> FALSE, value |-> <<>>, rest |-> len.rest]
GetVarLength32Prefixed(s) == TakePrefixed(GetVarint32(s))
GetVarLength64Prefixed(s) == TakePrefixed(GetVarint64(s))
\* The result of GetFixed64 is ignored: a missing length is a length of 0.
GetFixLength64Prefixed(s) == TakePrefixed([GetFixed(s, 2 * Bytes32) EXCEPT !.ok = TRUE])
GetStringPieceUntil(s, delimiter) ==
  LET at == {i \in 1 .. Len(s) : s[i] = delimiter}
      n == IF at = {} THEN Len(s) ELSE Min(at) - 1
  IN [ok |-> TRUE, value |-> Front0(s, n), rest |-> DropFront(s, n + (IF n < Len(s) THEN 1 ELSE 0))]

Delimiter == 0
Values(bits) == {0, Group - 1, Group, Group ^ 2, 2 ^ bits - 1}
Texts == {<<>>, <<Byte - 1>>, [i \in 1 .. Group |-> i % Byte]}
Items ==
  ({"fixed32", "varint32"} \X Values(Bits32)) \cup ({"fixed64", "varint64", "big64"} \X Values(Bits64))
PrefixedItems == {"string32", "string64", "fixstring64", "until"} \X Texts

Encoded(item) ==
  CASE item[1] = "fixed32" -> EncodeFixed(item[2], Bytes32)
    [] item[1] = "fixed64" -> EncodeFixed(item[2], 2 * Bytes32)
    [] item[1] = "big64" -> EncodeBigEndian(item[2], 2 * Bytes32)
    [] item[1] = "varint32" -> EncodeVarint32(item[2])
    [] item[1] = "varint64" -> EncodeVarint64(item[2])
    [] item[1] = "string32" -> EncodeVarint32(Len(item[2])) \o item[2]
    [] item[1] = "string64" -> EncodeVarint64(Len(item[2])) \o item[2]
    [] item[1] = "fixstring64" -> EncodeFixed(Len(item[2]), 2 * Bytes32) \o item[2]
    [] item[1] = "until" -> item[2] \o <<Delimiter>>

Got(kind, s) ==
  CASE kind = "fixed32" -> GetFixed(s, Bytes32)
    [] kind = "fixed64" -> GetFixed(s, 2 * Bytes32)
    [] kind = "big64" ->                                  \* the caller checks the size
         IF Len(s) < 2 * Bytes32 THEN Failed(s)
         ELSE [ok |-> DecodeBigEndian(s, 2 * Bytes32) = ReadBigEndian(s, 2 * Bytes32),
               value |-> EndianTransform(DecodeFixed(s, 2 * Bytes32), 2 * Bytes32), rest |-> DropFront(s, 2 * Bytes32)]
    [] kind = "varint32" -> GetVarint32(s)
    [] kind = "varint64" -> GetVarint64(s)
    [] kind = "string32" -> GetVarLength32Prefixed(s)
    [] kind = "string64" -> GetVarLength64Prefixed(s)
    [] kind = "fixstring64" -> GetFixLength64Prefixed(s)
    [] kind = "until" -> GetStringPieceUntil(s, Delimiter)

StreamInit ==
  /\ rep = [buf |-> <<>>, reading |-> FALSE, at |-> 1, last |-> "none"]
  /\ model = [items |-> <<>>, torn |-> FALSE, blind |-> FALSE, wrong |-> FALSE]
Put ==
  /\ ~rep.reading /\ Len(model.items) < MaxItems
  /\ \E item \in Items \cup PrefixedItems :
       /\ rep' = [rep EXCEPT !.buf = @ \o Encoded(item)]
       /\ model' = [model EXCEPT !.items = Append(@, item)]
Read ==                                                   \* the tail of the stream may be lost
  /\ ~rep.reading /\ model.items # <<>>
  /\ \E n \in 0 .. Len(rep.buf) :
       /\ rep' = [rep EXCEPT !.reading = TRUE, !.buf = Front0(@, n)]
       /\ model' = [model EXCEPT !.torn = n < Len(rep.buf)]
\* The answers that look right although the tail is lost: a piece whose delimiter is gone, and a string
\* whose fixed length is cut off itself, which counts as empty and leaves its bytes to the next item.
Blind(kind, s) ==
  \/ kind = "until" /\ ~Contains(s, Delimiter)
  \/ kind = "fixstring64" /\ Len(s) < 2 * Bytes32
Get ==
  /\ rep.reading /\ rep.at <= Len(model.items) /\ rep.last \in {"none", "ok"}
  /\ LET item == model.items[rep.at]
         got == Got(item[1], rep.buf)
         blind == model.blind \/ Blind(item[1], rep.buf)
     IN /\ rep' = [rep EXCEPT !.buf = got.rest, !.at = @ + 1, !.last = IF got.ok THEN "ok" ELSE "failed"]
        /\ model' = [model EXCEPT !.blind = blind, !.wrong = @ \/ (got.ok /\ got.value # item[2] /\ ~blind)]
StreamNext == Put \/ Read \/ Get

\* A reader that asks for the items in the order in which they were put gets
\* each of them, whatever mixture of fixed, varint and prefixed items it is,
\* and leaves nothing behind; when the tail of the stream is lost it gets the
\* items that are whole and then a failure, never another value, as long as
\* no answer was Blind: GetFixLength64PrefixedStringPiece does not look whether
\* GetFixed64 succeeded, so a string whose length is cut off is not refused.
StreamExact ==
  /\ ~model.wrong /\ (model.blind => model.torn)
  /\ ~model.torn => rep.last # "failed"
  /\ (rep.reading /\ ~model.torn /\ rep.at > Len(model.items)) => rep.buf = <<>>

-----------------------------------------------------------------------------
(* crc_util.  A word is the set of its bits; xor is symmetric difference.  *)

Word(v) == {i \in 0 .. Bits32 - 1 : (v \div 2 ^ i) % 2 = 1}
Number(w) == FoldSet(LAMBDA i, a : a + 2 ^ i, 0, w)
Xor(a, b) == (a \ b) \cup (b \ a)
ShiftRight(w, n) == {i - n : i \in {j \in w : j >= n}}
LowByte(w) == w \cap (0 .. ByteBits - 1)

Ones == 0 .. Bits32 - 1                                  \* 0xffffffff
Polynomial == {Bits32 - 1, Bits32 - 2, 0}                \* a reflected polynomial, of any degree
OneBit(w) == IF 0 \in w THEN Xor(ShiftRight(w, 1), Polynomial) ELSE ShiftRight(w, 1)
\* table<k>_[c]: c and k zero bytes after it.
table(k, c) == FoldLeft(LAMBDA w, i : OneBit(w), c, [i \in 1 .. ByteBits * (k + 1) |-> i])

STEP1(l, byte) == Xor(table(0, LowByte(Xor(l, Word(byte)))), ShiftRight(l, ByteBits))
\* A word of the buffer at a time, each byte through the table of its place.
\* fault: the tables in the order of the bytes
Swapped(l, bytes) ==
  LET c == Xor(l, Word(DecodeFixed(bytes, Bytes32)))
  IN FoldLeft(LAMBDA w, j : Xor(w, table(j, LowByte(ShiftRight(c, ByteBits * j)))), {}, [j \in 1 .. Bytes32 |-> j - 1])
STEP4(l, bytes) ==
  LET c == Xor(l, Word(DecodeFixed(bytes, Bytes32)))
  IN FoldLeft(LAMBDA w, j : Xor(w, table(Bytes32 - 1 - j, LowByte(ShiftRight(c, ByteBits * j)))), {},
              [j \in 1 .. Bytes32 |-> j - 1])
\* pval is the address of the buffer: single bytes up to an aligned one, words,
\* and single bytes.
Crc32Extend(crc, buf, pval) ==
  LET odd == (Ceil(pval, Bytes32) * Bytes32) - pval
      head == IF odd <= Len(buf) THEN odd ELSE 0
      words == (Len(buf) - head) \div Bytes32
      Singles(l, from, to) == FoldLeft(LAMBDA w, i : STEP1(w, buf[i]), l, [i \in 1 .. to - from + 1 |-> from + i - 1])
      l1 == Singles(Xor(Word(crc), Ones), 1, head)
      l2 == FoldLeft(LAMBDA w, k : STEP4(w, SubSeq(buf, head + (k - 1) * Bytes32 + 1, head + k * Bytes32)),
                     l1, [k \in 1 .. words |-> k])
  IN Number(Xor(Singles(l2, head + words * Bytes32 + 1, Len(buf)), Ones))
Crc32Value(buf, pval) == Crc32Extend(0, buf, pval)

Turn == Bits32 \div 2                                     \* 15 of 32
kCrc32MaskDelta == 2 ^ Bits32 - 3
Crc32Mask(crc) == (crc \div 2 ^ Turn + (crc % (2 ^ Turn)) * 2 ^ (Bits32 - Turn) + kCrc32MaskDelta) % (2 ^ Bits32)
Crc32Unmask(masked) ==
  LET rot == (masked - kCrc32MaskDelta) % (2 ^ Bits32)
  IN rot \div 2 ^ (Bits32 - Turn) + (rot % (2 ^ (Bits32 - Turn))) * 2 ^ Turn

Buffers == UNION {[1 .. n -> {1, Byte - 2}] : n \in 0 .. 2 * Bytes32}
CrcInit ==
  /\ \E buf \in Buffers, pval \in 0 .. Bytes32 - 1 :
       rep = [buf |-> buf, pval |-> pval, done |-> 0, crc |-> 0]
  /\ model = [damaged |-> -1]
\* Crc32Extend of the next bytes, as a reader that gets the buffer in pieces calls it.
Extend ==
  /\ rep.done < Len(rep.buf) /\ UNCHANGED model
  /\ \E n \in 1 .. Len(rep.buf) - rep.done :
       rep' = [rep EXCEPT !.done = @ + n, !.pval = (@ + n) % Bytes32,
                          !.crc = Crc32Extend(rep.crc, SubSeq(rep.buf, rep.done + 1, rep.done + n), rep.pval)]
\* What the checksum of the buffer with one byte changed would be.
Compare ==
  /\ rep.done = Len(rep.buf) /\ model.damaged = -1 /\ UNCHANGED rep
  /\ \E i \in 1 .. Len(rep.buf), d \in {1, Group} :
       model' = [model EXCEPT !.damaged = Crc32Value([rep.buf EXCEPT ![i] = (@ + d) % Byte], 0)]
CrcNext == Extend \/ Compare
CrcOver(buf) == Number(Xor(Ones, FoldLeft(LAMBDA w, b : OneBit(IF b = 1 THEN Xor(w, {0}) ELSE w), Ones,
                  [i \in 1 .. ByteBits * Len(buf) |-> (buf[Ceil(i, ByteBits)] \div 2 ^ ((i - 1) % ByteBits)) % 2])))

\* The checksum of a buffer is that of its bits one at a time, wherever the
\* buffer begins, however many bytes go through the tables of four at once and
\* in whatever pieces it is extended; a buffer with one byte changed has
\* another one; and unmasking gives back what was masked.
CrcExact ==
  /\ rep.crc = CrcOver(Front0(rep.buf, rep.done))
  /\ model.damaged # rep.crc
  /\ Crc32Unmask(Crc32Mask(rep.crc)) = rep.crc

-----------------------------------------------------------------------------
(* block: a BlockBuilder, the file that holds the block with its trailer   *)
(* and the iterator of a Block.  The writer of the trailer and the file    *)
(* are external; the file may damage a byte, return too few or fail.  The  *)
(* checksum is a plain sum here: CrcExact is about the real one.           *)

Keys == {<<>>, <<1>>, <<1, 1>>, <<1, 2>>, <<2>>}
BlockValues == {<<>>, [i \in 1 .. Group |-> 1]}
Targets == Keys \cup {<<2, 2>>}
\* StringPiece::compare: memcmp of the common part, then the length.
Less(a, b) ==
  \E n \in 0 .. Len(a) : /\ n <= Len(b) /\ Front0(a, n) = Front0(b, n)
                         /\ IF n < Len(a) THEN n < Len(b) /\ a[n + 1] < b[n + 1] ELSE n < Len(b)
Shared(a, b) == Max({n \in 0 .. Len(a) : n <= Len(b) /\ Front0(a, n) = Front0(b, n)})

Checksum(s) == FoldLeft(LAMBDA a, b : (a + b) % (2 ^ Bits32), 0, s)
NoIter == [current |-> 0, restart_index |-> 0, key |-> <<>>, from |-> 0, upto |-> 0, ok |-> TRUE]
Builder == [buffer |-> <<>>, restarts |-> <<0>>, counter |-> 0, finished |-> FALSE, last_key |-> <<>>]
BlockInit ==
  /\ \E interval \in 1 .. Interval :
     rep = [interval |-> interval, b |-> Builder, file |-> <<>>, phase |-> "build", data |-> <<>>, size |-> 0, owned |-> FALSE, buffers |-> 0, it |-> NoIter]
  /\ model = [entries |-> <<>>, bad |-> FALSE, at |-> 0, resets |-> 0]

Reset == 
  /\ rep.phase = "build" /\ model.resets = 0 /\ model.entries # <<>>
  /\ rep' = [rep EXCEPT !.b = Builder] /\ model' = [model EXCEPT !.entries = <<>>, !.resets = 1]
\* fault: a restart keeps on sharing with the previous key
ShareAlways(b, key) == Shared(b.last_key, key)
SharedBytes(b, key) == IF b.counter < rep.interval THEN Shared(b.last_key, key) ELSE 0
Add(key, value) ==
  /\ rep.phase = "build" /\ Len(model.entries) < MaxItems
  /\ rep.b.buffer = <<>> \/ Less(rep.b.last_key, key)
  /\ LET b == rep.b
         shared == SharedBytes(b, key)
         entry == EncodeVarint32(shared) \o EncodeVarint32(Len(key) - shared) \o EncodeVarint32(Len(value))
     IN rep' = [rep EXCEPT !.b = [b EXCEPT
          !.restarts = IF b.counter < rep.interval THEN @ ELSE Append(@, Len(b.buffer)),
          !.counter = IF b.counter < rep.interval THEN @ + 1 ELSE 1,
          !.buffer = @ \o entry \o DropFront(key, shared) \o value,
          !.last_key = Front0(@, shared) \o DropFront(key, shared)]]
  /\ model' = [model EXCEPT !.entries = Append(@, <<key, value>>)]
Finish ==
  /\ rep.phase = "build"
  /\ LET b == rep.b
         fixed == FoldLeft(LAMBDA s, r : s \o EncodeFixed(r, Bytes32), <<>>, b.restarts)
         block == b.buffer \o fixed \o EncodeFixed(Len(b.restarts), Bytes32)
         typed == Append(block, 0)                        \* kNoCompression
     IN rep' = [rep EXCEPT !.b.finished = TRUE, !.phase = "stored", !.size = Len(block),
                           !.file = typed \o EncodeFixed(Crc32Mask(Checksum(typed)), Bytes32)]
  /\ UNCHANGED model
Damage ==
  /\ rep.phase = "stored" /\ ~model.bad
  /\ \E i \in 1 .. Len(rep.file), d \in {1, Group} :
       rep' = [rep EXCEPT !.file[i] = (@ + d) % Byte]
  /\ model' = [model EXCEPT !.bad = TRUE]
\* fault: the trailer is not compared
NoCheck(contents, n) == TRUE
ChecksumRight(contents, n) ==
  Checksum(Front0(contents, n + 1)) = Crc32Unmask(DecodeFixed(DropFront(contents, n + 1), Bytes32))
\* The bytes come back in the buffer of the caller or, from a mapped file, in place.
ReadBlock ==
  /\ rep.phase = "stored" /\ UNCHANGED model
  /\ LET n == rep.size
         Fail == [rep EXCEPT !.phase = "failed", !.buffers = 0]
     IN \/ rep' = Fail                                    \* the read fails or is truncated
        \/ \E mapped \in BOOLEAN :
             rep' = IF ChecksumRight(rep.file, n) /\ rep.file[n + 1] = 0
                    THEN [rep EXCEPT !.phase = "read", !.data = Front0(rep.file, n), !.owned = ~mapped,
                                     !.buffers = IF mapped THEN 0 ELSE 1]
                    ELSE Fail

NumRestarts == DecodeFixed(DropFront(rep.data, rep.size - Bytes32), Bytes32)
RestartOffset == rep.size - (1 + NumRestarts) * Bytes32
GetRestartPoint(i) == DecodeFixed(SubSeq(rep.data, RestartOffset + i * Bytes32 + 1, RestartOffset + (i + 1) * Bytes32), Bytes32)
\* Block(), NewIterator(): a block that is too small for its restarts has size 0, one without any an
\* iterator that is never valid
NewIterator ==
  /\ rep.phase = "read" /\ UNCHANGED model
  /\ IF rep.size < Bytes32 \/ NumRestarts > (rep.size - Bytes32) \div Bytes32
     THEN rep' = [rep EXCEPT !.size = 0, !.phase = "failed"]
     ELSE IF NumRestarts = 0 THEN rep' = [rep EXCEPT !.phase = "empty"]
     ELSE rep' = [rep EXCEPT !.phase = "iter", !.it = [NoIter EXCEPT !.current = RestartOffset, !.restart_index = NumRestarts]]
\* The three lengths of the entry at p and where its key begins; -1 when it is cut off.
OneMore(c, got) == [ok |-> c.ok /\ got.ok, rest |-> got.rest, lengths |-> Append(c.lengths, got.value)]
Lengths(cut) == FoldLeft(LAMBDA c, k : OneMore(c, GetVarint32(c.rest)), [ok |-> TRUE, rest |-> cut, lengths |-> <<>>], [k \in 1 .. 3 |-> k])
EntryAt(p, limit, c) ==
  IF limit - p < 3 \/ ~c.ok \/ Len(c.rest) < c.lengths[2] + c.lengths[3]
  THEN [shared |-> 0, non_shared |-> 0, value_length |-> 0, p |-> -1]
  ELSE [shared |-> c.lengths[1], non_shared |-> c.lengths[2], value_length |-> c.lengths[3], p |-> limit - Len(c.rest)]
DecodeEntry(p, limit) == EntryAt(p, limit, Lengths(SubSeq(rep.data, p + 1, limit)))
Invalid(it, ok) ==
  [it EXCEPT !.current = RestartOffset, !.restart_index = NumRestarts, !.ok = ok,
             !.key = IF ok THEN @ ELSE <<>>, !.upto = IF ok THEN @ ELSE 0, !.from = IF ok THEN @ ELSE 0]
KeyOf(entry) == SubSeq(rep.data, entry.p + 1, entry.p + entry.non_shared)
StandAt(it, entry) ==
  LET passed == {r \in it.restart_index .. NumRestarts - 1 : r = it.restart_index \/ GetRestartPoint(r) < it.upto}
  IN IF it.upto >= RestartOffset THEN Invalid(it, TRUE)
     ELSE IF entry.p < 0 \/ Len(it.key) < entry.shared THEN Invalid(it, FALSE)
     ELSE [it EXCEPT !.current = it.upto, !.from = entry.p + entry.non_shared,
                     !.key = Front0(@, entry.shared) \o KeyOf(entry),
                     !.upto = entry.p + entry.non_shared + entry.value_length, !.restart_index = Max(passed)]
ParseNextKey(it) == StandAt(it, DecodeEntry(it.upto, RestartOffset))
SeekToRestartPoint(it, i) == [it EXCEPT !.key = <<>>, !.restart_index = i, !.from = GetRestartPoint(i), !.upto = GetRestartPoint(i)]
\* The binary search over the restart points, which ends at an entry that is
\* cut off or shares bytes of a key, and the walk from the point it found.
Seek(it, target) ==
  LET Narrowed(c, mid, entry) ==
        IF entry.p < 0 \/ entry.shared # 0 THEN <<-1, -1>>
        ELSE IF Less(KeyOf(entry), target) THEN <<mid, c[2]>> ELSE <<c[1], mid - 1>>
      Half(c) ==
        LET mid == (c[1] + c[2] + 1) \div 2
        IN IF c[1] >= c[2] THEN c ELSE Narrowed(c, mid, DecodeEntry(GetRestartPoint(mid), RestartOffset))
      left == FoldLeft(LAMBDA c, k : Half(c), <<0, NumRestarts - 1>>, [k \in 1 .. NumRestarts |-> k])[1]
      Walk(i) == IF i.current < RestartOffset /\ Less(i.key, target) THEN ParseNextKey(i) ELSE i
  IN IF left = -1 THEN Invalid(it, FALSE)
     ELSE FoldLeft(LAMBDA i, k : Walk(i), ParseNextKey(SeekToRestartPoint(it, left)), [k \in 1 .. rep.interval + 1 |-> k])
Valid(it) == it.current < RestartOffset

SeekToFirst ==
  /\ rep.phase = "iter" /\ rep' = [rep EXCEPT !.it = ParseNextKey(SeekToRestartPoint(@, 0))]
  /\ model' = [model EXCEPT !.at = 1]
IterNext ==
  /\ rep.phase = "iter" /\ Valid(rep.it) /\ rep' = [rep EXCEPT !.it = ParseNextKey(@)]
  /\ model' = [model EXCEPT !.at = @ + 1]
IterSeek(target) ==
  /\ rep.phase = "iter" /\ rep' = [rep EXCEPT !.it = Seek(@, target)]
  /\ model' = [model EXCEPT !.at = Cardinality({i \in DOMAIN model.entries : Less(model.entries[i][1], target)}) + 1]
DeleteBlock ==
  /\ rep.phase \in {"iter", "empty", "read"} /\ UNCHANGED model
  /\ rep' = [rep EXCEPT !.phase = "deleted", !.buffers = IF rep.owned THEN @ - 1 ELSE @]
BlockNext ==
  \/ Reset \/ Finish \/ Damage \/ ReadBlock \/ NewIterator \/ SeekToFirst \/ IterNext \/ DeleteBlock
  \/ \E key \in Keys, value \in BlockValues : Add(key, value)
  \/ \E target \in Targets : IterSeek(target)

\* The iterator of a block stands where it should: at the first entry after
\* SeekToFirst, at the next after Next, at the first key not below the target
\* after Seek, with that entry's key and value although the keys are stored as
\* what they do not share with the one before; past the last entry it is
\* invalid and still good.  A damaged block is refused, and the buffer it was
\* read into is released once.
BlockExact ==
  /\ (rep.phase = "iter" /\ model.at > 0) =>
       IF model.at <= Len(model.entries)
       THEN /\ Valid(rep.it) /\ rep.it.key = model.entries[model.at][1]
            /\ SubSeq(rep.data, rep.it.from + 1, rep.it.upto) = model.entries[model.at][2]
       ELSE ~Valid(rep.it)
  /\ rep.phase = "iter" => rep.it.ok
  /\ rep.phase \in {"read", "iter", "deleted"} => ~model.bad
  /\ rep.phase = "empty" => model.entries = <<>>
  /\ rep.phase = "failed" => rep.buffers = 0
  /\ rep.phase = "deleted" => rep.buffers = 0

-----------------------------------------------------------------------------
(* sha_util: what Write and Finalize hand to Transform.  A block has       *)
(* BlockBytes bytes, the length at the end SizeBytes; Transform itself is  *)
(* a function of the blocks, so the digest is the list of them.            *)

BlockBytes == 5                                           \* 64 or 128
SizeBytes == 2                                            \* 8 or 16
Start == 1                                                \* 0x80, the first byte of the padding
Fresh == [buf |-> [i \in 1 .. BlockBytes |-> 0], bytes |-> 0, s |-> <<>>]
CopyAt(buf, at, data) == [i \in DOMAIN buf |-> IF i > at /\ i <= at + Len(data) THEN data[i - at] ELSE buf[i]]

\* fault: a full buffer is only handed over when more than the rest of it arrives
FillMore(bufsize, len) == bufsize > 0 /\ bufsize + len > BlockBytes
Fill(bufsize, len) == bufsize > 0 /\ bufsize + len >= BlockBytes
Write(h, data) ==
  LET bufsize == h.bytes % BlockBytes
      filled == Fill(bufsize, Len(data))
      used == IF filled THEN BlockBytes - bufsize ELSE 0
      full == CopyAt(h.buf, bufsize, Front0(data, used))
      whole == (Len(data) - used) \div BlockBytes
      left == DropFront(data, used + whole * BlockBytes)
  IN [bytes |-> h.bytes + Len(data),
      s |-> h.s \o (IF filled THEN <<full>> ELSE <<>>) \o
            [k \in 1 .. whole |-> SubSeq(data, used + (k - 1) * BlockBytes + 1, used + k * BlockBytes)],
      buf |-> CopyAt(IF filled THEN full ELSE h.buf, IF filled THEN 0 ELSE bufsize, left)]
SizeDesc(bytes) == EncodeBigEndian(bytes, SizeBytes)       \* bytes << 3
Padding(bytes) ==
  [i \in 1 .. 1 + ((2 * BlockBytes - SizeBytes - 1 - (bytes % BlockBytes)) % BlockBytes) |-> IF i = 1 THEN Start ELSE 0]

DigestInit == rep = [h |-> Fresh, final |-> FALSE] /\ model = [message |-> <<>>, resets |-> 0]
WriteSome ==
  /\ ~rep.final
  /\ \E n \in 0 .. 3 * BlockBytes - Len(model.message) :
       LET data == [i \in 1 .. n |-> (Len(model.message) + i) % Byte]
       IN rep' = [rep EXCEPT !.h = Write(@, data)] /\ model' = [model EXCEPT !.message = @ \o data]
Finalize ==
  /\ ~rep.final /\ UNCHANGED model
  /\ LET size == SizeDesc(rep.h.bytes)
     IN rep' = [rep EXCEPT !.final = TRUE, !.h = Write(Write(@, Padding(rep.h.bytes)), size)]
ResetDigest ==
  /\ model.resets = 0 /\ rep' = [h |-> [rep.h EXCEPT !.bytes = 0, !.s = <<>>], final |-> FALSE]
  /\ model' = [message |-> <<>>, resets |-> 1]
DigestNext == WriteSome \/ Finalize \/ ResetDigest

\* The blocks that reach Transform are the message cut at every BlockBytes
\* bytes, in whatever pieces it was written and whatever an earlier message
\* left in the buffer; a final digest has exactly the padding and the length
\* of the message behind it, in whole blocks.
DigestExact ==
  LET flat == FlattenSeq(rep.h.s)
      held == Front0(rep.h.buf, rep.h.bytes % BlockBytes)
      pad == Padding(Len(model.message))
  IN IF rep.final
     THEN /\ flat = model.message \o pad \o SizeDesc(Len(model.message))
          /\ \A i \in DOMAIN rep.h.s : Len(rep.h.s[i]) = BlockBytes
     ELSE flat \o held = model.message

-----------------------------------------------------------------------------
(* base64.  Three bytes of four bits make four characters of three; -1 is  *)
(* the padding character and -2 one outside of the alphabet.               *)

Pad == -1
Quad(b) == LET packed == b[1] * 256 + b[2] * 16 + b[3]
           IN <<packed \div 512, (packed \div 64) % 8, (packed \div 8) % 8, packed % 8>>
Base64Encode(source, with_padding) ==
  LET whole == Len(source) \div 3
      rest == DropFront(source, whole * 3)
      tail == Front0(Quad(rest \o <<0, 0, 0>>), IF rest = <<>> THEN 0 ELSE Len(rest) + 1)
      pads == IF with_padding /\ rest # <<>> THEN [i \in 1 .. 3 - Len(rest) |-> Pad] ELSE <<>>
  IN FlattenSeq([k \in 1 .. whole |-> Quad(SubSeq(source, 3 * k - 2, 3 * k))]) \o tail \o pads
\* DecodeThreeChars; a character outside of the alphabet sets the high bits.
DecodeThreeChars(codes) ==
  LET packed == codes[1] * 512 + codes[2] * 64 + codes[3] * 8 + codes[4]
  IN <<packed \div 256, (packed \div 16) % 16, packed % 16>>
Good(codes) == \A i \in DOMAIN codes : codes[i] >= 0
\* fault: padding is removed from the end alone, one character at a time
DropOnePad(last) == IF last[4] = Pad THEN 3 ELSE 4
PaddedLength(last) ==
  IF last[3] = Pad /\ last[4] = Pad THEN 2 ELSE IF last[3] # Pad /\ last[4] = Pad THEN 3 ELSE 4
Base64Decode(data) ==
  LET n == Len(data)
      whole == IF n = 0 THEN 0 ELSE (n - 1) \div 4         \* the quads that are followed by more
      last == DropFront(data, whole * 4)
      remain == IF Len(last) = 4 THEN PaddedLength(last) ELSE Len(last)
      tail == Front0(last, remain) \o [i \in 1 .. 4 - remain |-> 0]
      quads == [k \in 1 .. whole |-> SubSeq(data, 4 * k - 3, 4 * k)]
      bad == [ok |-> FALSE, text |-> <<>>]
  IN IF n = 0 THEN [ok |-> TRUE, text |-> <<>>]
     ELSE IF (\E k \in 1 .. whole : ~Good(quads[k])) \/ remain = 1 \/ ~Good(tail) THEN bad
     ELSE [ok |-> TRUE,
           text |-> FlattenSeq([k \in 1 .. whole |-> DecodeThreeChars(quads[k])]) \o Front0(DecodeThreeChars(tail), remain - 1)]

Base64Init ==
  /\ \E n \in 0 .. 5 : \E source \in [1 .. n -> {0, 9, 15}], padded \in BOOLEAN :
       /\ rep = [text |-> Base64Encode(source, padded), out |-> [ok |-> FALSE, text |-> <<>>], decoded |-> FALSE]
       /\ model = [source |-> source, padded |-> padded, change |-> "none"]
Spoil ==
  /\ ~rep.decoded /\ model.change = "none"
  /\ \/ \E n \in 0 .. Len(rep.text) - 1 :
          /\ rep' = [rep EXCEPT !.text = Front0(@, n)] /\ model' = [model EXCEPT !.change = "cut"]
     \/ \E i \in 1 .. Len(rep.text) :
          /\ rep' = [rep EXCEPT !.text[i] = -2] /\ model' = [model EXCEPT !.change = "foreign"]
Decode ==
  /\ ~rep.decoded /\ rep' = [rep EXCEPT !.decoded = TRUE, !.out = Base64Decode(rep.text)] /\ UNCHANGED model
Base64Next == Spoil \/ Decode

\* What was encoded, with padding or without, decodes to itself; a character
\* outside of the alphabet is refused anywhere; a text that lost its tail is
\* refused or decodes to a prefix of the source.
Base64Exact ==
  rep.decoded =>
    CASE model.change = "none" -> rep.out = [ok |-> TRUE, text |-> model.source]
      [] model.change = "foreign" -> ~rep.out.ok
      [] model.change = "cut" -> rep.out.ok => IsPrefix(rep.out.text, model.source)

-----------------------------------------------------------------------------
(* bitmap: the bit_array functions, Bitmap, BitSet and DynamicBitset.  A   *)
(* word is the set of its bits, so or is union and ctz the minimum.        *)

NumWords(n) == Ceil(n, WordBits)
WordOf(i) == i \div WordBits
BitOf(i) == i % WordBits
Bit(words, i) == BitOf(i) \in words[WordOf(i)]
Zero(n) == [w \in 0 .. n |-> {}]
SetBit(words, i) == [words EXCEPT ![WordOf(i)] = @ \cup {BitOf(i)}]
UnsetBit(words, i) == [words EXCEPT ![WordOf(i)] = @ \ {BitOf(i)}]
\* bit_array_clear: the whole words, and the bits of the last one below nbit.
bit_array_clear(words, nbit) ==
  [w \in DOMAIN words |->
     IF w < WordOf(nbit) THEN {}
     ELSE IF w = WordOf(nbit) /\ BitOf(nbit) # 0 THEN {b \in words[w] : b >= BitOf(nbit)} ELSE words[w]]
Least(a, b) == IF a < b THEN a ELSE b
bit_array_first1(words, begin, end) ==
  LET v == {b \in words[WordOf(begin)] : b >= BitOf(begin)}
      off1 == IF BitOf(begin) = 0 THEN WordOf(begin) ELSE WordOf(begin) + 1
      found == {w \in off1 .. WordOf(end) - 1 : words[w] # {}}
      last == words[WordOf(end)]
  IN IF BitOf(begin) # 0 /\ v # {} THEN Least(WordOf(begin) * WordBits + Min(v), end)
     ELSE IF found # {} THEN Min(found) * WordBits + Min(words[Min(found)])
     ELSE IF BitOf(end) # 0 /\ last # {} THEN Least(WordOf(end) * WordBits + Min(last), end)
     ELSE end
\* Bitmap::FirstUnset, whose last word may have unused bits.
WithinBits(result, nbits) == IF result > nbits THEN nbits ELSE result
FindFirstSet(w) == IF w = {} THEN 0 ELSE Min(w) + 1
FirstUnset(words, nbits, start) ==
  LET clear(w) == {b \in 0 .. WordBits - 1 : b \notin words[w] /\ (w > WordOf(start) \/ b >= BitOf(start))}
      found == {w \in WordOf(start) .. NumWords(nbits) - 1 : FindFirstSet(clear(w)) # 0}
  IN IF start >= nbits \/ found = {} THEN nbits
     ELSE WithinBits(Min(found) * WordBits + FindFirstSet(clear(Min(found))) - 1, nbits)
\* bit_array_first1 looks again at the word of begin when end is in it too, and takes the bits before begin.
Strays(words, begin, end) ==
  /\ BitOf(begin) # 0 /\ WordOf(end) = WordOf(begin)
  /\ words[WordOf(begin)] # {} /\ \A b \in words[WordOf(begin)] : b < BitOf(begin)
\* BitSet::pick, from the position after the one set last.
pick(words, count, cursor) ==
  LET at(k) == (cursor + k) % count
      free == {k \in 1 .. count - 1 : ~Bit(words, at(k))}
  IN IF free = {} THEN -1 ELSE at(Min(free))
BitSetBytes(count) == (count + count - 1) \div WordBits        \* byte_size()

\* A BitSet is a view of memory of the caller, who keeps something in the byte behind it.
Neighbour == {0}
BitsInit ==
  /\ \/ \E kind \in {"array", "bitmap", "dynamic"} :
          rep = [kind |-> kind, words |-> Zero(NumWords(MaxBits)), nbits |-> MaxBits, cursor |-> 0]
     \/ \E n \in 1 .. MaxBits :
          rep = [kind |-> "bitset", words |-> [Zero(NumWords(MaxBits)) EXCEPT ![NumWords(n)] = Neighbour],
                 nbits |-> n, cursor |-> 0]
  /\ model = [on |-> {}, left |-> {}]
Turned(words, on) == rep' = [rep EXCEPT !.words = words] /\ model' = [model EXCEPT !.on = on]
set(i) ==
  IF i >= rep.nbits THEN rep.kind = "dynamic" /\ UNCHANGED vars  \* DynamicBitset checks, the others do not
  ELSE /\ rep' = [rep EXCEPT !.words = SetBit(@, i), !.cursor = IF rep.kind = "bitset" THEN i ELSE @]
       /\ model' = [model EXCEPT !.on = @ \cup {i}, !.left = @ \ {i}]
unset(i) ==
  /\ i < rep.nbits /\ rep' = [rep EXCEPT !.words = UnsetBit(@, i)]
  /\ model' = [model EXCEPT !.on = @ \ {i}, !.left = @ \ {i}]
clearBits ==
  \/ /\ rep.kind = "array"
     /\ \E n \in 0 .. MaxBits : Turned(bit_array_clear(rep.words, n), {i \in model.on : i >= n})
  \/ /\ rep.kind = "bitset"                                  \* memset, of as many bytes as byte_size() says
     /\ rep' = [rep EXCEPT !.words = [w \in DOMAIN @ |-> IF w < BitSetBytes(rep.nbits) THEN {} ELSE @[w]]]
     /\ model' = [model EXCEPT !.on = {}, !.left = {i \in @ \cup model.on : WordOf(i) >= BitSetBytes(rep.nbits)}]
  \/ /\ rep.kind = "dynamic" /\ Turned(Zero(NumWords(MaxBits)), {})
\* Bitmap::Reset keeps its words when their number stays the same; resize keeps the bits.
resize(n) ==
  \/ /\ rep.kind = "bitmap"
     /\ rep' = [rep EXCEPT !.words = [w \in DOMAIN @ |-> IF w < NumWords(n) THEN {} ELSE @[w]], !.nbits = n]
     /\ model' = [model EXCEPT !.on = {}]
  \/ /\ rep.kind = "dynamic"
     /\ rep' = [rep EXCEPT !.nbits = n,
                  !.words = [w \in DOMAIN @ |-> {b \in @[w] : w * WordBits + b < Least(n, rep.nbits)}]]
     /\ model' = [model EXCEPT !.on = {i \in @ : i < n}]
BitsNext ==
  \/ clearBits
  \/ \E i \in 0 .. MaxBits - 1 : set(i) \/ unset(i)
  \/ \E n \in 1 .. MaxBits : resize(n)

First(S, end) == IF S = {} THEN end ELSE Min(S)
\* The bits that test as set are those that were set and not cleared, resized
\* away or reset since, and what the searches find is the first such bit of
\* the range, the first clear bit and the next clear bit after the cursor.
\* The exceptions are the code's: bit_array_first1 returns a bit before begin
\* where it Strays, and reset() of a BitSet, whose byte_size() is wrong, leaves
\* bits set when there are no more of them than half a byte has, and clears
\* memory behind the set when there are more than one and a half bytes have.
BitsFound ==
  /\ \A i \in 0 .. rep.nbits - 1 : Bit(rep.words, i) <=> i \in model.on \cup model.left
  /\ rep.kind = "bitset" =>
       /\ model.left # {} => 2 * rep.nbits <= WordBits
       /\ rep.words[NumWords(rep.nbits)] # Neighbour => 2 * rep.nbits > 3 * WordBits
  /\ rep.kind = "array" =>
       \A begin \in 0 .. MaxBits : \A end \in begin .. MaxBits :
         LET first == bit_array_first1(rep.words, begin, end)
         IN IF Strays(rep.words, begin, end) THEN first < begin
            ELSE first = First({i \in model.on : begin <= i /\ i < end}, end)
  /\ rep.kind = "bitmap" =>
       \A start \in 0 .. rep.nbits :
         FirstUnset(rep.words, rep.nbits, start) = First({i \in start .. rep.nbits - 1 : i \notin model.on}, rep.nbits)
  /\ rep.kind = "bitset" =>
       LET p == pick(rep.words, rep.nbits, rep.cursor)
       IN IF p = -1 THEN (0 .. rep.nbits - 1) \ {rep.cursor} \subseteq model.on \cup model.left
          ELSE p \notin model.on \cup model.left /\ p # rep.cursor

-----------------------------------------------------------------------------
(* Bits that several threads set: StaticBitMap with its loop around a      *)
(* compare and exchange, DynamicBloom with its test and fetch_or.  The     *)
(* probes of a hash are a fixed list of bits.                              *)

HashSize == 16
LineBits == 4                                             \* CACHE_LINE_SIZE * 8
NumBlocks == 2
Rotate(h, by) == (h \div 2 ^ by + h * (HashSize \div 2 ^ by)) % HashSize
\* The bits of a hash: within one cache line, or anywhere when there are no blocks.
Probes(h, blocks) ==
  LET delta == Rotate(h, 2)
      b == (Rotate(h, 1) % NumBlocks) * LineBits
      h2 == IF blocks THEN (h \div LineBits + (h % LineBits) * (HashSize \div LineBits) + delta) % HashSize
            ELSE (h + delta) % HashSize
      At(g) == IF blocks THEN b + (g % LineBits) ELSE g % (NumBlocks * LineBits)
  IN <<At(h), At(h2)>>

SharedInit ==
  /\ \E kind \in {"static", "line", "bloom"} :
       rep = [kind |-> kind, words |-> Zero(NumWords(NumBlocks * LineBits)),
              pc |-> [t \in Adders |-> "idle"], arg |-> [t \in Adders |-> 0], seen |-> [t \in Adders |-> {}],
              probe |-> [t \in Adders |-> 1]]
  /\ model = [on |-> {}, added |-> {}, ops |-> 0]
Kept(t) == rep.arg[t]
\* StaticBitMap::on and off.
Turn1(t) ==
  /\ rep.kind = "static" /\ rep.pc[t] = "idle" /\ model.ops < 3
  /\ \E i \in 0 .. WordBits, to \in {"on", "off"} :
       rep' = [rep EXCEPT !.pc[t] = to, !.arg[t] = i, !.seen[t] = rep.words[WordOf(i)]]
  /\ model' = [model EXCEPT !.ops = @ + 1]
\* fault: the byte is stored whatever it is by now
StoreAlways(now, seen) == TRUE
Exchanges(now, seen) == now = seen
CompareExchange(t) ==
  /\ rep.pc[t] \in {"on", "off"}
  /\ LET i == Kept(t)
         new == IF rep.pc[t] = "on" THEN rep.seen[t] \cup {BitOf(i)} ELSE rep.seen[t] \ {BitOf(i)}
     IN IF Exchanges(rep.words[WordOf(i)], rep.seen[t])
        THEN /\ rep' = [rep EXCEPT !.words[WordOf(i)] = new, !.pc[t] = "idle"]
             /\ model' = [model EXCEPT !.on = IF rep.pc[t] = "on" THEN @ \cup {i} ELSE @ \ {i}]
        ELSE rep' = [rep EXCEPT !.seen[t] = rep.words[WordOf(i)]] /\ UNCHANGED model
AddHashConcurrently(t) ==
  /\ rep.kind # "static" /\ rep.pc[t] = "idle" /\ model.ops < 3
  /\ \E h \in {1, 6, 11} : rep' = [rep EXCEPT !.pc[t] = "load", !.arg[t] = h, !.probe[t] = 1]
  /\ model' = [model EXCEPT !.ops = @ + 1]
BitPos(t) == Probes(rep.arg[t], rep.kind = "line")[rep.probe[t]]
NextProbe(r, t) ==
  IF r.probe[t] = 2 THEN [r EXCEPT !.pc[t] = "idle"] ELSE [r EXCEPT !.probe[t] = 2, !.pc[t] = "load"]
AddedNow(t) == model' = [model EXCEPT !.added = IF rep.probe[t] = 2 THEN @ \cup {rep.arg[t]} ELSE @]
LoadByte(t) ==
  /\ rep.pc[t] = "load"
  /\ IF Bit(rep.words, BitPos(t)) THEN rep' = NextProbe(rep, t) /\ AddedNow(t)
     ELSE rep' = [rep EXCEPT !.pc[t] = "or", !.seen[t] = rep.words[WordOf(BitPos(t))]] /\ UNCHANGED model
\* fault: what was loaded is stored with the bit, as AddHash does
StoreOr(now, seen, bit) == seen \cup {bit}
fetch_or(now, seen, bit) == now \cup {bit}
OrByte(t) ==
  /\ rep.pc[t] = "or"
  /\ rep' = NextProbe([rep EXCEPT !.words[WordOf(BitPos(t))] = fetch_or(@, rep.seen[t], BitOf(BitPos(t)))], t)
  /\ AddedNow(t)
MayContainHash(h) == \A i \in {1, 2} : Bit(rep.words, Probes(h, rep.kind = "line")[i])
SharedNext == \E t \in Adders : Turn1(t) \/ CompareExchange(t) \/ AddHashConcurrently(t) \/ LoadByte(t) \/ OrByte(t)

\* No thread undoes what another one did to its byte: a StaticBitMap has the
\* bits of the last on or off of each, and a filter may contain every hash
\* whose AddHashConcurrently has returned.
SharedBitsKept ==
  /\ rep.kind = "static" => \A i \in 0 .. WordBits : Bit(rep.words, i) <=> i \in model.on
  /\ rep.kind # "static" => \A h \in model.added : MayContainHash(h)

=============================================================================
