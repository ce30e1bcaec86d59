-------------------------------- MODULE Files --------------------------------
(***************************************************************************)
(* Files and logs: the read and write loops of util/file_util and          *)
(* util/io_util around interrupted and partial system calls, the mapped    *)
(* and the plain writable file of util/io_util, its InputBuffer,           *)
(* safe_write_file across a crash, RollFile, the asynchronous logger of    *)
(* util/logging_util, SubProcess of util/process_util, and the sockets of  *)
(* util/socket_util.  rep is the state of the code and of the kernel,      *)
(* model what the callers asked for and were told.                         *)
(***************************************************************************)
EXTENDS Integers, Sequences, FiniteSets, SequencesExt, FiniteSetsExt, TLC

CONSTANTS
  MaxBytes, \* bound on the bytes of a file
  Tries,    \* MAX_DISK_TIMES
  Page,     \* page_size_
  MapSize,  \* kMmapBoundSize in bytes
  BufSize,  \* buffer_bytes of an InputBuffer
  RollNum,  \* m_roll_num
  MaxSize,  \* m_file_size, g_bd_log_size
  MaxLogs,  \* bound on the messages of a behaviour
  Clients   \* the threads that log, or share a SubProcess

FileAssumption ==
  /\ {MaxBytes, Tries, Page, MapSize, BufSize, RollNum, MaxSize, MaxLogs} \subseteq Nat \ {0}
  /\ MapSize % Page = 0 /\ IsFiniteSet(Clients)

VARIABLES rep, model

vars == <<rep, model>>

-----------------------------------------------------------------------------
(* The transfer loops.  A call moves want bytes between a buffer and the   *)
(* file from offset at on; the kernel moves some of them, fails, or finds  *)
(* the end of the file.  A policy says what the loop does with each: which *)
(* errors it tries again, which end it early, what a count of 0 means, how *)
(* often it tries (0: always) and the alignment a count must have.         *)

Errors == {"EINTR", "EAGAIN", "EBADF", "EIO"}
Plain == [positioned |-> FALSE, retry |-> {"EINTR"}, stop |-> {}, zero |-> "short", limit |-> 0, align |-> 1]
Reads == {"safe_read", "safe_read_exact", "safe_pread", "safe_pread_exact", "safe_splice", "PollRead", "pread_file",
          "PositionedRead", "Read", "RandomRead"}
Writes == {"safe_write", "safe_pwrite", "PollWrite", "pwrite_file", "write_file", "temp_file_write_all", "Append",
           "PositionedAppend", "RandomWrite"}
Data == [i \in 1..MaxBytes |-> 10 + i]                  \* the bytes a write is given
Stored == [i \in 1..MaxBytes |-> i]                     \* the bytes of the file

TransferInit ==
  \E call \in Reads \cup Writes, at \in 0..MaxBytes, want \in 1..MaxBytes, errno \in {"", "EINTR"} :
    /\ rep = [call |-> call, at |-> at, want |-> want, done |-> 0, pos |-> at, open |-> TRUE, tries |-> 0, errno |-> errno,
              file |-> Stored, buf |-> <<>>, ret |-> "none"]
    /\ model = [eof |-> FALSE, stale |-> errno, reopened |-> FALSE, stopped |-> FALSE]

Left == rep.want - rep.done
Over(s, at, t) ==
  [i \in 1..Max({Len(s), at + Len(t)}) |-> IF i > at /\ i <= at + Len(t) THEN t[i - at] ELSE s[i]]
\* fault: every try of a positioned call starts at the first offset again
FirstOffset(at, done) == at
NextOffset(at, done) == at + done
Where(p) == IF p.positioned THEN NextOffset(rep.at, rep.done) ELSE rep.pos
Finish(done) == IF done = rep.want THEN "all" ELSE "short"
Return(r) == rep' = [rep EXCEPT !.ret = r] /\ UNCHANGED model

Moved(p, n) ==
  LET at == Where(p)
      part == IF rep.call \in Reads THEN SubSeq(rep.file, at + 1, at + n) ELSE SubSeq(Data, rep.done + 1, rep.done + n)
      cut == n % p.align # 0                            \* an unaligned count ends a direct read
  IN /\ rep' = [rep EXCEPT !.done = @ + n, !.tries = @ + 1, !.pos = IF p.positioned THEN @ ELSE @ + n,
                           !.buf = IF rep.call \in Reads THEN @ \o part ELSE @,
                           !.file = IF rep.call \in Reads THEN @ ELSE Over(@, at, part),
                           !.ret = IF cut THEN Finish(rep.done + n) ELSE "none"]
     /\ model' = [model EXCEPT !.stopped = cut]
Failed(p, e) ==
  /\ rep' = [rep EXCEPT !.tries = IF p.limit > 0 THEN @ + 1 ELSE @, !.errno = e, !.open = ~(e = "EBADF" /\ e \in p.retry),
                        !.ret = IF e \in p.retry THEN "none" ELSE IF e \in p.stop THEN Finish(rep.done) ELSE "error"]
  /\ model' = [model EXCEPT !.stale = e, !.stopped = e \in p.stop]
Ended(p) ==
  /\ rep' = [rep EXCEPT !.ret = IF p.zero = "short" THEN Finish(rep.done)
                                ELSE IF p.zero = "stale" /\ rep.errno # "EINTR" THEN "short"
                                ELSE IF p.zero = "error" THEN "error" ELSE "none",
                        !.tries = IF p.limit > 0 THEN @ + 1 ELSE @]
  /\ model' = [model EXCEPT !.eof = rep.call \in Reads, !.stopped = rep.call \in Writes]
\* FileOperation::check_file opens the file again when the descriptor is gone.
check_file ==
  /\ ~rep.open
  /\ \/ rep' = [rep EXCEPT !.open = TRUE, !.pos = 0] /\ model' = [model EXCEPT !.reopened = TRUE]
     \/ Return("error")
Tired(p) == p.limit > 0 /\ rep.tries + 1 >= p.limit

Loop(call, p) ==
  /\ rep.call = call /\ rep.ret = "none"
  /\ \/ (Left = 0 \/ Tired(p)) /\ Return(Finish(rep.done))
     \/ Left > 0 /\ ~Tired(p) /\ check_file
     \/ /\ Left > 0 /\ ~Tired(p) /\ rep.open
        /\ \/ \E e \in Errors : Failed(p, e)
           \/ \E n \in 1..Left : (call \in Reads => Where(p) + n <= Len(rep.file)) /\ Moved(p, n)
           \/ (call \in Reads => Where(p) >= Len(rep.file)) /\ Ended(p)

Disk == [Plain EXCEPT !.retry = {"EINTR", "EAGAIN", "EBADF"}, !.limit = Tries]
At(p) == [p EXCEPT !.positioned = TRUE]
safe_read == Loop("safe_read", Plain)
safe_read_exact == Loop("safe_read_exact", [Plain EXCEPT !.zero = "error"])
safe_pread == Loop("safe_pread", At(Plain))
safe_pread_exact == Loop("safe_pread_exact", At([Plain EXCEPT !.zero = "error"]))
safe_write == Loop("safe_write", [Plain EXCEPT !.zero = "again"])
safe_pwrite == Loop("safe_pwrite", At([Plain EXCEPT !.zero = "again"]))
safe_splice == Loop("safe_splice", [Plain EXCEPT !.stop = {"EAGAIN"}])
PollRead == Loop("PollRead", [Plain EXCEPT !.retry = {"EINTR", "EAGAIN"}, !.zero = "error"])
PollWrite == Loop("PollWrite", [Plain EXCEPT !.retry = {"EINTR", "EAGAIN"}, !.zero = "error"])
pread_file == Loop("pread_file", At(Disk))
pwrite_file == Loop("pwrite_file", At(Disk))
write_file == Loop("write_file", [Disk EXCEPT !.zero = IF rep.errno \in Disk.retry THEN "again" ELSE "error"])
temp_file_write_all == Loop("temp_file_write_all", [Plain EXCEPT !.zero = "again"])
PositionedRead == Loop("PositionedRead", At([Plain EXCEPT !.align = 2]))
ReadAt == Loop("Read", At([Plain EXCEPT !.zero = "stale"]))
Append_ == Loop("Append", [Plain EXCEPT !.zero = "again"])
PositionedAppend == Loop("PositionedAppend", At([Plain EXCEPT !.zero = "again"]))
RandomWrite == Loop("RandomWrite", At([Plain EXCEPT !.zero = "again"]))
RandomRead == Loop("RandomRead", At(Plain))

TransferNext ==
  \/ safe_read \/ safe_read_exact \/ safe_pread \/ safe_pread_exact \/ safe_write \/ safe_pwrite \/ safe_splice
  \/ PollRead \/ PollWrite \/ pread_file \/ pwrite_file \/ write_file \/ temp_file_write_all \/ PositionedRead \/ ReadAt
  \/ Append_ \/ PositionedAppend \/ RandomWrite \/ RandomRead

\* However the kernel splits, interrupts or fails a transfer: what a read
\* has gathered is the file from its offset on, a write has changed exactly
\* the bytes it moved so far, a call that reports everything moved all of
\* it, and a shorter count is reported only at the end of the file, after
\* the tries are used up or where the loop stops early on purpose.  A
\* descriptor that was lost and opened again starts a plain write at 0, so
\* such a call is left out, and so is a Read that finds an old EINTR in
\* errno at the end of the file: it never returns.
TransferExact ==
  /\ rep.call \in Reads => rep.buf = SubSeq(Stored, rep.at + 1, rep.at + rep.done) /\ rep.file = Stored
  /\ rep.call \in Writes =>
       (model.reopened /\ rep.call = "write_file") \/ rep.file = Over(Stored, rep.at, SubSeq(Data, 1, rep.done))
  /\ rep.ret = "all" => rep.done = rep.want
  /\ rep.ret = "short" => rep.done < rep.want /\ (model.eof \/ model.stopped \/ rep.tries + 1 >= Tries)
  /\ rep.ret = "short" /\ model.eof => rep.at + rep.done >= MaxBytes
  /\ model.eof /\ rep.ret = "none" => rep.call = "Read" /\ model.stale = "EINTR"

-----------------------------------------------------------------------------
(* PosixMmapFile: appends go to a mapped region at the end of the file,    *)
(* which is extended before it is mapped and cut to size when it is        *)
(* closed.  The k-th byte appended is k; the kernel keeps what was written *)
(* to an unmapped region for fdatasync, and the mapped one for msync.      *)

MappedInit ==
  /\ rep = [map_size |-> MapSize, file_offset |-> 0, mapped |-> FALSE, limit |-> 0, dst |-> 0, last_sync |-> 0, file |-> <<>>,
            left |-> 0, open |-> TRUE]
  /\ model = [written |-> 0, durable |-> {}, synced |-> 0, padded |-> FALSE, unsynced |-> FALSE, status |-> "ok"]

Resized(f, n) == [i \in 1..n |-> IF i <= Len(f) THEN f[i] ELSE 0]
TruncateToPageBoundary(n) == n - (n % Page)
UnmapCurrentRegion(r) ==
  IF ~r.mapped THEN r
  ELSE [r EXCEPT !.file_offset = @ + r.limit, !.mapped = FALSE, !.limit = 0, !.dst = 0, !.last_sync = 0,
                 !.map_size = IF @ < 2 * MapSize THEN 2 * @ ELSE @]
Extended(r) == [r EXCEPT !.file = Resized(@, r.file_offset + r.map_size)]
MapNewRegion(r) == [Extended(r) EXCEPT !.mapped = TRUE, !.limit = r.map_size]

StartAppend(n) ==
  /\ rep.open /\ rep.left = 0 /\ model.written + n <= MaxBytes
  /\ rep' = [rep EXCEPT !.left = n] /\ UNCHANGED model
Remap ==
  /\ rep.left > 0 /\ rep.dst = rep.limit
  /\ LET unmapped == UnmapCurrentRegion(rep)
         Fail(r, padded) == rep' = [r EXCEPT !.left = 0] /\ model' = [model EXCEPT !.padded = padded, !.status = "error"]
     IN \/ Fail(rep, model.padded)                                      \* munmap
        \/ Fail(unmapped, model.padded)                                 \* ftruncate
        \/ Fail(Extended(unmapped), TRUE)                               \* mmap
        \/ rep' = MapNewRegion(unmapped) /\ model' = [model EXCEPT !.padded = FALSE]
AppendBytes ==
  /\ rep.left > 0 /\ rep.dst < rep.limit
  /\ LET n == Min({rep.left, rep.limit - rep.dst})
         at == rep.file_offset + rep.dst
     IN /\ rep' = [rep EXCEPT !.left = @ - n, !.dst = @ + n,
                              !.file = Over(@, at, [i \in 1..n |-> model.written + i])]
        /\ model' = [model EXCEPT !.written = @ + n]
\* fault: the last, partial page is left out
WholePages(r) == (r.file_offset + TruncateToPageBoundary(r.last_sync) + 1)..(r.file_offset + TruncateToPageBoundary(r.dst))
Msync(r) ==
  (r.file_offset + TruncateToPageBoundary(r.last_sync) + 1)..(r.file_offset + TruncateToPageBoundary(r.dst - 1) + Page)
Sync ==
  /\ rep.open /\ rep.left = 0
  /\ LET flushed == model.durable \cup (1..rep.file_offset)
         all == IF rep.dst = rep.last_sync THEN flushed ELSE flushed \cup Msync(rep)
     IN \/ model' = [model EXCEPT !.status = "error"] /\ UNCHANGED rep
        \/ /\ rep' = [rep EXCEPT !.last_sync = rep.dst]
           /\ \/ model' = [model EXCEPT !.durable = all, !.synced = IF model.unsynced THEN @ ELSE model.written, !.status = "ok"]
              \/ rep.dst # rep.last_sync /\ model' = [model EXCEPT !.durable = flushed, !.unsynced = TRUE, !.status = "error"]
\* fault: the file is cut to the mapped size
CutAtLimit(offset, unused) == offset
CutAt(offset, unused) == offset - unused
CloseMapped ==
  /\ rep.open /\ rep.left = 0
  /\ LET unused == rep.limit - rep.dst
         r == [UnmapCurrentRegion(rep) EXCEPT !.open = FALSE, !.mapped = FALSE, !.limit = 0]
     IN \/ rep' = [r EXCEPT !.file = IF unused > 0 THEN Resized(@, CutAt(r.file_offset, unused)) ELSE @] /\ UNCHANGED model
        \/ rep' = r /\ model' = [model EXCEPT !.padded = TRUE, !.status = "error"]       \* munmap or ftruncate fails

MappedNext == (\E n \in 1..MaxBytes : StartAppend(n)) \/ Remap \/ AppendBytes \/ Sync \/ CloseMapped

\* A mapped file holds exactly the bytes appended, in order, and zeros after
\* them only while it is open or when a call failed; GetFileSize counts
\* them; and what was appended before a Sync that returned OK is on disk
\* (PosixMmapFile), unless an msync failed before: the next Sync then has
\* nothing left to do.
MappedExact ==
  /\ rep.open => rep.file_offset + rep.dst = model.written
  /\ Len(rep.file) >= model.written /\ \A i \in DOMAIN rep.file : rep.file[i] = IF i <= model.written THEN i ELSE 0
  /\ ~rep.open /\ ~model.padded => Len(rep.file) = model.written
  /\ 1..model.synced \subseteq model.durable

-----------------------------------------------------------------------------
(* PosixWritableFile: the size it keeps, the preallocation of WritableFile *)
(* and the truncation on Close.                                            *)

\* A file opened anew is not opened with O_APPEND: its writes go where the last one ended.
PlainInit ==
  \E reopen \in BOOLEAN :
    /\ rep = [file |-> IF reopen THEN <<0>> ELSE <<>>, filesize |-> 0, offset |-> 0, append |-> reopen, last_block |-> 0,
              open |-> TRUE]
    /\ model = [appended |-> rep.file, sure |-> ~reopen, astray |-> FALSE]

PrepareWrite ==
  /\ rep.open /\ UNCHANGED model
  /\ rep' = [rep EXCEPT !.last_block = Max({@, (Len(rep.file) + Page) \div Page})]
\* fault: bytes already on disk are not counted
Uncounted(size, n) == size
Counted(size, n) == size + n
WriteAt == IF rep.append THEN Len(rep.file) ELSE rep.offset
Grown(file, bytes) == Over(Resized(file, Max({Len(file), WriteAt})), WriteAt, bytes)
AppendPlain(n) ==
  LET bytes == [i \in 1..n |-> WriteAt + i] IN
  /\ rep.open /\ WriteAt + n <= MaxBytes
  /\ \/ /\ rep' = [rep EXCEPT !.file = Grown(@, bytes), !.filesize = Counted(@, n), !.offset = WriteAt + n]
        /\ model' = [model EXCEPT !.appended = @ \o bytes, !.astray = @ \/ WriteAt # Len(model.appended)]
     \/ \E k \in 0..(n - 1) :                                                             \* an error after k bytes
          /\ rep' = [rep EXCEPT !.file = Grown(@, SubSeq(bytes, 1, k)), !.offset = WriteAt + k]
          /\ model' = [model EXCEPT !.sure = FALSE]
Truncate(n) ==
  /\ rep.open
  /\ \/ /\ rep' = [rep EXCEPT !.file = Resized(@, n), !.filesize = n]
        /\ model' = [model EXCEPT !.appended = Resized(@, n)]
     \/ UNCHANGED <<rep, model>>
ClosePlain ==
  /\ rep.open /\ UNCHANGED model
  /\ rep' = [rep EXCEPT !.open = FALSE, !.file = IF rep.last_block > 0 THEN Resized(@, rep.filesize) ELSE @]

PlainNext == PrepareWrite \/ (\E n \in 1..MaxBytes : AppendPlain(n) \/ Truncate(n - 1)) \/ ClosePlain

\* A file opened new to which every append succeeded holds all of them, cut
\* or padded as Truncate was told, after Close has cut off what was
\* preallocated too (PosixWritableFile::Close), as long as no append went
\* astray: after Truncate the descriptor still stands where it stood, and the
\* next append leaves a gap or writes into the padding.  A file that was
\* reopened starts with a size of 0, and an append that failed leaves bytes
\* nobody counted.
PlainExact == model.sure /\ ~model.astray => rep.file = model.appended /\ rep.filesize = Len(rep.file)

-----------------------------------------------------------------------------
(* InputBuffer over a RandomAccessFile: [pos, Len(buf)) is the unread part *)
(* of the buffer.  model.at is where the reader is in the file.            *)

Newline == 10
Return_ == 13
InputInit ==
  /\ \E file \in UNION {[1..n -> {1, Newline, Return_}] : n \in 0..MaxBytes} :
       rep = [file |-> file, file_pos |-> 0, buf |-> <<>>, pos |-> 0]
  /\ model = [at |-> 0, op |-> "none", want |-> 0, got |-> <<>>, expect |-> <<>>, ok |-> TRUE]

Tell(r) == r.file_pos - (Len(r.buf) - r.pos)
FillBuffer(r, bad) ==
  LET data == IF bad THEN <<>> ELSE SubSeq(r.file, r.file_pos + 1, Min({r.file_pos + BufSize, Len(r.file)}))
  IN [r EXCEPT !.buf = data, !.pos = 0, !.file_pos = @ + Len(data)]
Unread(r) == SubSeq(r.buf, r.pos + 1, Len(r.buf))

\* The loop shared by ReadNBytes and SkipNBytes; bad: the file cannot be read.
Take(n, bad) ==
  LET Body(s, i) ==
        IF s.left = 0 \/ s.end THEN s
        ELSE LET filled == IF s.r.pos = Len(s.r.buf) THEN FillBuffer(s.r, bad) ELSE s.r
                 some == SubSeq(Unread(filled), 1, Min({s.left, Len(Unread(filled))}))
             IN [r |-> [filled EXCEPT !.pos = @ + Len(some)], left |-> s.left - Len(some), out |-> s.out \o some,
                 end |-> filled.buf = <<>>, ok |-> IF filled.buf = <<>> THEN ~bad ELSE s.ok]
  IN FoldLeft(Body, [r |-> rep, left |-> n, out |-> <<>>, end |-> FALSE, ok |-> TRUE], [i \in 1..(n + 1) |-> i])
Rest == SubSeq(rep.file, model.at + 1, Len(rep.file))
ReadNBytes(n, bad) ==
  LET s == Take(n, bad) IN
  /\ rep' = s.r
  /\ model' = [at |-> model.at + Len(s.out), op |-> "read", want |-> n, got |-> s.out, ok |-> s.ok,
               expect |-> SubSeq(Rest, 1, IF bad THEN Len(s.out) ELSE Min({n, Len(Rest)}))]
SkipNBytes(n, bad) ==
  LET s == Take(n, bad) IN
  /\ rep' = s.r
  /\ model' = [at |-> model.at + (IF bad THEN Len(s.out) ELSE Min({n, Len(Rest)})), op |-> "skip", want |-> n, got |-> <<>>,
               ok |-> s.ok, expect |-> <<>>]
Upto(s, b) == SubSeq(s, 1, SelectInSeq(s, LAMBDA x : x = b) - 1)
Stripped(line) == IF line # <<>> /\ Last(line) = Return_ THEN Front(line) ELSE line
ReadLine ==
  LET Body(s, i) ==
        IF s.end THEN s
        ELSE IF Newline \in {Unread(s.r)[k] : k \in DOMAIN Unread(s.r)}
             THEN [r |-> [s.r EXCEPT !.pos = @ + Len(Upto(Unread(s.r), Newline)) + 1],
                   out |-> s.out \o Upto(Unread(s.r), Newline), end |-> TRUE]
             ELSE LET filled == FillBuffer(s.r, FALSE)
                  IN [r |-> filled, out |-> s.out \o Unread(s.r), end |-> filled.buf = <<>>]
      s == FoldLeft(Body, [r |-> rep, out |-> <<>>, end |-> FALSE], [i \in 1..(MaxBytes + 2) |-> i])
      whole == Newline \notin {Rest[k] : k \in DOMAIN Rest}
      line == IF whole THEN Rest ELSE Upto(Rest, Newline)
  IN /\ rep' = s.r
     /\ model' = [at |-> model.at + (IF whole THEN Len(Rest) ELSE Len(line) + 1), op |-> "line", want |-> 0,
                  got |-> Stripped(s.out), expect |-> Stripped(line), ok |-> TRUE]
Buffered(r, p) == p >= r.file_pos - Len(r.buf) /\ p < r.file_pos
\* fault: the position counts from the end of the buffer
FromLimit(r, p) == Len(r.buf) - (r.file_pos - p) - 1
InBuffer(r, p) == p - (r.file_pos - Len(r.buf))
Seek(p) ==
  /\ rep' = IF Buffered(rep, p) THEN [rep EXCEPT !.pos = InBuffer(rep, p)]
            ELSE [rep EXCEPT !.buf = <<>>, !.pos = 0, !.file_pos = p]
  /\ model' = [model EXCEPT !.at = p, !.op = "seek", !.got = <<>>, !.expect = <<>>]

InputNext ==
  \/ \E n \in 1..MaxBytes, bad \in BOOLEAN : ReadNBytes(n, bad) \/ SkipNBytes(n, bad)
  \/ ReadLine
  \/ \E p \in 0..MaxBytes : Seek(p)

\* Whatever was read, skipped or sought before, and wherever the buffer
\* happens to end, a read returns the bytes of the file at the reader's
\* position, a line without its line end, Tell is that position, and a read
\* returns OK if it got all the bytes it was asked for and only then, but for
\* the one case in which InputBuffer's header says otherwise than its code:
\* the file has ended.
InputExact ==
  /\ model.op = "read" =>
       /\ Len(model.got) = model.want => model.ok
       /\ model.ok => Len(model.got) = model.want \/ model.at >= Len(rep.file)
  /\ model.got = model.expect /\ Tell(rep) = model.at
  /\ rep.pos <= Len(rep.buf) /\ rep.buf = SubSeq(rep.file, rep.file_pos - Len(rep.buf) + 1, rep.file_pos)

-----------------------------------------------------------------------------
(* safe_write_file: a temporary file, fsync, rename and fsync of the       *)
(* directory, with a crash after any step.  names is what a crash can find *)
(* under the name: a value, and whether its bytes were flushed.  model is  *)
(* what the caller knows: the value of the last call that returned success *)
(* (acked) and those of the calls since (tried); unsynced is that success  *)
(* was returned for a value whose directory entry may not be on disk.      *)

Values == 1..2
Torn == -1
SafeInit ==
  /\ rep = [pc |-> "idle", val |-> 0, cache |-> 0, tmp |-> 0, flushed |-> FALSE, names |-> {[val |-> 0, flushed |-> TRUE]}]
  /\ model = [acked |-> 0, tried |-> {}, unsynced |-> FALSE, found |-> 0]

Vals(names) == {n.val : n \in names}
Give(from, tmp) == rep.pc = from /\ rep' = [rep EXCEPT !.pc = "idle", !.tmp = tmp] /\ UNCHANGED model
safe_read_file == rep.cache
\* A file that has the content already is left alone, and success returned, also when the call that
\* wrote it failed to flush the directory.
safe_write_file(v) ==
  /\ rep.pc = "idle"
  /\ IF safe_read_file = v
     THEN UNCHANGED rep /\ model' = [model EXCEPT !.acked = v, !.tried = {}, !.unsynced = Vals(rep.names) # {v}]
     ELSE /\ rep' = [rep EXCEPT !.pc = "open", !.val = v]
          /\ model' = [model EXCEPT !.tried = @ \cup {v}]
OpenTmp ==
  \/ rep.pc = "open" /\ rep' = [rep EXCEPT !.pc = "write", !.tmp = Torn, !.flushed = FALSE] /\ UNCHANGED model
  \/ Give("open", rep.tmp)
WriteTmp ==
  \/ rep.pc = "write" /\ rep' = [rep EXCEPT !.pc = "fsync", !.tmp = rep.val] /\ UNCHANGED model
  \/ Give("write", Torn)                                              \* the temporary file stays
\* fault: the bytes are not flushed before the rename
NotFlushed(flushed) == flushed
Flushed(flushed) == TRUE
FsyncTmp ==
  \/ rep.pc = "fsync" /\ rep' = [rep EXCEPT !.pc = "rename", !.flushed = Flushed(@)] /\ UNCHANGED model
  \/ Give("fsync", 0)
Entry == [val |-> rep.tmp, flushed |-> rep.flushed]
RenameTmp ==
  \/ /\ rep.pc = "rename"
     /\ rep' = [rep EXCEPT !.pc = "dir", !.cache = rep.tmp, !.tmp = 0, !.names = @ \cup {Entry}] /\ UNCHANGED model
  \/ Give("rename", 0)
FsyncDir ==
  \/ /\ rep.pc = "dir"
     /\ rep' = [rep EXCEPT !.pc = "idle", !.names = {n \in @ : n.val = rep.cache}]
     /\ model' = [model EXCEPT !.acked = rep.val, !.tried = {}, !.unsynced = FALSE]
  \/ Give("dir", 0)
Crash ==
  \E n \in rep.names, whole \in BOOLEAN :
    LET found == IF n.flushed \/ whole THEN n.val ELSE Torn
    IN /\ rep' = [rep EXCEPT !.pc = "idle", !.cache = found, !.tmp = 0, !.names = {[val |-> found, flushed |-> TRUE]}]
       /\ model' = [acked |-> found, tried |-> {}, unsynced |-> FALSE, found |-> found]

SafeNext == (\E v \in Values : safe_write_file(v)) \/ OpenTmp \/ WriteTmp \/ FsyncTmp \/ RenameTmp \/ FsyncDir \/ Crash

\* After a crash at any step of safe_write_file, and after any failures
\* before it, the file holds a whole value; and what a crash can find is the
\* value last acknowledged or one of a call since, unless that success was the
\* early one, of a call that finds the content in place and does not flush the
\* directory entry an earlier call has left behind.
CrashAtomic == model.found # Torn /\ (model.unsynced \/ Vals(rep.names) \subseteq {model.acked} \cup model.tried)

-----------------------------------------------------------------------------
(* RollFile: one file written to, up to RollNum - 1 older ones beside it.  *)
(* Messages are numbered; a modification time is in seconds.               *)

Missing == [msgs |-> <<>>, mtime |-> -1]
RollInit ==
  /\ rep = [open |-> FALSE, cur |-> Missing, old |-> [i \in 1..(RollNum - 1) |-> Missing], now |-> 0]
  /\ model = [written |-> 0, tied |-> FALSE]

Absent(r) == {i \in DOMAIN r.old : r.old[i] = Missing}
\* fault: the file touched last is overwritten
YoungestOf(r) == CHOOSE i \in DOMAIN r.old : \A j \in DOMAIN r.old : r.old[j].mtime <= r.old[i].mtime
OldestOf(r) ==
  LET least == Min({r.old[j].mtime : j \in DOMAIN r.old})
  IN Min({i \in DOMAIN r.old : r.old[i].mtime = least})
RollTo(r) == IF Absent(r) # {} THEN Min(Absent(r)) ELSE OldestOf(r)
Roll(r) == IF RollNum = 1 THEN [r EXCEPT !.cur = Missing] ELSE [r EXCEPT !.old[RollTo(r)] = r.cur, !.cur = Missing]
Tied(r) ==
  /\ Absent(r) = {}
  /\ \E i, j \in DOMAIN r.old : i # j /\ r.old[i].mtime = r.old[j].mtime
GetFile(r) == IF r.open /\ Len(r.cur.msgs) > MaxSize THEN Roll(r) ELSE r
WriteRoll ==
  /\ model.written < MaxLogs
  /\ LET r == GetFile(rep)
         rolled == r.cur # rep.cur
     IN \/ /\ rep' = [r EXCEPT !.open = TRUE, !.cur = [msgs |-> Append(@.msgs, model.written + 1), mtime |-> rep.now]]
           /\ model' = [written |-> model.written + 1, tied |-> model.tied \/ (rolled /\ Tied(rep))]
        \/ /\ rep' = [r EXCEPT !.open = rep.open /\ ~rolled]               \* the file cannot be opened
           /\ rolled \/ ~rep.open
           /\ model' = [model EXCEPT !.tied = @ \/ (rolled /\ Tied(rep))]
CloseRoll == rep.open /\ rep' = [rep EXCEPT !.open = FALSE] /\ UNCHANGED model
Second == rep.now < MaxLogs /\ rep' = [rep EXCEPT !.now = @ + 1] /\ UNCHANGED model
RollNext == WriteRoll \/ CloseRoll \/ Second

\* Rolling throws away the oldest messages only: what the files together
\* still hold are the last messages written, none missing in between,
\* unless two old files were last written in the same second
\* (RollFile::Roll).
RollKeepsNewest ==
  LET kept == ToSet(rep.cur.msgs) \cup UNION {ToSet(rep.old[i].msgs) : i \in DOMAIN rep.old}
  IN ~model.tied => \E first \in 1..(model.written + 1) : kept = first..model.written

-----------------------------------------------------------------------------
(* BDAsyncLogger: loggers append to buffer_queue_, one thread writes what  *)
(* it swapped into bg_queue_ and starts a new file when the old one is     *)
(* full; a logger of an error waits in flush until it is written.  0 is    *)
(* the entry of a flush.  files is the log in the order of the files, with *)
(* the messages fflush has not pushed out yet in unflushed.                *)

LogInit ==
  /\ rep = [queue |-> <<>>, bg |-> <<>>, wpc |-> "drain", stopped |-> FALSE, size |-> 0, loglen |-> FALSE, files |-> <<<<>>>>,
            removed |-> 0, unflushed |-> <<>>, pc |-> [c \in Clients |-> "idle"]]
  /\ model = [logged |-> 0, errors |-> [c \in Clients |-> 0], durable |-> {}, early |-> {}]

Signalled(wpc) == IF wpc = "wait" THEN "woken" ELSE wpc
Waiting == {c \in Clients : rep.pc[c] = "waiting"}
writeLog(c, error) ==
  /\ rep.pc[c] = "idle" /\ model.logged < MaxLogs /\ ~rep.stopped
  /\ rep' = [rep EXCEPT !.queue = Append(@, model.logged + 1), !.wpc = Signalled(@), !.pc[c] = IF error THEN "flush" ELSE "idle"]
  /\ model' = [model EXCEPT !.logged = @ + 1, !.errors[c] = IF error THEN model.logged + 1 ELSE 0, !.early = @ \ {c}]
flush(c) ==
  /\ rep.pc[c] = "flush"
  /\ rep' = [rep EXCEPT !.queue = Append(@, 0), !.wpc = Signalled(@), !.pc[c] = "waiting"] /\ UNCHANGED model
FlushEarly(c) ==                                         \* done_.wait() is in no loop: a spurious wakeup ends the flush
  /\ rep.pc[c] = "waiting"
  /\ rep' = [rep EXCEPT !.pc[c] = "idle"] /\ model' = [model EXCEPT !.early = @ \cup {c}]
NewLog(r) ==                                             \* fclose writes out what was buffered
  LET all == [r.files EXCEPT ![Len(r.files)] = @ \o r.unflushed]
      files == Append(all, <<>>)
  IN [r EXCEPT !.files = files, !.unflushed = <<>>, !.removed = Max({@, Len(files) - RollNum})]
BDGetNewLog(r, ok) == IF ok THEN NewLog(r) ELSE r
Written(r) == ToSet(FlattenSeq(r.files))
asyncWriter(ok) ==
  /\ rep.wpc = "drain" /\ rep.bg # <<>>
  /\ LET m == Head(rep.bg)
         full == m # 0 /\ rep.size + 1 > MaxSize
         r == IF full THEN [BDGetNewLog(rep, ok) EXCEPT !.size = 0] ELSE rep
         written == IF m = 0 THEN r ELSE [r EXCEPT !.unflushed = Append(@, m), !.size = @ + 1, !.loglen = TRUE]
     IN /\ ~full => ok
        /\ rep' = [written EXCEPT !.bg = Tail(@)]
        /\ model' = [model EXCEPT !.durable = @ \cup Written(written)]
\* fault: the queue is swapped only once
NoSecondLook(queue) == FALSE
More(queue) == queue # <<>>
SwapQueues ==
  /\ rep.wpc = "drain" /\ rep.bg = <<>> /\ More(rep.queue)
  /\ rep' = [rep EXCEPT !.bg = rep.queue, !.queue = <<>>] /\ UNCHANGED model
\* fault: what was written is not flushed
KeepBuffered(r) == r
FlushFile(r) ==
  IF r.loglen THEN [r EXCEPT !.files[Len(r.files)] = @ \o r.unflushed, !.unflushed = <<>>] ELSE r
AllWritten ==
  /\ rep.wpc = "drain" /\ rep.bg = <<>> /\ ~More(rep.queue)
  /\ rep' = [FlushFile(rep) EXCEPT !.wpc = IF rep.stopped THEN "over" ELSE "wait",
                                   !.pc = [c \in Clients |-> IF c \in Waiting THEN "idle" ELSE @[c]]]
  /\ model' = [model EXCEPT !.durable = @ \cup Written(FlushFile(rep))]
Wake(from) == rep.wpc = from /\ rep' = [rep EXCEPT !.wpc = "drain", !.loglen = FALSE] /\ UNCHANGED model
WakeWriter == Wake("woken")
WakeEarly == Wake("wait")                                \* nor is jobs_.wait(): the writer looks once more
DestroyLogger ==
  /\ ~rep.stopped /\ \A c \in Clients : rep.pc[c] = "idle"
  /\ rep' = [rep EXCEPT !.stopped = TRUE, !.wpc = Signalled(@)] /\ UNCHANGED model

WriterStep == (\E ok \in BOOLEAN : asyncWriter(ok)) \/ SwapQueues \/ AllWritten \/ WakeWriter
LogNext ==
  \/ \E c \in Clients : (\E error \in BOOLEAN : writeLog(c, error)) \/ flush(c) \/ FlushEarly(c)
  \/ WriterStep \/ WakeEarly \/ DestroyLogger

\* Every message is in the log once and in the order it was queued, whatever
\* file it went to; the messages of a logger that returned from flush, unless
\* a spurious wakeup let it return, which is all flush is exposed to, and
\* after the logger is destroyed all messages, have been pushed out of the
\* writer's buffers; and the file being written is never one of those
\* removed (BDAsyncLogger, BDGetNewLog).
LogExact ==
  LET queued == SelectSeq(rep.bg \o rep.queue, LAMBDA m : m # 0)
  IN /\ FlattenSeq(rep.files) \o rep.unflushed \o queued = [i \in 1..model.logged |-> i]
     /\ \A c \in Clients : rep.pc[c] = "idle" /\ model.errors[c] # 0 /\ c \notin model.early => model.errors[c] \in model.durable
     /\ rep.wpc = "over" => model.durable = 1..model.logged
     /\ rep.removed < Len(rep.files)

-----------------------------------------------------------------------------
(* SubProcess of util/process_util: starting, waiting, killing and         *)
(* communicating from several threads.  A channel is a pipe or has none    *)
(* (ACTION_CLOSE, ACTION_DUPPARENT); channel 1 stands for both outputs.    *)
(* Only the number of bytes in a pipe matters.  Clients communicate one at *)
(* a time.                                                                 *)

Chans == 0 .. 1
NoFd == -1
NoPid == -1
MaxStarts == 2                                           \* calls of Start that get to the pipes
MaxIn == 2                                               \* bytes of input, and of output
PipeRoom == 1
NoLocals == [run |-> FALSE, pid |-> NoPid, comm |-> FALSE]

ChildInit ==
  /\ rep = [running |-> FALSE, pid |-> NoPid, action |-> [i \in Chans |-> "close"], parent |-> [i \in Chans |-> NoFd], open |-> {},
            proc_mu |-> "", data_mu |-> "", pc |-> [t \in Clients |-> "idle"], local |-> [t \in Clients |-> NoLocals],
            fds |-> {}, want |-> 0, sent |-> 0, got |-> 0, destroyed |-> FALSE,
            kids |-> [p \in 1 .. MaxStarts |-> "none"], in |-> 0, out |-> 0, wrote |-> 0]
  /\ model = [starts |-> 0, leaked |-> {}, twice |-> FALSE, cut |-> FALSE, short |-> FALSE]

Piped == {i \in Chans : rep.action[i] = "pipe"}
Fds(chans) == {rep.parent[i] : i \in chans} \ {NoFd}
Running(p) == p \in DOMAIN rep.kids /\ rep.kids[p] = "running"
Kid == Running(model.starts)

\* SetChannelAction, SetProgram and Start take proc_mu_, then data_mu_.
LockBoth(t) ==
  /\ rep.pc[t] = "idle" /\ rep.proc_mu = "" /\ ~rep.destroyed /\ UNCHANGED model
  /\ rep' = [rep EXCEPT !.proc_mu = t, !.pc[t] = "both"]
SetChannelAction(t, i, action) ==
  /\ rep.pc[t] = "both" /\ rep.data_mu = "" /\ UNCHANGED model
  /\ rep' = [rep EXCEPT !.action[i] = IF rep.running THEN @ ELSE action, !.proc_mu = "", !.pc[t] = "idle"]

\* The pipes of n channels are made, over those of the process before, and
\* then something fails, or fork succeeds.
StartFails(t, n) ==
  LET lost == Fds({i \in Piped : i < n}) IN
  /\ rep.pc[t] = "both" /\ rep.data_mu = "" /\ ~rep.running /\ model.starts < MaxStarts
  /\ rep' = [rep EXCEPT !.open = @ \ (Fds(Chans) \ lost), !.parent = [i \in Chans |-> NoFd], !.proc_mu = "", !.pc[t] = "idle"]
  /\ model' = [model EXCEPT !.leaked = @ \cup lost]
Start(t) ==
  LET pid == model.starts + 1
      new == [i \in Chans |-> IF i \in Piped THEN Max(rep.open \cup {0}) + 1 + i ELSE rep.parent[i]]
  IN /\ rep.pc[t] = "both" /\ rep.data_mu = "" /\ ~rep.running /\ model.starts < MaxStarts
     /\ rep' = [rep EXCEPT !.running = TRUE, !.pid = pid, !.parent = new, !.open = @ \cup {new[i] : i \in Piped},
                           !.kids[pid] = "running", !.in = 0, !.out = 0, !.wrote = 0, !.proc_mu = "", !.pc[t] = "idle"]
     /\ model' = [model EXCEPT !.starts = pid, !.leaked = @ \cup Fds(Piped)]

\* Wait, and the end of Communicate: WaitInternal.
WaitLook(t) ==
  /\ rep.pc[t] \in {"idle", "wait"} /\ rep.proc_mu = "" /\ ~rep.destroyed /\ UNCHANGED model
  /\ rep' = [rep EXCEPT !.local[t].run = rep.running, !.local[t].pid = rep.pid,
                        !.pc[t] = IF rep.running THEN "waitpid" ELSE "forget"]
waitpid(t) ==
  LET pid == rep.local[t].pid IN
  /\ rep.pc[t] = "waitpid" /\ ~Running(pid) /\ UNCHANGED model
  /\ rep' = [rep EXCEPT !.kids[pid] = "reaped", !.pc[t] = "forget", !.in = IF pid = model.starts THEN 0 ELSE @]
\* fault: a waiter forgets the process whichever it is
AnyProcess(l, running, pid) == TRUE
SameProcess(l, running, pid) == running = l.run /\ pid = l.pid
Forget(t) ==
  LET same == SameProcess(rep.local[t], rep.running, rep.pid) IN
  /\ rep.pc[t] = "forget" /\ rep.proc_mu = "" /\ UNCHANGED model
  /\ rep' = [rep EXCEPT !.running = IF same THEN FALSE ELSE @, !.pid = IF same THEN NoPid ELSE @,
                        !.pc[t] = "idle", !.local[t] = NoLocals]

KillLook(t) ==
  /\ rep.pc[t] = "idle" /\ rep.proc_mu = "" /\ rep.running /\ UNCHANGED model
  /\ rep' = [rep EXCEPT !.local[t].pid = rep.pid, !.pc[t] = "kill"]
kill(t) ==
  LET pid == rep.local[t].pid IN
  /\ rep.pc[t] = "kill" /\ UNCHANGED model
  /\ rep' = [rep EXCEPT !.kids[pid] = IF @ = "running" THEN "zombie" ELSE @, !.pc[t] = "idle", !.local[t] = NoLocals]

CommLook(t) ==
  /\ rep.pc[t] = "idle" /\ rep.proc_mu = "" /\ rep.running /\ \A u \in Clients : ~rep.local[u].comm
  /\ rep' = [rep EXCEPT !.local[t].comm = TRUE, !.pc[t] = "comm"] /\ UNCHANGED model
CloseStdin(r) ==
  [r EXCEPT !.open = @ \ {r.parent[0]}, !.parent[0] = NoFd, !.fds = @ \ {0}]
ClosedTwice == model' = [model EXCEPT !.twice = @ \/ rep.parent[0] \notin rep.open \cup {NoFd}]
\* Without input the pipe to the child is closed and not polled.
CommLock(t, null, want) ==
  LET r == [rep EXCEPT !.data_mu = t, !.fds = Piped, !.want = want, !.sent = 0, !.got = 0, !.pc[t] = "poll"] IN
  /\ rep.pc[t] = "comm" /\ rep.data_mu = ""
  /\ IF null /\ 0 \in Piped THEN rep' = CloseStdin(r) /\ ClosedTwice ELSE rep' = r /\ UNCHANGED model
\* poll ignores a descriptor below 0, which still counts in fd_remain
Polled(i) == i \in rep.fds /\ rep.parent[i] # NoFd
CommRead(t, n) ==
  /\ rep.pc[t] = "poll" /\ Polled(1) /\ n \in 1 .. rep.out
  /\ rep' = [rep EXCEPT !.out = @ - n, !.got = @ + n] /\ UNCHANGED model
\* fault: the first empty read is taken for the end
EmptyIsEnd(out, alive) == out = 0
AtEnd(out, alive) == out = 0 /\ ~alive
CommEof(t) ==
  /\ rep.pc[t] = "poll" /\ Polled(1) /\ AtEnd(rep.out, Kid)
  /\ rep' = [rep EXCEPT !.fds = @ \ {1}] /\ UNCHANGED model
CommWrite(t, n) ==
  LET r == [rep EXCEPT !.in = @ + n, !.sent = @ + n] IN
  /\ rep.pc[t] = "poll" /\ Polled(0) /\ n <= rep.want - rep.sent /\ n + rep.in <= PipeRoom
  /\ IF n = 0 THEN rep.want = rep.sent ELSE Kid
  /\ IF r.sent = r.want THEN rep' = CloseStdin(r) /\ ClosedTwice ELSE rep' = r /\ UNCHANGED model
\* EPIPE when the child is gone
CommBroken(t) ==
  /\ rep.pc[t] = "poll" /\ Polled(0) /\ rep.sent < rep.want /\ ~Kid
  /\ rep' = [rep EXCEPT !.fds = @ \ {0}] /\ model' = [model EXCEPT !.cut = TRUE]
CommFails(t) ==                                          \* poll, or a read or write, fails
  /\ rep.pc[t] = "poll" /\ rep.fds # {} /\ \E left \in {{}} \cup {rep.fds \ {i} : i \in {j \in rep.fds : Polled(j)}} : rep' = [rep EXCEPT !.fds = left]
  /\ model' = [model EXCEPT !.cut = TRUE]
Short == (1 \in Piped /\ rep.got # rep.wrote) \/ rep.sent \notin {0, rep.want}
CommEnd(t) ==
  /\ rep.pc[t] = "poll" /\ rep.fds = {} /\ rep' = [rep EXCEPT !.data_mu = "", !.pc[t] = "wait", !.want = 0, !.sent = 0, !.got = 0]
  /\ model' = [model EXCEPT !.short = @ \/ (~model.cut /\ Short), !.cut = FALSE]
Communicate(t) ==
  \/ CommLook(t) \/ CommEof(t) \/ CommBroken(t) \/ CommFails(t) \/ CommEnd(t)
  \/ \E null \in BOOLEAN, want \in 0 .. MaxIn : CommLock(t, null, want)
  \/ \E n \in 0 .. MaxIn : CommRead(t, n) \/ CommWrite(t, n)

\* The child, which is not under control: it reads, writes and ends.
KidRead == Kid /\ rep.in > 0 /\ rep' = [rep EXCEPT !.in = @ - 1]
KidWrite ==
  /\ Kid /\ 1 \in Piped /\ rep.wrote < MaxIn /\ rep.out < PipeRoom
  /\ rep' = [rep EXCEPT !.out = @ + 1, !.wrote = @ + 1]
KidExit == Kid /\ rep' = [rep EXCEPT !.kids[model.starts] = "zombie"]

DestroySub ==
  /\ ~rep.destroyed /\ \A t \in Clients : rep.pc[t] = "idle"
  /\ rep' = [rep EXCEPT !.destroyed = TRUE, !.running = FALSE, !.pid = NoPid, !.open = @ \ Fds(Chans),
                        !.parent = [i \in Chans |-> NoFd]]
  /\ UNCHANGED model

ChildNext ==
  \/ \E t \in Clients :
       \/ LockBoth(t) \/ Start(t) \/ WaitLook(t) \/ waitpid(t) \/ Forget(t) \/ KillLook(t) \/ kill(t) \/ Communicate(t)
       \/ \E i \in Chans, action \in {"close", "pipe"} : SetChannelAction(t, i, action)
       \/ \E n \in 0 .. Cardinality(Chans) : StartFails(t, n)
  \/ (KidRead \/ KidWrite \/ KidExit) /\ UNCHANGED model
  \/ DestroySub

\* A SubProcess is not running exactly when every process it started has been
\* reaped, although a waiter may come late and find another one in its place;
\* Communicate stops reading when it has got all that the child wrote and
\* writing when all is sent, unless something fails or the child is gone; the
\* open descriptors are those of the pipes it still has, closed once, and at
\* the end none but the ones that another Start overwrote.
ChildExact ==
  /\ ~rep.running /\ ~rep.destroyed => \A p \in 1 .. model.starts : rep.kids[p] = "reaped"
  /\ ~model.short /\ ~model.twice /\ rep.open = Fds(Chans) \cup model.leaked /\ Fds(Chans) \cap model.leaked = {}

-----------------------------------------------------------------------------
(* PinkCli and SocketBreaker of util/socket_util.  The bytes that the peer *)
(* sends are numbered; a byte of the client is <<message, position>>.  A   *)
(* descriptor is the lowest free number.                                   *)

Size == 2                                                \* bytes of a message, and at most of one RecvRaw
MaxConnects == 2                                         \* calls of Connect
MaxSends == 2                                            \* calls of SendRaw
NewFd(open) == Min((1 .. MaxConnects) \ open)

SocketInit ==
  /\ rep = [available |-> FALSE, sockfd |-> NoFd, open |-> {}, timed |-> FALSE, call |-> "none", nleft |-> 0, pos |-> 0,
            rbuf |-> <<>>, wire |-> <<>>, arrived |-> 0, taken |-> 0, eof |-> FALSE]
  /\ model = [connects |-> 0, sends |-> 0, start |-> 0, ret |-> "none", again |-> FALSE, lost |-> {}, stray |-> FALSE]

Connected == rep.sockfd \in rep.open
\* What a client that connects again gives up: its open socket.
GivenUp == model' = [model EXCEPT !.connects = @ + 1, !.ret = "none", !.again = @ \/ rep.available,
                                  !.lost = @ \cup (IF rep.available THEN {rep.sockfd} \cap rep.open ELSE {})]
\* Each address is tried with a socket of its own until one connects, fails
\* for good, or turns out to be the client itself, whose socket stays open.
ConnectOk ==
  /\ rep.call = "none" /\ model.connects < MaxConnects /\ GivenUp
  /\ rep' = [rep EXCEPT !.sockfd = NewFd(rep.open), !.open = @ \cup {NewFd(rep.open)}, !.available = TRUE, !.timed = FALSE,
                        !.rbuf = <<>>, !.wire = <<>>, !.arrived = 0, !.taken = 0, !.eof = FALSE]
ConnectFails ==
  /\ rep.call = "none" /\ model.connects < MaxConnects
  /\ \/ GivenUp /\ \E fd \in {NoFd, NewFd(rep.open)} : rep' = [rep EXCEPT !.sockfd = fd]
     \/ /\ rep' = [rep EXCEPT !.sockfd = NewFd(rep.open), !.open = @ \cup {NewFd(rep.open)}]
        /\ model' = [model EXCEPT !.connects = @ + 1, !.ret = "none", !.again = @ \/ rep.available,
                                  !.lost = @ \cup (IF rep.available THEN {rep.sockfd} \cap rep.open ELSE {NewFd(rep.open)})]
CloseSocket ==
  /\ rep.call = "none" /\ rep.available
  /\ rep' = [rep EXCEPT !.open = @ \ {rep.sockfd}, !.available = FALSE]
  /\ model' = [model EXCEPT !.stray = @ \/ ~Connected, !.lost = @ \ {rep.sockfd}, !.ret = "none"]
set_recv_timeout == rep.call = "none" /\ Connected /\ rep' = [rep EXCEPT !.timed = TRUE] /\ UNCHANGED model

\* fault: a write goes on from the start of the buffer
FromStart(pos, k) == k
GoOn(pos, k) == pos + k
SendRaw ==
  /\ rep.call = "none" /\ rep.available /\ model.sends < MaxSends
  /\ rep' = [rep EXCEPT !.call = "send", !.nleft = Size, !.pos = 0, !.rbuf = <<>>]
  /\ model' = [model EXCEPT !.sends = @ + 1, !.ret = "none"]
RecvRaw(n) ==
  /\ rep.call = "none" /\ rep.available
  /\ rep' = [rep EXCEPT !.call = "recv", !.nleft = n, !.pos = 0, !.rbuf = <<>>]
  /\ model' = [model EXCEPT !.start = rep.taken, !.ret = "none"]
WriteSome(n) ==
  /\ rep.call = "send" /\ Connected /\ n \in 1 .. rep.nleft /\ UNCHANGED model
  /\ rep' = [rep EXCEPT !.wire = @ \o [k \in 1 .. n |-> <<model.sends, GoOn(rep.pos, k)>>], !.nleft = @ - n, !.pos = @ + n]
ReadSome(n) ==
  /\ rep.call = "recv" /\ Connected /\ n \in 1 .. rep.nleft /\ rep.taken + n <= rep.arrived /\ UNCHANGED model
  /\ rep' = [rep EXCEPT !.rbuf = @ \o [k \in 1 .. n |-> rep.taken + k], !.taken = @ + n, !.nleft = @ - n, !.pos = @ + n]
RawEnd ==
  /\ rep.call # "none" /\ rep.nleft = 0
  /\ rep' = [rep EXCEPT !.call = "none"] /\ model' = [model EXCEPT !.ret = rep.call]
\* EAGAIN when the time is over, the end of the stream, or an error
RawFails ==
  /\ rep.call # "none" /\ rep.nleft > 0 /\ (rep.timed \/ rep.eof \/ ~Connected)
  /\ rep' = [rep EXCEPT !.call = "none", !.rbuf = <<>>] /\ model' = [model EXCEPT !.ret = "failed"]
PeerSends ==
  /\ Connected /\ ~rep.eof /\ rep.arrived < MaxBytes /\ rep' = [rep EXCEPT !.arrived = @ + 1] /\ UNCHANGED model
PeerCloses == Connected /\ ~rep.eof /\ rep' = [rep EXCEPT !.eof = TRUE] /\ UNCHANGED model
SocketNext ==
  \/ ConnectOk \/ ConnectFails \/ CloseSocket \/ set_recv_timeout \/ SendRaw \/ RawEnd \/ RawFails \/ PeerSends \/ PeerCloses
  \/ \E n \in 1 .. Size : RecvRaw(n) \/ WriteSome(n) \/ ReadSome(n)

\* However the kernel cuts up the transfers of a PinkCli, the stream to the
\* peer is made of messages from their first byte on, whole when SendRaw says
\* so, and RecvRaw returns the bytes that follow those of the call before; a
\* descriptor is closed once and by its owner and none is left open but those
\* of a connection to itself, unless the client connects while connected.
SocketExact ==
  /\ \A j \in DOMAIN rep.wire : rep.wire[j][2] = 1 \/ (j > 1 /\ rep.wire[j - 1] = <<rep.wire[j][1], rep.wire[j][2] - 1>>)
  /\ model.ret = "send" => Last(rep.wire) = <<model.sends, Size>>
  /\ model.ret = "recv" => rep.rbuf = [k \in 1 .. rep.pos |-> model.start + k]
  /\ model.stray => model.again
  /\ ~model.again => rep.open \ model.lost = IF rep.available THEN {rep.sockfd} ELSE {}

\* SocketBreaker: the pipe holds a byte when it is broken.  Close is also what
\* the destructor does, and ReCreate makes a new pipe.
BreakerInit ==
  /\ rep = [broken |-> FALSE, bytes |-> 0, pipe |-> TRUE, made |-> TRUE]
  /\ model = [stale |-> FALSE]
\* fault: a failed write is not noticed
BrokenAnyway(written) == TRUE
Broken(written) == written
Break ==
  /\ UNCHANGED model
  /\ \E written \in {rep.pipe, FALSE} :
       rep' = IF rep.broken THEN rep ELSE [rep EXCEPT !.broken = Broken(written), !.bytes = IF written THEN @ + 1 ELSE @]
Clear ==
  rep.pipe /\ rep.bytes > 0 /\ rep' = [rep EXCEPT !.broken = FALSE, !.bytes = 0] /\ UNCHANGED model
CloseBreaker ==
  rep' = [rep EXCEPT !.broken = TRUE, !.pipe = FALSE, !.bytes = 0] /\ model' = [stale |-> TRUE]
ReCreate ==
  \E made \in BOOLEAN :
    /\ rep' = [rep EXCEPT !.pipe = made, !.made = made, !.bytes = 0]
    /\ model' = [stale |-> rep.broken]
BreakerNext == Break \/ Clear \/ CloseBreaker \/ ReCreate

\* Whoever polls BreakerFD wakes up exactly when the SocketBreaker says that
\* it is broken, whichever calls failed before, unless it was closed or made
\* anew while it was broken.
BreakerExact == model.stale \/ (rep.broken <=> rep.bytes > 0)

=============================================================================
