------------------------------ MODULE FscqServer ------------------------------
(***************************************************************************)
(* The FUSE server of FSCQ (fscq.hs) on one file: bytes on top of the      *)
(* block calls of AsyncFS.v.  A handler holds the MVar of the file system, *)
(* so handlers do not interleave; a handler is several calls, though, and  *)
(* the machine may crash between any two.                                  *)
(*                                                                         *)
(* A block is a sequence of BlockBytes bytes.  h is the handler that is    *)
(* running.  ref, hist and past say what a user is promised: every byte of *)
(* a file is a value set, as a block of the disk is.                       *)
(***************************************************************************)
EXTENDS AfsCalls, Integers, SequencesExt

CONSTANTS BlockBytes, Byte,
          Writes,           \* offset and length of what a user writes
          FileName,
          MaxTxns,          \* bound on the transactions that wait for a flush
          MaxUnsynced       \* bound on the older values of a block when it is written in place

VARIABLES sys, h, ref, hist, past, crashed

vars == <<sys, h, ref, hist, past, crashed>>

Idle == [op |-> "idle"]

\* The file exists, is empty and is on disk.
Start == TreeSync(Create(Mkfs(Zero), Root, FileName))
File == latest(Start).dir[Root][FileName].inum

now == latest(sys)
Length64 == now.ino[File].bytes
Quiet(s) == [s EXCEPT !.err = "OK"]
MayCommit == Len(sys.pend) < MaxTxns

-----------------------------------------------------------------------------
\* compute_ranges_int: the pieces of count bytes at off, block by block.
ComputeRanges(off, count) ==
  LET first == off \div BlockBytes
      n == (off + count - 1) \div BlockBytes - first + 1
      startoff(k) == IF k = 1 THEN off % BlockBytes ELSE 0
      endoff(k) == IF k = n THEN ((off + count - 1) % BlockBytes) + 1 ELSE BlockBytes
  IN [k \in 1 .. n |-> [blk |-> first + k - 1, off |-> startoff(k),
                        cnt |-> endoff(k) - startoff(k)]]

\* compute_range_pieces: each with its bytes of the buffer.
RangePieces(off, bs) ==
  LET r == ComputeRanges(off, Len(bs))
      buf(p) == p.blk * BlockBytes + p.off - off
  IN [k \in DOMAIN r |-> [blk |-> r[k].blk, off |-> r[k].off, cnt |-> r[k].cnt,
                          bs |-> SubSeq(bs, buf(r[k]) + 1, buf(r[k]) + r[k].cnt)]]

\* fscqRead
Read(off, count) ==
  LET from == IF off < Length64 THEN off ELSE Length64
      n == IF count < Length64 - from THEN count ELSE Length64 - from
      piece(p) == SubSeq(ReadFblock(sys, File, p.blk), p.off + 1, p.off + p.cnt)
      r == ComputeRanges(from, n)
  IN FlattenSeq([k \in DOMAIN r |-> piece(r[k])])

\* Faulty variant of NoOldBytes: the write need not start at the block's start.
NoOldBytesAnyStart(p, len) ==
  len <= p.blk * BlockBytes \/ len <= p.blk * BlockBytes + p.cnt

\* A partial write of a block that the file did not reach, or that replaces
\* all that the file had in it, is not a read-modify-write.
NoOldBytes(p, len) ==
  len <= p.blk * BlockBytes \/ (p.off = 0 /\ len <= p.blk * BlockBytes + p.cnt)

NewBlock(p, len) ==
  LET old == IF NoOldBytes(p, len) THEN Zero ELSE ReadFblock(sys, File, p.blk)
  IN IF p.cnt = BlockBytes THEN p.bs
     ELSE SubSeq(old, 1, p.off) \o p.bs \o SubSeq(old, p.off + p.cnt + 1, BlockBytes)

-----------------------------------------------------------------------------
(***************************************************************************)
(* What a user is promised.  ref is the file; hist holds the contents, ref *)
(* among them, that a crash may leave; past those from before the file was *)
(* truncated, which syncing the file does not reach any more.  crashed     *)
(* says whether there has been a crash.                                    *)
(***************************************************************************)
Covers(off, bs, k) == off < k /\ k <= off + Len(bs)

\* What the gap between the end of the file and a write past it reads as:
\* zeros.  Not so in the block that the file ended in after a crash: a write
\* in place into an earlier gap, which went to the disk although the growth of
\* the file was lost, may be found there.
Gap(c, k) ==
  LET blk == (k - 1) \div BlockBytes
      at == ((k - 1) % BlockBytes) + 1
      vs == now.data[now.ino[File].blocks[blk + 1]]
  IN IF crashed /\ blk * BlockBytes < Len(c)
       THEN [cur |-> vs.cur[at], old |-> {v[at] : v \in vs.old}] ELSE Settled(0)

\* A write past the end: all of it or nothing.
Extended(c, off, bs) ==
  [k \in 1 .. off + Len(bs) |->
     IF Covers(off, bs, k) THEN Settled(bs[k - off])
     ELSE IF k <= Len(c) THEN c[k] ELSE Gap(c, k)]

\* A write in place: byte by byte, on the disk when the file is synced.
Replaced(c, off, bs) ==
  [k \in DOMAIN c |-> IF Covers(off, bs, k) THEN Overwrite(c[k], bs[k - off]) ELSE c[k]]

Durable(c) == [k \in DOMAIN c |-> Settled(c[k].cur)]

-----------------------------------------------------------------------------
Init ==
  /\ sys = Start
  /\ h = Idle
  /\ ref = <<>> /\ hist = {<<>>} /\ past = {} /\ crashed = FALSE

\* Faulty variant of DoLog: an append is written past the log.
DoLogNever(append) == FALSE

\* Appends go through the log, writes within the file past it.
DoLog(append) == append

\* fscqWrite, up to the first piece.
StartWrite(off, bs) ==
  LET end == off + Len(bs)
      append == Length64 < end
      s == IF append THEN FileTruncate(sys, File, (end + BlockBytes - 1) \div BlockBytes)
           ELSE sys
  IN /\ h = Idle
     /\ IF append THEN MayCommit
        ELSE \A b \in Block : Cardinality(now.data[b].old) < MaxUnsynced
     /\ sys' = Quiet(s)
     /\ h' = IF s.err = "OK"
               THEN [op |-> "write", off |-> off, bs |-> bs, len |-> Length64,
                     append |-> append, rest |-> RangePieces(off, bs)]
               ELSE Idle
     /\ UNCHANGED <<ref, hist, past, crashed>>

\* write_piece
WritePiece ==
  LET p == Head(h.rest)
      b == NewBlock(p, h.len)
      at == p.blk * BlockBytes + p.off
  IN /\ h.op = "write" /\ h.rest # <<>>
     /\ sys' = Quiet(IF DoLog(h.append) THEN UpdateFblock(sys, File, p.blk, b)
                                        ELSE UpdateFblockD(sys, File, p.blk, b))
     /\ h' = [h EXCEPT !.rest = Tail(@)]
     /\ IF h.append THEN UNCHANGED <<ref, hist>>
        ELSE /\ ref' = Replaced(ref, at, p.bs)
             /\ hist' = {Replaced(c, at, p.bs) : c \in hist}
     /\ UNCHANGED <<past, crashed>>

EndWrite ==
  /\ h.op = "write" /\ h.rest = <<>>
  /\ h' = Idle
  /\ IF h.append
       THEN /\ sys' = Quiet(FileSetSz(sys, File, h.off + Len(h.bs)))
            /\ ref' = Extended(ref, h.off, h.bs)
            /\ hist' = hist \cup {ref'}
       ELSE UNCHANGED <<sys, ref, hist>>
  /\ UNCHANGED <<past, crashed>>

\* fscqOpen with O_TRUNC: two transactions.
OpenTrunc ==
  /\ h = Idle /\ MayCommit
  /\ sys' = Quiet(FileTruncate(sys, File, 0))
  /\ h' = [op |-> "trunc"]
  /\ UNCHANGED <<ref, hist, past, crashed>>

EndTrunc ==
  /\ h.op = "trunc"
  /\ sys' = Quiet(FileSetSz(sys, File, 0))
  /\ h' = Idle
  /\ ref' = <<>> /\ hist' = {<<>>} /\ past' = past \cup hist
  /\ UNCHANGED crashed

\* fscqSyncFile: fdatasync, and the first half of fsync.
SyncFile(full) ==
  /\ h = Idle
  /\ sys' = FileSync(sys, File)
  /\ ref' = Durable(ref) /\ hist' = {Durable(c) : c \in hist}
  /\ h' = IF full THEN [op |-> "sync"] ELSE Idle
  /\ UNCHANGED <<past, crashed>>

\* The second half of fsync; fscqSyncDir, and fsync of any other file, at any time.
SyncTree ==
  /\ h = Idle \/ h.op = "sync"
  /\ sys' = TreeSync(sys)
  /\ h' = Idle
  /\ hist' = {ref} /\ past' = {}
  /\ UNCHANGED <<ref, crashed>>

\* The next call writes to a block that a pending transaction wrote.
FlushesFirst ==
  /\ h.op = "write" /\ ~h.append /\ h.rest # <<>>
  /\ <<"data", now.ino[File].blocks[Head(h.rest).blk + 1]>> \in UNION Range(sys.pend)

\* A crash exposes more than the oldest disk only while the log is flushed.
CrashExposed ==
  IF h = Idle \/ h.op = "sync" \/ FlushesFirst THEN Exposed(sys) ELSE {1}

\* What a read finds where the file has no block.
Lost == -1

\* The bytes that byte k of the file may have after a crash on disk d.
AfterCrash(d, k) ==
  LET blk == (k - 1) \div BlockBytes + 1
      at == ((k - 1) % BlockBytes) + 1
  IN IF blk \in DOMAIN d.ino[File].blocks
       THEN {v[at] : v \in Merge(d.data[d.ino[File].blocks[blk]])}
       ELSE {Lost}

Crash ==
  \E n \in CrashExposed : \E f \in CrashOutcomes(sys.ds[n].data) :
    /\ sys' = Recover(sys, n, f)
    /\ h' = Idle /\ crashed' = TRUE
    /\ LET d == latest(sys')
           c == [k \in 1 .. d.ino[File].bytes |-> [cur |-> CHOOSE v \in AfterCrash(d, k) : TRUE,
                                                   old |-> {}]]
       IN ref' = c /\ hist' = {c} /\ past' = {}

Next ==
  \/ \E w \in Writes, b \in Byte : StartWrite(w[1], [k \in 1 .. w[2] |-> b])
  \/ WritePiece \/ EndWrite
  \/ OpenTrunc \/ EndTrunc
  \/ \E full \in BOOLEAN : SyncFile(full)
  \/ SyncTree
  \/ Crash

Spec == Init /\ [][Next]_vars

-----------------------------------------------------------------------------
\* Between handlers every read returns the bytes that were last written, and
\* zeros in gaps: ranges, read-modify-write and its two short cuts are right at
\* every offset and length, whatever a crash left beyond the end of the file.
\* Also within a handler the file has a block for every byte of its size, but
\* while open truncates it.
ReadsBack ==
  /\ h = Idle =>
       \A off \in 0 .. Len(ref) + 1, n \in 0 .. Len(ref) + 1 :
         Read(off, n) = SubSeq([k \in DOMAIN ref |-> ref[k].cur], off + 1,
                               IF off + n < Len(ref) THEN off + n ELSE Len(ref))
  /\ Length64 <= BlockBytes * Len(now.ino[File].blocks) \/ h.op = "trunc"

\* d shows content c: as long, and no byte but what c may have after a crash.
Shows(d, c) ==
  /\ d.ino[File].bytes = Len(c)
  /\ \A k \in DOMAIN c : AfterCrash(d, k) \subseteq Merge(c[k])

\* Whenever the machine crashes, in a handler or between two, the file is left
\* as a user is promised: an append or a truncation is there completely or not
\* at all, what fsync has returned for is there, and after fdatasync no write
\* within the file is undone.
CrashKeepsPromise == \A n \in CrashExposed : \E c \in hist \cup past : Shows(sys.ds[n], c)
=============================================================================
