------------------------------- MODULE DiskLog -------------------------------
(***************************************************************************)
(* The checksummed on-disk log (DiskLogHash.v, module PaddedLog, which     *)
(* DLog wraps): a header block, LogDescLen descriptor blocks that pack     *)
(* ItemsPerVal addresses each, and LogLen data blocks.                     *)
(*                                                                         *)
(* extend overwrites descriptors, data and header with no barrier between  *)
(* them and flushes once; a torn extend is recognised by recover because   *)
(* the checksums of the header do not match the blocks, and is undone by   *)
(* going back to the lengths that the header carries as "previous".        *)
(*                                                                         *)
(* Between a write and the flush that follows it, a crash may keep any of  *)
(* the values of each block, so the states that a crash in the middle of   *)
(* the writes can leave are among those of a crash after all of them: the  *)
(* writes of one call are one action and its flush is another.             *)
(*                                                                         *)
(* The hash is abstracted to what FSCQ assumes of it (hash_safe in         *)
(* AsyncDisk.v: no collision is ever met): the hash of a list of blocks    *)
(* determines the list, so a checksum is the list itself.                  *)
(***************************************************************************)
EXTENDS Integers, Sequences, AsyncDisk

CONSTANTS Addr,        \* addresses a log entry may name: never 0
          Val,         \* values of a data block
          DefaultVal,  \* default_valu, what mkfs leaves in a data block
          ItemsPerVal, \* addresses per descriptor block
          LogDescLen,  \* descriptor blocks
          Logs         \* the arguments extend is called with

LogLen == ItemsPerVal * LogDescLen  \* xparams_ok

Entry == [a : Addr, v : Val]

ASSUME LogAssumption ==
  /\ Addr \subseteq Nat \ {0}
  /\ DefaultVal \in Val
  /\ ItemsPerVal \in Nat \ {0}
  /\ LogDescLen \in Nat
  /\ Logs \subseteq Seq(Entry)

VARIABLES hdr,    \* the header block
          desc,   \* the descriptor blocks
          data,   \* the data blocks
          pc,     \* where the running call is; "down" after a crash
          arg,    \* the entries that the running extend appends
          before, \* ghost: the contents when the running call began
          after   \* ghost: the contents that the running call establishes

vars == <<hdr, desc, data, pc, arg, before, after>>

DescBlock == [0 .. ItemsPerVal - 1 -> Addr \cup {0}]
ZeroBlock == [j \in 0 .. ItemsPerVal - 1 |-> 0]

\* The first n blocks of the region f.
Prefix(f, n) == [i \in 0 .. n - 1 |-> f[i]]

\* The n blocks p followed by the m blocks q.
Cat(p, n, q, m) == [i \in 0 .. n + m - 1 |-> IF i < n THEN p[i] ELSE q[i - n]]

Length(nd, nv) == [ndesc |-> nd, ndata |-> nv]
Header(prev, len, sum) == [prev |-> prev, len |-> len, sum |-> sum]

\* What Desc.read_all and Data.read_all return for a length.
Contents(len) == [addrs |-> Prefix(Latest(desc), len.ndesc),
                  vals  |-> Prefix(Latest(data), len.ndata)]

EmptyContents == [addrs |-> Prefix(EmptyMap, 0), vals |-> Prefix(EmptyMap, 0)]

\* divup (length log) items_per_val
NdescLog(log) == (Len(log) + ItemsPerVal - 1) \div ItemsPerVal

\* nonzero_addrs (map fst log); every entry extend is given is entry_valid.
NdataLog(log) == Len(log)

\* Faulty variant of IPack: the padding repeats the last address.
IPackRepeats(log) ==
  [i \in 0 .. NdescLog(log) - 1 |->
     [j \in 0 .. ItemsPerVal - 1 |->
        log[IF i * ItemsPerVal + j < Len(log) THEN i * ItemsPerVal + j + 1 ELSE Len(log)].a]]

\* ipack (map ent_addr log): the last block is padded with zero addresses.
IPack(log) ==
  [i \in 0 .. NdescLog(log) - 1 |->
     [j \in 0 .. ItemsPerVal - 1 |->
        IF i * ItemsPerVal + j < Len(log) THEN log[i * ItemsPerVal + j + 1].a ELSE 0]]

EntVals(log) == [i \in 0 .. NdataLog(log) - 1 |-> log[i + 1].v]

\* write_range: the n blocks q written from block start on.
WriteRange(d, start, q, n) ==
  WriteBlocks(d, [i \in start .. start + n - 1 |-> q[i - start]])

\* Faulty variant of LoglenValid: one block too strict.
LoglenStrict(nd, nv) == nd < LogDescLen /\ nv <= LogLen

LoglenValid(nd, nv) == nd <= LogDescLen /\ nv <= LogLen

\* avail: the entries for which there is room for sure.
Avail == LogLen - hdr.cur.len.ndesc * ItemsPerVal

\* Faulty variant of ChecksumsMatch: only the descriptors are compared.
DescChecksumMatches == Contents(hdr.cur.len).addrs = hdr.cur.sum.addrs

\* The checksums of the header match the blocks that it covers.
ChecksumsMatch == Contents(hdr.cur.len) = hdr.cur.sum

-----------------------------------------------------------------------------
\* init: Hdr.init on a disk that mkfs has zeroed.
Init ==
  /\ hdr = Settled(Header(Length(0, 0), Length(0, 0), EmptyContents))
  /\ desc = Flushed([i \in 0 .. LogDescLen - 1 |-> ZeroBlock])
  /\ data = Flushed([i \in 0 .. LogLen - 1 |-> DefaultVal])
  /\ pc = "ready"
  /\ arg = <<>>
  /\ before = EmptyContents
  /\ after = EmptyContents

\* extend, up to Hdr.write: the new checksums continue those of the header.
Extend(log) ==
  LET h  == hdr.cur
      nd == NdescLog(log)
      nv == NdataLog(log)
      sum == [addrs |-> Cat(h.sum.addrs, h.len.ndesc, IPack(log), nd),
              vals  |-> Cat(h.sum.vals, h.len.ndata, EntVals(log), nv)]
  IN /\ pc = "ready"
     /\ LoglenValid(h.len.ndesc + nd, h.len.ndata + nv)
     /\ desc' = WriteRange(desc, h.len.ndesc, IPack(log), nd)
     /\ data' = WriteRange(data, h.len.ndata, EntVals(log), nv)
     /\ hdr' = Overwrite(hdr, Header(h.len, Length(h.len.ndesc + nd, h.len.ndata + nv), sum))
     /\ pc' = "extend"
     /\ arg' = log
     /\ after' = sum
     /\ UNCHANGED before

\* extend when the entries do not fit: it returns false and changes nothing.
ExtendFull(log) ==
  /\ pc = "ready"
  /\ ~LoglenValid(hdr.cur.len.ndesc + NdescLog(log), hdr.cur.len.ndata + NdataLog(log))
  /\ pc' = "full"
  /\ arg' = log
  /\ UNCHANGED <<hdr, desc, data, before, after>>

\* The caller takes the answer false.
ReturnFull ==
  /\ pc = "full"
  /\ pc' = "ready"
  /\ arg' = <<>>
  /\ UNCHANGED <<hdr, desc, data, before, after>>

\* The sync section of extend: descriptors, data and header, one flush.
ExtendSync ==
  LET len == hdr.cur.prev
  IN /\ pc = "extend"
     /\ desc' = SyncBlocks(desc, len.ndesc .. len.ndesc + NdescLog(arg) - 1)
     /\ data' = SyncBlocks(data, len.ndata .. len.ndata + NdataLog(arg) - 1)
     /\ hdr' = Settled(hdr.cur)
     /\ pc' = "ready"
     /\ arg' = <<>>
     /\ before' = after
     /\ UNCHANGED after

\* trunc, up to Hdr.write.
Trunc ==
  /\ pc = "ready"
  /\ hdr' = Overwrite(hdr, Header(hdr.cur.len, Length(0, 0), EmptyContents))
  /\ pc' = "trunc"
  /\ after' = EmptyContents
  /\ UNCHANGED <<desc, data, arg, before>>

\* trunc's Hdr.sync_now.
TruncSync ==
  /\ pc = "trunc"
  /\ hdr' = Settled(hdr.cur)
  /\ pc' = "ready"
  /\ before' = after
  /\ UNCHANGED <<desc, data, arg, after>>

\* The machine stops: every block keeps one of its possible values.
Crash ==
  /\ pc # "down"
  /\ \E h \in Merge(hdr), f \in CrashOutcomes(desc), g \in CrashOutcomes(data) :
       /\ hdr' = Settled(h)
       /\ desc' = Flushed(f)
       /\ data' = Flushed(g)
  /\ pc' = "down"
  /\ arg' = <<>>
  /\ UNCHANGED <<before, after>>

\* recover when both checksums match: the log stays as it is.
RecoverKeep ==
  /\ pc = "down"
  /\ ChecksumsMatch
  /\ pc' = "ready"
  /\ before' = Contents(hdr.cur.len)
  /\ after' = Contents(hdr.cur.len)
  /\ UNCHANGED <<hdr, desc, data, arg>>

\* Faulty variant of RecoverRollback: the torn blocks get new checksums.
RecoverResign ==
  LET h == hdr.cur
  IN /\ pc = "down"
     /\ ~ChecksumsMatch
     /\ hdr' = Overwrite(hdr, Header(h.prev, h.len, Contents(h.len)))
     /\ pc' = "rollback"
     /\ UNCHANGED <<desc, data, arg, before, after>>

\* recover on "hash mismatch", up to Hdr.write: back to the previous lengths.
RecoverRollback ==
  LET len == hdr.cur.prev
  IN /\ pc = "down"
     /\ ~ChecksumsMatch
     /\ hdr' = Overwrite(hdr, Header(len, len, Contents(len)))
     /\ pc' = "rollback"
     /\ UNCHANGED <<desc, data, arg, before, after>>

\* recover's Hdr.sync_now.
RollbackSync ==
  /\ pc = "rollback"
  /\ hdr' = Settled(hdr.cur)
  /\ pc' = "ready"
  /\ before' = Contents(hdr.cur.len)
  /\ after' = Contents(hdr.cur.len)
  /\ UNCHANGED <<desc, data, arg>>

Recover == RecoverKeep \/ RecoverRollback

Next ==
  \/ \E log \in Logs : Extend(log) \/ ExtendFull(log)
  \/ ReturnFull
  \/ ExtendSync
  \/ Trunc
  \/ TruncSync
  \/ Crash
  \/ Recover
  \/ RollbackSync

Spec == Init /\ [][Next]_vars

-----------------------------------------------------------------------------
LengthType == [ndesc : 0 .. LogDescLen, ndata : 0 .. LogLen]

\* At most N blocks of type V.
Blocks(V, N) == UNION {[0 .. n - 1 -> V] : n \in 0 .. N}

ContentsType == [addrs : Blocks(DescBlock, LogDescLen), vals : Blocks(Val, LogLen)]

HeaderType == [prev : LengthType, len : LengthType, sum : ContentsType]

\* Every variable has its type; every length in a header is within the
\* regions (loglen_valid), so no read or write of the log leaves them.
TypeOK ==
  /\ hdr \in ValuSet(HeaderType)
  /\ desc \in [0 .. LogDescLen - 1 -> ValuSet(DescBlock)]
  /\ data \in [0 .. LogLen - 1 -> ValuSet(Val)]
  /\ pc \in {"ready", "full", "extend", "trunc", "rollback", "down"}
  /\ arg \in Seq(Entry)
  /\ before \in ContentsType
  /\ after \in ContentsType

\* The contents that recover settles on.
Survivor ==
  IF ChecksumsMatch THEN Contents(hdr.cur.len) ELSE Contents(hdr.cur.prev)

\* A crash is atomic: whatever a crash kept of the unflushed blocks, recover
\* finds the log as it was before the interrupted extend or trunc, or as
\* that call would have left it, and never a mixture; an extend or trunc
\* that returned is kept.
CrashAtomic == pc = "down" => Survivor \in {before, after}

\* Between calls the log reads back as exactly what the last call that
\* returned, or the last recovery, established, and nothing about it is
\* still unflushed.
ReadyExact ==
  pc \in {"ready", "full"} =>
    /\ Contents(hdr.cur.len) = before
    /\ before = after
    /\ ChecksumsMatch
    /\ hdr.old = {}

\* Once recover has rolled a torn extend back in memory, a second crash
\* before its header is flushed cannot bring the torn extend back: the
\* survivor is decided (recover is idempotent).
RollbackIsFinal == [][pc = "rollback" => Survivor' = Contents(hdr.cur.len)]_vars

\* extend refuses only entries that avail had promised no room for; the
\* group log relies on this to flush without ever failing.
RefusedOnlyWhenFull == pc = "full" => Len(arg) > Avail
=============================================================================
