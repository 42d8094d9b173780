-------------------------------- MODULE MemLog --------------------------------
(***************************************************************************)
(* The memory log (MemLog.v, module MLog): the committed updates that are  *)
(* in the on-disk log and not yet at their home addresses, with a copy of  *)
(* them in memory (MSInLog).  flush appends updates to the log, apply      *)
(* copies the log home and truncates it, dwrite goes to the home address   *)
(* directly.                                                               *)
(*                                                                         *)
(* The on-disk log is the atomic log that DiskLog implements, abstracted   *)
(* to what the layers above tell apart: the map that replaying its entries *)
(* gives, and how full it is.  While a call of extend or trunc runs, now   *)
(* and next differ and a crash keeps one of the two.  The buffer cache is  *)
(* abstracted to the disk of AsyncDisk: a write may reach the medium at    *)
(* any time, a sync makes sure that the synced blocks have.                *)
(*                                                                         *)
(* This module has the steps that MLog takes below a running call of the   *)
(* group log; GroupLog and Log say which call runs and what follows.       *)
(***************************************************************************)
EXTENDS Integers, Sequences, FiniteSets, AsyncDisk

CONSTANTS Addr,        \* home addresses
          Val,         \* block values
          DefaultVal,  \* what mkfs leaves in a block
          ItemsPerVal, \* addresses per descriptor block of the log
          LogDescLen   \* descriptor blocks of the log

LogLen == ItemsPerVal * LogDescLen

\* Addresses are machine words, so any set of them has a size.
ASSUME MemLogAssumption ==
  /\ \A S \in SUBSET Addr : Cardinality(S) \in Nat
  /\ DefaultVal \in Val
  /\ ItemsPerVal \in Nat \ {0}
  /\ LogDescLen \in Nat

VARIABLES disk,  \* the home blocks
          dlog,  \* the on-disk log: what it is now and after the running call
          oms,   \* MSInLog: the updates in the log, in memory
          pc,    \* where the running call is
          op,    \* the call of Log.v that is running
          queue, \* the lists of updates that the running flushall still has to flush
          wr     \* the direct writes that the running dwrite makes

mvars == <<disk, dlog, oms, pc, op, queue, wr>>

EmptyLog == [map |-> EmptyMap, ndesc |-> 0, ndata |-> 0]

\* divup (length ents) items_per_val
Ndesc(ents) == (Cardinality(DOMAIN ents) + ItemsPerVal - 1) \div ItemsPerVal

\* The log with ents appended; replaying it adds ents to the map.
Append1(l, ents) == [map   |-> AddAll(l.map, ents),
                     ndesc |-> l.ndesc + Ndesc(ents),
                     ndata |-> l.ndata + Cardinality(DOMAIN ents)]

\* loglen_valid
Fits(l, ents) ==
  /\ l.ndesc + Ndesc(ents) <= LogDescLen
  /\ l.ndata + Cardinality(DOMAIN ents) <= LogLen

\* Faulty variant of Avail: the blocks in use are not counted.
AvailEmpty(l) == LogLen

\* What DLog.avail answers.
Avail(l) == LogLen - l.ndesc * ItemsPerVal

Overlap(m, n) == DOMAIN m \cap DOMAIN n # {}

MInit ==
  /\ disk = Flushed([a \in Addr |-> DefaultVal])
  /\ dlog = [now |-> EmptyLog, next |-> EmptyLog]
  /\ oms = EmptyMap
  /\ pc = "idle"
  /\ op = "none"
  /\ queue = <<>>
  /\ wr = EmptyMap

-----------------------------------------------------------------------------
\* flush: nothing to do for an empty list; the log is applied first when
\* avail says that there may not be room.
MFlush ==
  /\ pc = "flush"
  /\ queue # <<>>
  /\ LET ents == Head(queue)
     IN IF DOMAIN ents = {}
        THEN queue' = Tail(queue) /\ UNCHANGED pc
        ELSE /\ pc' = IF Avail(dlog.now) < Cardinality(DOMAIN ents) THEN "apply" ELSE "append"
             /\ UNCHANGED queue
  /\ UNCHANGED <<disk, dlog, oms, op, wr>>

\* flush_noapply: DLog.extend writes its blocks, or answers false when they do
\* not fit; flushall drops the answer and goes on with the next list.
MExtend ==
  /\ pc = "append"
  /\ IF Fits(dlog.now, Head(queue))
     THEN /\ dlog' = [dlog EXCEPT !.next = Append1(dlog.now, Head(queue))]
          /\ pc' = "extend"
          /\ UNCHANGED queue
     ELSE /\ queue' = Tail(queue)
          /\ pc' = "flush"
          /\ UNCHANGED dlog
  /\ UNCHANGED <<disk, oms, op, wr>>

\* The flush at the end of DLog.extend; the updates join the memory copy.
MExtendSync ==
  /\ pc = "extend"
  /\ dlog' = [now |-> dlog.next, next |-> dlog.next]
  /\ oms' = AddAll(oms, Head(queue))
  /\ queue' = Tail(queue)
  /\ pc' = "flush"
  /\ UNCHANGED <<disk, op, wr>>

\* apply: the updates of the log are written to their home addresses.
MApplyWrite ==
  /\ pc = "apply"
  /\ disk' = WriteBlocks(disk, oms)
  /\ pc' = "applied"
  /\ UNCHANGED <<dlog, oms, op, queue, wr>>

\* apply: sync_vecs_now of these addresses, then the header of DLog.trunc.
MApplySync ==
  /\ pc = "applied"
  /\ disk' = SyncBlocks(disk, DOMAIN oms)
  /\ dlog' = [dlog EXCEPT !.next = EmptyLog]
  /\ pc' = "trunc"
  /\ UNCHANGED <<oms, op, queue, wr>>

\* Faulty variant of MApplyTrunc: the memory copy is not reset.
MApplyTruncKeeps ==
  /\ pc = "trunc"
  /\ dlog' = [now |-> dlog.next, next |-> dlog.next]
  /\ pc' = IF queue # <<>> THEN "append" ELSE IF op = "dwrite" THEN "dwrite" ELSE "return"
  /\ UNCHANGED <<disk, oms, op, queue, wr>>

\* apply: the flush of DLog.trunc; the log is empty.  Its caller goes on:
\* flush appends, dwrite writes, flushsync is done.
MApplyTrunc ==
  /\ pc = "trunc"
  /\ dlog' = [now |-> dlog.next, next |-> dlog.next]
  /\ oms' = EmptyMap
  /\ pc' = IF queue # <<>> THEN "append" ELSE IF op = "dwrite" THEN "dwrite" ELSE "return"
  /\ UNCHANGED <<disk, op, queue, wr>>

\* dwrite and dwrite_vecs: a pending update of one of the addresses in the
\* log would overwrite the direct write on the next replay, so the log is
\* applied first.
MDwriteApply ==
  /\ pc = "dwrite"
  /\ Overlap(wr, oms)
  /\ pc' = "apply"
  /\ UNCHANGED <<disk, dlog, oms, op, queue, wr>>

MDwrite ==
  /\ pc = "dwrite"
  /\ ~Overlap(wr, oms)
  /\ disk' = WriteBlocks(disk, wr)
  /\ pc' = "return"
  /\ UNCHANGED <<dlog, oms, op, queue, wr>>

MStep ==
  \/ MFlush \/ MExtend \/ MExtendSync
  \/ MApplyWrite \/ MApplySync \/ MApplyTrunc \/ MDwriteApply

\* The crash of the layer: the memory copy is gone, the home blocks and the
\* log keep one of their possible values.
MCrash ==
  /\ pc # "down"
  /\ \E f \in CrashOutcomes(disk), l \in {dlog.now, dlog.next} :
       /\ disk' = Flushed(f)
       /\ dlog' = [now |-> l, next |-> l]
  /\ oms' = EmptyMap
  /\ pc' = "down"
  /\ op' = "none"
  /\ queue' = <<>>
  /\ wr' = EmptyMap

\* recover: DLog.recover, and the memory copy is rebuilt by replaying the log.
MRecover ==
  /\ pc = "down"
  /\ oms' = dlog.now.map
  /\ pc' = "idle"
  /\ UNCHANGED <<disk, dlog, op, queue, wr>>

\* read below the group log.
MRead(a) == IF a \in DOMAIN oms THEN oms[a] ELSE disk[a].cur
=============================================================================
