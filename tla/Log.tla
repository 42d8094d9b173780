---------------------------------- MODULE Log ----------------------------------
(***************************************************************************)
(* The transaction interface of FSCQ (Log.v, module LOG) on top of the     *)
(* group log and the memory log: the complete log stack.                   *)
(*                                                                         *)
(* A transaction gathers its writes in cm (MSTxn); commit hands them to    *)
(* the group log.  A flush makes the committed transactions durable, a     *)
(* direct write (dwrite) changes a home block at once without the log.     *)
(* The calls run one at a time; a crash can come between any two steps.    *)
(*                                                                         *)
(* ds is the disk set of DiskSet.v, by which LOG.rep says what the stack   *)
(* promises.  Its members are the disks, oldest first, to which a crash    *)
(* may take the system.  txn is the disk that the active transaction sees  *)
(* (the m of LOG.rep's ActiveTxn).  Both are history variables: no guard   *)
(* reads them.                                                             *)
(***************************************************************************)
EXTENDS GroupLog

CONSTANTS MaxTxns,       \* bound on the transactions that wait for a flush
          ShouldFlushall \* should_flushall: commit flushes at once

ASSUME LogStackAssumption == MaxTxns \in Nat /\ ShouldFlushall \in BOOLEAN

VARIABLES cm, \* MSTxn: the writes of the active transaction
          ds, \* the disk set: what a crash may leave
          txn \* the disk that the active transaction sees

vars == <<gvars, cm, ds, txn>>

latest == ds[Len(ds)]

\* Map.remove
Without(m, S) == [a \in DOMAIN m \ S |-> m[a]]

\* A committed transaction determines its blocks: recovery replays it.
Committed(d, ents) ==
  [a \in DOMAIN d |-> IF a \in DOMAIN ents THEN Settled(ents[a]) ELSE d[a]]

EachDisk(F(_)) == [i \in DOMAIN ds |-> F(ds[i])]

Init == GInit /\ cm = EmptyMap /\ ds = <<disk>> /\ txn = Latest(disk)

Read(a) == IF a \in DOMAIN cm THEN cm[a] ELSE GRead(a)

-----------------------------------------------------------------------------
Write(a, v) ==
  /\ pc = "idle"
  /\ cm' = AddAll(cm, [x \in {a} |-> v])
  /\ txn' = [txn EXCEPT ![a] = v]
  /\ UNCHANGED <<gvars, ds>>

\* abort, and commit_ro, which is the same.
Abort ==
  /\ pc = "idle"
  /\ cm' = EmptyMap
  /\ txn' = Latest(latest)
  /\ UNCHANGED <<gvars, ds>>

\* GLog.flushall begins, with the group log it finds.
StartFlush(call, merged, txns) ==
  /\ queue' = ToFlush(merged, txns)
  /\ pc' = "flush"
  /\ op' = call

\* What follows GLog.submit in commit.
AfterSubmit ==
  /\ cm' = EmptyMap
  /\ IF ShouldFlushall THEN StartFlush("commit", vm', ts') ELSE UNCHANGED <<queue, pc, op>>
  /\ UNCHANGED <<disk, dlog, oms, wr>>

Commit ==
  /\ pc = "idle"
  /\ Len(ts) < MaxTxns
  /\ Accepts(cm)
  /\ vm' = AddAll(vm, cm)
  /\ ts' = Append(ts, cm)
  /\ ds' = Append(ds, Committed(latest, cm))
  /\ UNCHANGED txn
  /\ AfterSubmit

\* commit answers false when the transaction cannot fit into the log; its
\* writes are dropped.
CommitTooBig ==
  /\ pc = "idle"
  /\ ~Accepts(cm)
  /\ txn' = Latest(latest)
  /\ UNCHANGED <<vm, ts, ds>>
  /\ AfterSubmit

Flushall ==
  /\ pc = "idle"
  /\ StartFlush("flushall", vm, ts)
  /\ UNCHANGED <<disk, dlog, oms, wr, vm, ts, cm, ds, txn>>

Flushsync ==
  /\ pc = "idle"
  /\ StartFlush("flushsync", vm, ts)
  /\ UNCHANGED <<disk, dlog, oms, wr, vm, ts, cm, ds, txn>>

\* Faulty variant of StartDwrite: pending transactions are not looked at.
StartDwriteBlind(m) ==
  /\ wr' = m
  /\ pc' = "dwrite" /\ op' = "dwrite"
  /\ UNCHANGED <<disk, dlog, oms, vm, ts, ds, queue>>

\* GLog.dwrite and dwrite_vecs begin: a pending committed write of one of the
\* addresses is flushed first.
StartDwrite(m) ==
  /\ wr' = m
  /\ IF Overlap(m, vm)
     THEN StartFlush("dwrite", vm, ts)
     ELSE pc' = "dwrite" /\ op' = "dwrite" /\ UNCHANGED queue
  /\ UNCHANGED <<disk, dlog, oms, vm, ts, ds>>

Dwrite(a, v) ==
  /\ pc = "idle"
  /\ cm' = Without(cm, {a})
  /\ txn' = [txn EXCEPT ![a] = v]
  /\ StartDwrite([x \in {a} |-> v])

\* dwrite_vecs drops the whole active transaction.
DwriteVecs(m) ==
  /\ pc = "idle"
  /\ cm' = EmptyMap
  /\ txn' = Overlay(m, Latest(latest))
  /\ StartDwrite(m)

\* dsync and dsync_vecs; sync_cache is the sync of every block.
Dsync(S) ==
  /\ pc = "idle"
  /\ disk' = SyncBlocks(disk, S)
  /\ ds' = EachDisk(LAMBDA d : SyncBlocks(d, S))
  /\ UNCHANGED <<dlog, oms, pc, op, queue, wr, vm, ts, cm, txn>>

-----------------------------------------------------------------------------
\* The steps below the running call, with what they make of the disk set: a
\* completed flushall leaves only the latest disk, a direct write changes
\* every disk of the set.
Work == MStep /\ UNCHANGED <<vm, ts, cm, ds, txn>>

FlushallDone == FlushDone /\ ds' = <<latest>> /\ UNCHANGED <<cm, txn>>

DwriteNow ==
  /\ MDwrite
  /\ ds' = EachDisk(LAMBDA d : WriteBlocks(d, wr))
  /\ UNCHANGED <<vm, ts, cm, txn>>

Return ==
  /\ pc = "return"
  /\ pc' = "idle"
  /\ op' = "none"
  /\ wr' = EmptyMap
  /\ UNCHANGED <<disk, dlog, oms, queue, vm, ts, cm, ds, txn>>

Crash == GCrash /\ cm' = EmptyMap /\ UNCHANGED <<ds, txn>>

\* The file system starts anew from what recovery finds.
Recover ==
  /\ GRecover
  /\ txn' = Overlay(dlog.now.map, Latest(disk))
  /\ ds' = <<Flushed(txn')>>
  /\ UNCHANGED cm

Step == Work \/ FlushallDone \/ DwriteNow \/ Return

Next ==
  \/ \E a \in Addr, v \in Val : Write(a, v) \/ Dwrite(a, v)
  \/ Abort \/ Commit \/ CommitTooBig \/ Flushall \/ Flushsync
  \/ \E m \in Maps(Addr, Val) : DwriteVecs(m)
  \/ \E S \in SUBSET Addr : Dsync(S)
  \/ Step \/ Crash \/ Recover

Spec == Init /\ [][Next]_vars

\* A call that has started goes on: there is one thread and it does not stop
\* between two steps.  Nothing says that a caller makes another call.
FairSpec == Spec /\ WF_vars(Step)

-----------------------------------------------------------------------------
Disks == [Addr -> ValuSet(Val)]
LogType == [map : Maps(Addr, Val), ndesc : 0..LogDescLen, ndata : 0..LogLen]

TypeOK ==
  /\ disk \in Disks
  /\ dlog \in [now : LogType, next : LogType]
  /\ oms \in Maps(Addr, Val) /\ wr \in Maps(Addr, Val)
  /\ vm \in Maps(Addr, Val) /\ cm \in Maps(Addr, Val)
  /\ pc \in {"idle", "flush", "append", "extend", "apply", "applied", "trunc", "dwrite",
             "return", "down"}
  /\ op \in {"none", "commit", "flushall", "flushsync", "dwrite"}
  /\ queue \in Seq(Maps(Addr, Val)) /\ ts \in Seq(Maps(Addr, Val))
  /\ ds \in Seq(Disks) /\ ds # <<>>
  /\ txn \in [Addr -> Val]

\* d is a disk that a crash in the disk set s may leave.
Explains(s, d) == \E i \in DOMAIN s : \A a \in Addr : d[a] \in Merge(s[i][a])

\* What recovery after a crash rebuilds (the log replayed over the home
\* blocks) is a crash outcome of one disk of the disk set: no committed
\* transaction is torn or reordered, none that flushall has flushed is lost,
\* and a direct write is never undone by an older log entry or undoes one.
\* This is the crash condition of LOG.commit, flushall, dwrite and dsync.
CrashSafe ==
  pc = "down" => Explains(ds, Overlay(dlog.now.map, Latest(disk)))

\* Between calls a read through the four layers (the active transaction, the
\* group log, the memory log, the home blocks) gives what the transaction must
\* see, whichever layer holds the block and however it got there: LOG.read.
ReadsTxn == pc = "idle" => \A a \in Addr : Read(a) = txn[a]

\* The answer of MLog.flush that flushall drops is never false: what submit
\* accepted always fits when it is its turn, after an apply if need be
\* ("r = false is impossible, flushall should always succeed").
FlushNeverFails == pc = "append" => Fits(dlog.now, Head(queue))

\* Every call returns: the loops between flush and apply and between dwrite
\* and apply end, since an applied log is empty.
CallsReturn == pc \notin {"idle", "down"} ~> pc \in {"idle", "down"}
=============================================================================
