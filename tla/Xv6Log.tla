-------------------------------- MODULE Xv6Log --------------------------------
(***************************************************************************)
(* The write-ahead log of xv6 (log.c) on the buffer cache of bio.c.        *)
(*                                                                         *)
(* A system call runs between begin_op and end_op; its log_write calls pin *)
(* the modified buffers in the cache and list their sectors in the         *)
(* in-memory header lh.  The last end_op commits: the buffers are copied   *)
(* to the log (write_log), the header is written between two flushes       *)
(* (write_head, the commit point), the log is copied to the home sectors   *)
(* (install_trans), and the header is cleared.  A crash can come between   *)
(* any two disk writes; initlog then recovers.                             *)
(*                                                                         *)
(* stable and pending are history variables: the home sectors as the last  *)
(* committed transaction left them, and as the running one wants them.     *)
(***************************************************************************)
EXTENDS Xv6Bio

CONSTANTS Home,        \* the home sectors
          LogSector,   \* the data sectors of the log, as a sequence
          HeadSector,  \* thelog.start, the sector of the header
          Val,         \* contents of a sector
          InitVal,     \* what mkfs leaves in a sector
          LOGSIZE,     \* sectors that a header can list
          MAXOPBLOCKS  \* sectors that a system call may write

LogSectors == {LogSector[i] : i \in DOMAIN LogSector}
Sectors == Home \cup LogSectors \cup {HeadSector}

\* thelog.size counts the header.
LogSpace == Len(LogSector) + 1

\* The regions of the disk do not overlap.
ASSUME Xv6LogAssumption ==
  /\ InitVal \in Val
  /\ {NBUF, LOGSIZE, MAXOPBLOCKS} \subseteq Nat
  \* param.h: NBUF is three times MAXOPBLOCKS
  /\ NBUF > MAXOPBLOCKS
  /\ LOGSIZE >= Len(LogSector)
  /\ MAXOPBLOCKS < Len(LogSector)
  /\ LogSector \in Seq(LogSectors)
  /\ \A i, j \in DOMAIN LogSector : LogSector[i] = LogSector[j] => i = j
  /\ Home \cap LogSectors = {} /\ HeadSector \notin Home \cup LogSectors
  /\ NoSector \notin Sectors

VARIABLES lh,          \* thelog.lh: the sectors logged so far
          outstanding, \* how many system calls are executing
          committing,  \* in commit()
          pc,
          tail,        \* loop variable of write_log and install_trans
          stable,
          pending

vars == <<disk, bufs, lh, outstanding, committing, pc, tail, stable, pending>>

\* A new disk, not mounted yet.
Init ==
  /\ disk = Flushed([s \in Sectors |-> IF s = HeadSector THEN <<>> ELSE InitVal])
  /\ bufs = FreshCache
  /\ lh = <<>>
  /\ outstanding = 0
  /\ committing = FALSE
  /\ pc = "down"
  /\ tail = 0
  /\ stable = [h \in Home |-> InitVal]
  /\ pending = stable

-----------------------------------------------------------------------------
\* initlog: read_head; install_trans follows when the header lists sectors.
InitLog ==
  /\ pc = "down"
  /\ LET c == BRead(FreshCache, HeadSector)
     IN /\ lh' = DataOf(c, HeadSector)
        /\ bufs' = BRelse(c, HeadSector)
  /\ pc' = IF lh' = <<>> THEN "clear" ELSE "install"
  /\ outstanding' = 0
  /\ committing' = FALSE
  /\ tail' = 1
  /\ UNCHANGED <<disk, stable, pending>>

\* begin_op.  One thread runs, so it never has to wait for a commit or for
\* log space: a call that finds none would spin.
BeginOp ==
  /\ pc = "idle"
  /\ ~committing
  /\ Len(lh) + (outstanding + 1) * MAXOPBLOCKS <= LOGSIZE
  /\ outstanding' = outstanding + 1
  /\ pc' = "op"
  /\ UNCHANGED <<disk, bufs, lh, committing, tail, stable, pending>>

\* A system call reads a sector: bread, brelse.
Read(h) ==
  /\ pc = "op"
  /\ CanGet(bufs, h)
  /\ bufs' = BRelse(BRead(bufs, h), h)
  /\ UNCHANGED <<disk, lh, outstanding, committing, pc, tail, stable, pending>>

\* Faulty variant of LogRefuses: one sector less.
LogRefusesEarly == Len(lh) >= LOGSIZE \/ Len(lh) >= LogSpace - 2 \/ outstanding < 1

\* The panics of log_write.
LogRefuses == Len(lh) >= LOGSIZE \/ Len(lh) >= LogSpace - 1 \/ outstanding < 1

\* bread, modify, log_write (which absorbs a second write of the sector and
\* pins the buffer), brelse.  A system call writes at most MAXOPBLOCKS
\* different sectors.
LogWrite(h, v) ==
  /\ pc = "op"
  /\ CanGet(bufs, h)
  /\ ~LogRefuses
  /\ Cardinality(Range(lh) \cup {h}) <= MAXOPBLOCKS
  /\ LET c == Modify(BRead(bufs, h), h, v)
     IN bufs' = BRelse([c EXCEPT ![Slot(c, h)].dirty = TRUE], h)
  /\ lh' = IF h \in Range(lh) THEN lh ELSE Append(lh, h)
  /\ pending' = [pending EXCEPT ![h] = v]
  /\ UNCHANGED <<disk, outstanding, committing, pc, tail, stable>>

\* end_op: the last running call commits, if it wrote anything.
EndOp ==
  /\ pc = "op"
  /\ outstanding' = outstanding - 1
  /\ IF outstanding' = 0 /\ lh # <<>>
     THEN committing' = TRUE /\ pc' = "writelog" /\ tail' = 1
     ELSE pc' = "idle" /\ UNCHANGED <<committing, tail>>
  /\ UNCHANGED <<disk, bufs, lh, stable, pending>>

-----------------------------------------------------------------------------
\* Neither bread of a copy loop panics.
TwoBuffers(first, second) == CanGet(bufs, first) /\ CanGet(BRead(bufs, first), second)

\* One round of a copy loop: the two sectors are read, to gets the data of
\* from and is written, and both are released.
Copy(from, to, first, second) ==
  LET c == BRead(BRead(bufs, first), second)
      m == Modify(c, to, DataOf(c, from))
  IN /\ TwoBuffers(first, second)
     /\ disk' = Written(m, to)
     /\ bufs' = BRelse(BRelse(BWrite(m, to), from), to)

\* The next round of the loop, or what follows it.
Advance(after) ==
  /\ tail' = tail + 1
  /\ pc' = IF tail = Len(lh) THEN after ELSE pc

\* write_log: cache block to log block.
WriteLog ==
  /\ pc = "writelog"
  /\ LET to == LogSector[tail]
         from == lh[tail]
     IN Copy(from, to, to, from)
  /\ Advance("head")
  /\ UNCHANGED <<lh, outstanding, committing, stable, pending>>

\* Faulty variant of PutHead: no flush before the header.
PutHeadUnordered(head) ==
  LET c == Modify(BRead(bufs, HeadSector), HeadSector, head)
  IN /\ CanGet(bufs, HeadSector)
     /\ disk' = WriteBlocks(disk, [s \in {HeadSector} |-> head])
     /\ bufs' = BRelse(BWrite(c, HeadSector), HeadSector)

\* write_head up to its second flush: all preceding writes are flushed, then
\* the header is written.
PutHead(head) ==
  LET c == Modify(BRead(bufs, HeadSector), HeadSector, head)
  IN /\ CanGet(bufs, HeadSector)
     /\ disk' = WriteBlocks(IdeFlush(disk), [s \in {HeadSector} |-> head])
     /\ bufs' = BRelse(BWrite(c, HeadSector), HeadSector)

WriteHead ==
  /\ pc = "head"
  /\ PutHead(lh)
  /\ pc' = "headflush"
  /\ UNCHANGED <<lh, outstanding, committing, tail, stable, pending>>

\* The second flush of write_head: the transaction is committed.
WriteHeadFlush ==
  /\ pc = "headflush"
  /\ disk' = IdeFlush(disk)
  /\ stable' = pending
  /\ pc' = "install"
  /\ tail' = 1
  /\ UNCHANGED <<bufs, lh, outstanding, committing, pending>>

\* install_trans: log block to home sector.
InstallTrans ==
  /\ pc = "install"
  /\ LET from == LogSector[tail]
         to == lh[tail]
     IN Copy(from, to, from, to)
  /\ Advance("clear")
  /\ UNCHANGED <<lh, outstanding, committing, stable, pending>>

\* write_head with an empty header, of commit and of recover_from_log.
ClearHead ==
  /\ pc = "clear"
  /\ lh' = <<>>
  /\ PutHead(<<>>)
  /\ pc' = "clearflush"
  /\ UNCHANGED <<outstanding, committing, tail, stable, pending>>

ClearHeadFlush ==
  /\ pc = "clearflush"
  /\ disk' = IdeFlush(disk)
  /\ committing' = FALSE
  /\ pc' = "idle"
  /\ UNCHANGED <<bufs, lh, outstanding, tail, stable, pending>>

-----------------------------------------------------------------------------
\* What recovery rebuilds from a disk: the home sectors with the logged data
\* of the sectors that the header lists.
Replayed(f) ==
  [h \in Home |->
     IF h \in Range(f[HeadSector])
     THEN f[LogSector[CHOOSE i \in DOMAIN f[HeadSector] : f[HeadSector][i] = h]]
     ELSE f[h]]

\* The host crashes, or the process exits (panic): the cache is lost and each
\* sector keeps one of its values.  What was running has happened or not.
Crash ==
  /\ pc # "down"
  /\ \E f \in CrashOutcomes(disk) : disk' = Flushed(f)
  /\ bufs' = FreshCache
  /\ lh' = <<>>
  /\ outstanding' = 0
  /\ committing' = FALSE
  /\ tail' = 0
  /\ pc' = "down"
  /\ stable' = IF pc = "headflush" /\ Replayed(Latest(disk')) = pending THEN pending ELSE stable
  /\ pending' = stable'

Next ==
  \/ InitLog \/ BeginOp \/ EndOp
  \/ \E h \in Home : Read(h) \/ \E v \in Val : LogWrite(h, v)
  \/ WriteLog \/ WriteHead \/ WriteHeadFlush \/ InstallTrans \/ ClearHead \/ ClearHeadFlush
  \/ Crash

Spec == Init /\ [][Next]_vars

-----------------------------------------------------------------------------
Contents(s) == IF s = HeadSector THEN Seq(Home) ELSE Val

TypeOK ==
  /\ DOMAIN disk = Sectors
  /\ \A s \in Sectors : disk[s].cur \in Contents(s) /\ disk[s].old \subseteq Contents(s)
  /\ Len(bufs) = NBUF
  /\ \A i \in 1..NBUF :
       /\ bufs[i].sector \in Sectors \cup {NoSector}
       /\ ~bufs[i].busy
       /\ bufs[i].valid => bufs[i].data \in Contents(bufs[i].sector)
  /\ lh \in Seq(Home) /\ Len(lh) <= Len(LogSector)
  /\ outstanding \in {0, 1}
  /\ committing \in BOOLEAN
  /\ pc \in {"down", "idle", "op", "writelog", "head", "headflush", "install", "clear", "clearflush"}
  /\ tail \in 0..(LOGSIZE + 1)
  /\ {stable, pending} \subseteq [Home -> Val]

\* After a crash at any point recovery rebuilds the home sectors as the last
\* transaction left them: none is torn, one whose end_op has returned is never
\* lost, one whose header was not written leaves no trace.
CrashAtomic == pc = "down" => Replayed(Latest(disk)) = stable

\* Whatever buffers were recycled, a system call reads its own writes and
\* those of every call before it.  A clean buffer is a copy of its sector, and
\* the dirty ones are the logged ones: what bget may recycle is never the only
\* copy of an update.
ReadsOwnWrites ==
  /\ pc \in {"idle", "op"} =>
       \A h \in Home : (IF Slots(bufs, h) # {} /\ bufs[Slot(bufs, h)].valid
                        THEN DataOf(bufs, h) ELSE disk[h].cur) = pending[h]
  /\ \A i \in 1..NBUF : bufs[i].valid =>
       IF bufs[i].dirty THEN bufs[i].sector \in Range(lh)
       ELSE bufs[i].data = disk[bufs[i].sector].cur

\* No step of a commit or of recovery runs out of buffers, and no log_write
\* of a call that keeps within MAXOPBLOCKS finds the log full: the panics of
\* bget and log_write are out of reach.  The state keeps its types and no buffer
\* stays busy after a step.
NoPanic ==
  /\ TypeOK
  /\ pc = "op" => ~LogRefuses /\ \A h \in Home : CanGet(bufs, h)
  /\ pc \in {"head", "clear"} => CanGet(bufs, HeadSector)
  /\ pc = "writelog" => TwoBuffers(LogSector[tail], lh[tail])
  /\ pc = "install" => TwoBuffers(LogSector[tail], lh[tail])
=============================================================================
