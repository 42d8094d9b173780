-------------------------------- MODULE Xv6Bio --------------------------------
(***************************************************************************)
(* The buffer cache of xv6 (bio.c) over its disk (ide.c on a host file:    *)
(* fuse.c writes it with pwrite and flushes it with fsync).                *)
(*                                                                         *)
(* The cache is the list bcache.head, most recently used first.  A buffer  *)
(* that is dirty holds an update that log.c has not committed yet and is   *)
(* not recycled.  The file system runs in one thread (README.txt: -s, and  *)
(* the locks of spinlock.c do nothing), so a caller holds the buffers that *)
(* it reads until it releases them and nobody waits for one.               *)
(***************************************************************************)
EXTENDS Integers, Sequences, FiniteSetsExt, AsyncDisk

CONSTANTS NBUF,     \* buffers of the cache
          NoSector  \* what a buffer that was never used holds (dev = -1)

VARIABLES disk, \* the sectors
          bufs  \* the cache, most recently used first

Unused == [sector |-> NoSector, data |-> NoSector, valid |-> FALSE, dirty |-> FALSE, busy |-> FALSE]

\* binit
FreshCache == [i \in 1..NBUF |-> Unused]

Slots(c, s) == {i \in DOMAIN c : c[i].sector = s}

\* Faulty variant of Recyclable: dirty buffers are recycled too.
RecyclableDirty(c) == {i \in DOMAIN c : ~c[i].busy}

Recyclable(c) == {i \in DOMAIN c : ~c[i].busy /\ ~c[i].dirty}

\* bget finds a buffer for the sector; otherwise it panics ("no buffers").
CanGet(c, s) == Slots(c, s) # {} \/ Recyclable(c) # {}

Slot(c, s) == CHOOSE i \in Slots(c, s) : TRUE

\* bget: the cached buffer of the sector, or the least recently used buffer
\* that is neither busy nor dirty.
BGet(c, s) ==
  IF Slots(c, s) # {}
  THEN [c EXCEPT ![Slot(c, s)].busy = TRUE]
  ELSE [c EXCEPT ![Max(Recyclable(c))] = [Unused EXCEPT !.sector = s, !.busy = TRUE]]

\* bread: iderw reads the sector when the buffer does not hold it yet.
BRead(c, s) ==
  LET g == BGet(c, s)
      i == Slot(g, s)
  IN IF g[i].valid THEN g ELSE [g EXCEPT ![i].valid = TRUE, ![i].data = disk[s].cur]

\* The data of a buffer that the caller holds, and its new data.
DataOf(c, s) == c[Slot(c, s)].data
Modify(c, s, v) == [c EXCEPT ![Slot(c, s)].data = v]

\* bwrite: the buffer goes to the disk and is clean again (iderw).
BWrite(c, s) == [c EXCEPT ![Slot(c, s)].dirty = FALSE]
Written(c, s) == WriteBlocks(disk, [x \in {s} |-> DataOf(c, s)])

\* brelse: to the head of the list.
Without(c, k) == SubSeq(c, 1, k - 1) \o SubSeq(c, k + 1, Len(c))
BRelse(c, s) == <<[c[Slot(c, s)] EXCEPT !.busy = FALSE]>> \o Without(c, Slot(c, s))

\* ideflush
IdeFlush(d) == SyncBlocks(d, DOMAIN d)
=============================================================================
