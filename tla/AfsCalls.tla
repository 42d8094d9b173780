------------------------------- MODULE AfsCalls -------------------------------
(***************************************************************************)
(* The file system's interface (AsyncFS.v): every call is a transaction on *)
(* the tree of FscqFs.tla.  A call maps the state                          *)
(*                                                                         *)
(*    s = [ds, pend, ms, err]                                              *)
(*                                                                         *)
(* to the state it leaves, with its answer in err.                         *)
(***************************************************************************)
EXTENDS FscqFs

latest(s) == s.ds[Len(s.ds)]

\* LOG.begin
Begin(s) == [d |-> latest(s), ms |-> s.ms, w |-> {}, err |-> "OK"]

\* The state after LOG.commit accepted transaction t.
Committed(s, t) ==
  [ds |-> Append(s.ds, t.d), pend |-> Append(s.pend, t.w), ms |-> t.ms, err |-> "OK"]

\* What the caller is told: a failed step, or a commit that the log refuses.
Answer(t) == IF t.err = "OK" /\ Cardinality(t.w) > LogLen THEN "ELOGOVERFLOW" ELSE t.err

\* mkdir and mksock bind the memory state of the transaction to the name of
\* the one they were called with: a failed call keeps the caches it changed.
FinishShadowed(s, t) ==
  IF Answer(t) = "OK" THEN Committed(s, t) ELSE [s EXCEPT !.ms = t.ms, !.err = Answer(t)]

\* Commit, or abort and give the caller its old caches back.
Finish(s, t) ==
  IF Answer(t) = "OK" THEN Committed(s, t) ELSE [s EXCEPT !.err = Answer(t)]

\* commit_ro
ReadOnly(s, t) == [s EXCEPT !.ms = t.ms, !.err = t.err]

\* LOG.flushall
FlushAll(s) == [s EXCEPT !.ds = <<latest(s)>>, !.pend = <<>>]

\* tree_sync (BFILE.sync): flush, and exchange the two block allocators.
TreeSync(s) == [FlushAll(s) EXCEPT !.ms.al = Other(@), !.err = "OK"]

\* Data blocks synced, and one written, past the log in a disk of the set.
Synced(e, S) == [e EXCEPT !.data = SyncBlocks(@, S)]
DWritten(e, b, v) == [e EXCEPT !.data[b] = Overwrite(@, v)]

SyncData(s, S) == [s EXCEPT !.ds = [n \in DOMAIN @ |-> Synced(@[n], S)]]

\* umount: tree_sync, then every block of the disk.
Umount(s) == SyncData(TreeSync(s), Block)

\* file_sync (BFILE.datasync): the blocks written since the last file_sync.
FileSync(s, i) == [SyncData(s, s.ms.dblocks[i]) EXCEPT !.ms.dblocks[i] = {}, !.err = "OK"]

\* Faulty variant of UpdateFblockD: the block is not remembered for file_sync.
UpdateFblockDClean(s, i, off, v) ==
  LET bn == latest(s).ino[i].blocks[off + 1]
      f  == IF <<"data", bn>> \in UNION Range(s.pend) THEN FlushAll(s) ELSE s
  IN [f EXCEPT !.ds = [n \in DOMAIN @ |-> DWritten(@[n], bn, v)],
               !.err = "OK"]

\* update_fblock_d (LOG.dwrite): past the log, into every disk of the set; a
\* block that a pending transaction wrote is flushed first, without an
\* exchange of the allocators.
UpdateFblockD(s, i, off, v) ==
  LET bn == latest(s).ino[i].blocks[off + 1]
      f  == IF <<"data", bn>> \in UNION Range(s.pend) THEN FlushAll(s) ELSE s
  IN [f EXCEPT !.ds = [n \in DOMAIN @ |-> DWritten(@[n], bn, v)],
               !.ms.dblocks[i] = @ \cup {bn},
               !.err = "OK"]

\* update_fblock: through the log.
UpdateFblock(s, i, off, v) == FinishShadowed(s, LogWrite(Begin(s), i, off, v))

FileTruncate(s, i, n) == Finish(s, Truncate(Begin(s), i, n))
FileSetSz(s, i, sz) == FinishShadowed(s, SetBytes(Begin(s), i, sz))
FileSetAttr(s, i, sz) == Finish(s, SetBytes(Begin(s), i, sz))

Create(s, d, n) == Finish(s, Make(Begin(s), d, n, FALSE))
Mkdir(s, d, n) == FinishShadowed(s, Make(Begin(s), d, n, TRUE))
\* mksock also sets the type in the inode.
Mksock(s, d, n) ==
  LET t == Make(Begin(s), d, n, FALSE)
  IN FinishShadowed(s, IF t.err = "OK" THEN [t EXCEPT !.w = @ \cup {<<"ino", 0>>}] ELSE t)
DeleteCall(s, d, n) == Finish(s, Delete(Begin(s), d, n))
RenameCall(s, sp, sn, dp, dn) == Finish(s, Rename(Begin(s), sp, sn, dp, dn))
Lookup(s, path) == ReadOnly(s, Namei(Begin(s), path).t)
ReadFblock(s, i, off) == latest(s).data[latest(s).ino[i].blocks[off + 1]].cur

\* The disks that a crash may expose: flushall writes the pending
\* transactions as one when they fit into the log, and one by one otherwise.
Exposed(s) ==
  IF Cardinality(UNION Range(s.pend)) <= LogLen THEN {1, Len(s.ds)} ELSE DOMAIN s.ds

\* recover, when the crash exposed disk n with the data f.
Recover(s, n, f) ==
  [ds |-> <<[s.ds[n] EXCEPT !.data = Flushed(f)]>>, pend |-> <<>>, ms |-> MsEmpty, err |-> "OK"]

\* shuffle_allocs: the lower half of the bitmap, of which bit 0 is not a
\* block, moves to the second allocator.
Moved == {b \in Block : b < (Cardinality(Block) + 1) \div 2}

\* mkfs and a mount: an empty root directory; the data blocks hold what was on the disk.
Mkfs(junk) ==
  [ds |-> <<[ino  |-> [i \in Inum |-> NoInode],
             dir  |-> [i \in Inum |-> EmptyMap],
             free |-> [data1 |-> Block \ Moved,
                       data2 |-> Moved,
                       inode |-> Inum \ {Root}],
             data |-> [b \in Block |-> Settled(junk)]]>>,
   pend |-> <<>>, ms |-> MsEmpty, err |-> "OK"]
=============================================================================
