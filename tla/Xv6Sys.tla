--------------------------------- MODULE Xv6Sys ---------------------------------
(***************************************************************************)
(* The system calls of xv6 (sysfile.c, file.c) as fuse.c calls them, on    *)
(* the structures of Xv6Fs.                                                *)
(*                                                                         *)
(* One thread serves the calls (README.txt: -s).  A transaction, begin_op  *)
(* to end_op, is one step: Xv6Log shows that a crash keeps all of it or    *)
(* nothing.  A path is a directory that has a name and an entry of it; a   *)
(* path whose directory does not exist fails without any effect.  The      *)
(* kernel looks a path up before it asks for a change, so an operation     *)
(* meets the kind of entry it is for.  getattr, readdir and read change    *)
(* nothing.  lost is a history variable: the inodes that had no link when  *)
(* a crash made their last reference vanish.                               *)
(***************************************************************************)
EXTENDS Xv6Fs

CONSTANTS File,       \* the slots of ftable
          MaxTxn,     \* blocks that filewrite puts into one transaction
          MaxUnderrun \* bound on how far outstanding may fall below zero

ASSUME Xv6SysAssumption == MaxTxn \in Nat \ {0} /\ MaxUnderrun \in Nat /\ IsFiniteSet(File)

VARIABLES fs,          \* the file system, in the cache
          stable,      \* the file system that a crash goes back to
          outstanding, \* how many system calls are executing, says log.c
          open,        \* ftable: the inode and the mode of each open file
          call,        \* the write that is running: file, offset, blocks left
          lost

vars == <<fs, stable, outstanding, open, call, lost>>

Closed == [ip |-> NoInode, writable |-> FALSE]
NoCall == [file |-> NoInode, off |-> 0, n |-> 0]

\* ip->ref between two calls.
Refs == [i \in Inum |-> Cardinality({s \in File : open[s].ip = i})]

Init ==
  /\ fs = NewFs
  /\ stable = NewFs
  /\ outstanding = 0
  /\ open = [s \in File |-> Closed]
  /\ call = NoCall
  /\ lost = {}

-----------------------------------------------------------------------------
\* The process exits (panic) or the host crashes: memory is lost, recovery
\* finds the last commit.
Die ==
  /\ fs' = stable
  /\ outstanding' = 0
  /\ open' = [s \in File |-> Closed]
  /\ call' = NoCall
  /\ lost' = {i \in Inum : stable.inode[i].type # "free" /\ stable.inode[i].nlink = 0}
  /\ UNCHANGED stable

\* A transaction that makes g of the file system and calls end_op ends times.
\* log_write panics unless a call is outstanding; the end_op that reaches
\* zero commits.
Runs(g, ends) ==
  /\ fs' = g
  /\ outstanding' = outstanding + 1 - ends
  /\ stable' = IF outstanding = 0 THEN g ELSE stable
  /\ UNCHANGED lost

\* The transaction of a call other than write.
Txn(g, ends) == Runs(g, ends) /\ UNCHANGED call

\* log_write accepts a block after begin_op.
InTrans == outstanding + 1 >= 1

Idle == call = NoCall
Dirs == {d \in Inum : Linked(fs, d)}

Entry(d, n, types) ==
  DirLookup(fs, d, n) # NoInode /\ fs.inode[DirLookup(fs, d, n)].type \in types

-----------------------------------------------------------------------------
\* sys_open of an existing file.
SysOpen(d, n, writable) ==
  /\ Idle
  /\ Entry(d, n, {"file"})
  /\ \E s \in File :
       /\ open[s] = Closed
       /\ open' = [open EXCEPT ![s] = [ip |-> DirLookup(fs, d, n), writable |-> writable]]
  /\ Txn(fs, 1)

\* sys_open with O_CREATE of a new name.  When ftable is full the call fails,
\* but the file stays.
SysCreate(d, n, writable) ==
  /\ Idle
  /\ DirLookup(fs, d, n) = NoInode
  /\ IF FreeInums(fs) = {} \/ ~InTrans
     THEN Die
     ELSE /\ Txn(Create(fs, d, n, "file"), 1)
          /\ IF \E s \in File : open[s] = Closed
             THEN \E s \in File :
                    /\ open[s] = Closed
                    /\ open' = [open EXCEPT ![s] = [ip |-> IAlloc(fs), writable |-> writable]]
             ELSE UNCHANGED open

\* sys_mkdir and sys_mksock.
SysMake(d, n, type) ==
  /\ Idle
  /\ DirLookup(fs, d, n) = NoInode
  /\ IF FreeInums(fs) = {} \/ ~InTrans
     THEN Die
     ELSE Txn(Create(fs, d, n, type), 1) /\ UNCHANGED open

\* fileclose: the last reference to an inode without links frees it.
FileClose(s) ==
  LET i == open[s].ip
      frees == Refs[i] = 1 /\ fs.inode[i].nlink = 0
  IN /\ Idle
     /\ open[s] # Closed
     /\ IF frees /\ ~InTrans
        THEN Die
        ELSE /\ Txn(IF frees THEN IPut(fs, i) ELSE fs, 1)
             /\ open' = [open EXCEPT ![s] = Closed]

\* sys_truncate to zero; the file may be open elsewhere.
SysTruncate(d, n) ==
  /\ Idle
  /\ Entry(d, n, {"file"})
  /\ \E s \in File : open[s] = Closed
  /\ IF InTrans
     THEN Txn(ITrunc(fs, DirLookup(fs, d, n)), 1) /\ UNCHANGED open
     ELSE Die

\* sys_utime: times are not modelled, the iupdate in its transaction is.
SysUtime(d, n) ==
  /\ Idle
  /\ Entry(d, n, {"file", "sock"})
  /\ \E s \in File : open[s] = Closed
  /\ IF InTrans THEN Txn(fs, 1) /\ UNCHANGED open ELSE Die

\* sys_unlink, for unlink and rmdir.
SysUnlink(d, n) ==
  /\ Idle
  /\ UnlinkResult(fs, d, n) = "ok"
  /\ IF InTrans THEN Txn(DoUnlink(fs, d, n, Refs), 1) /\ UNCHANGED open ELSE Die

\* The kernel asks to rename an entry that exists, onto another path, which
\* is free or of the same kind, and not into itself.
Renames(d1, n1, d2, n2) ==
  /\ Entry(d1, n1, {"dir", "file", "sock"})
  /\ <<d1, n1>> # <<d2, n2>> /\ d2 # DirLookup(fs, d1, n1)
  /\ DirLookup(fs, d2, n2) # NoInode =>
       /\ DirLookup(fs, d2, n2) # d1
       /\ IsDir(fs, DirLookup(fs, d1, n1)) <=> IsDir(fs, DirLookup(fs, d2, n2))

\* sys_rename: the target is unlinked, the source linked under the new name
\* and unlinked.  sys_dolink fails for a source that is a directory, and
\* calls end_op before sys_rename does.
SysRename(d1, n1, d2, n2) ==
  LET r == UnlinkResult(fs, d2, n2)
      g == IF r = "ok" THEN DoUnlink(fs, d2, n2, Refs) ELSE fs
      i == DirLookup(g, d1, n1)
      dolinkFails == i = NoInode \/ IsDir(g, i)
      linked == DirLink(AddLinks(g, i, 1), d2, n2, i)
  IN /\ Idle
     /\ Renames(d1, n1, d2, n2)
     /\ r # "error"
     /\ outstanding > -MaxUnderrun
     /\ IF ~InTrans /\ (r = "ok" \/ ~dolinkFails)
        THEN Die
        ELSE /\ IF dolinkFails THEN Txn(g, 2) ELSE Txn(DoUnlink(linked, d1, n1, Refs), 1)
             /\ UNCHANGED open

-----------------------------------------------------------------------------
\* filewrite at an offset that fuse.c gives.
FileWrite(s, off, n) ==
  /\ Idle
  /\ open[s].writable
  /\ call' = [file |-> s, off |-> off, n |-> n]
  /\ UNCHANGED <<fs, stable, outstanding, open, lost>>

\* A transaction of filewrite: n blocks at off, then the write goes on as next.
WriteTxn(i, off, n, next) ==
  IF InTrans /\ CanWrite(fs, i, off, n)
  THEN /\ Runs(WriteI(fs, i, off, n), 1)
       /\ call' = next
       /\ UNCHANGED open
  ELSE Die

\* filewrite fills a hole before it writes, in one transaction.
FillHole ==
  LET i == open[call.file].ip
      size == fs.inode[i].size
  IN /\ ~Idle
     /\ call.off > size
     /\ WriteTxn(i, size, call.off - size, call)

\* Faulty variant of WriteSome: it does not wait for the hole to be filled.
WriteOverHole ==
  LET i == open[call.file].ip
      n == Min({call.n, MaxTxn})
  IN /\ ~Idle
     /\ call.off + n <= MaxFile
     /\ WriteTxn(i, call.off, n,
                 IF n = call.n THEN NoCall ELSE [call EXCEPT !.off = @ + n, !.n = @ - n])

\* One round of the loop of filewrite.
WriteSome ==
  LET i == open[call.file].ip
      n == Min({call.n, MaxTxn})
  IN /\ ~Idle
     /\ call.off <= fs.inode[i].size
     /\ call.off + n <= MaxFile
     /\ WriteTxn(i, call.off, n,
                 IF n = call.n THEN NoCall ELSE [call EXCEPT !.off = @ + n, !.n = @ - n])

\* writei refuses what is out of range, and the call ends.
WriteTooBig ==
  /\ ~Idle
  /\ call.off <= fs.inode[open[call.file].ip].size
  /\ call.off + Min({call.n, MaxTxn}) > MaxFile
  /\ call' = NoCall
  /\ Runs(fs, 1)
  /\ UNCHANGED open

Crash == Die

Next ==
  \/ \E d \in Dirs, n \in Name :
       \/ \E w \in BOOLEAN : SysOpen(d, n, w) \/ SysCreate(d, n, w)
       \/ \E type \in {"dir", "sock"} : SysMake(d, n, type)
       \/ SysTruncate(d, n) \/ SysUtime(d, n)
       \/ SysUnlink(d, n)
       \/ \E d2 \in Dirs, n2 \in Name : SysRename(d, n, d2, n2)
  \/ \E s \in File : FileClose(s) \/ \E off \in 0..MaxFile, n \in 1..MaxFile : FileWrite(s, off, n)
  \/ FillHole \/ WriteSome \/ WriteTooBig
  \/ Crash

Spec == Init /\ [][Next]_vars

-----------------------------------------------------------------------------
Inode == [type : {"free", "dir", "file", "sock"}, nlink : Nat, size : 0..MaxFile,
          addrs : [0..(MaxFile - 1) -> Block \cup {NoBlock}]]

TypeOK ==
  /\ \A f \in {fs, stable} :
       /\ f.inode \in [Inum -> Inode]
       /\ f.ents \in [Inum -> [Name -> Inum \cup {NoInode}]]
       /\ f.used \subseteq Block
  /\ outstanding \in -MaxUnderrun..0
  /\ open \in [File -> [ip : Inum \cup {NoInode}, writable : BOOLEAN]]
  /\ call.file \in File \cup {NoInode} /\ call.off \in 0..MaxFile /\ call.n \in 0..MaxFile
  /\ lost \subseteq Inum

Entries(f, i) == {e \in Inum \X Name : f.ents[e[1]][e[2]] = i}
Subdirs(f, i) == {n \in Name : f.ents[i][n] # NoInode /\ IsDir(f, f.ents[i][n])}

\* Link counts are what a check of the directory tree would count, in the
\* running file system and in the one that a crash goes back to: a rename or
\* an unlink that fails half way, and its crash, leave no entry of a free
\* inode and no inode with a wrong count.  Inodes, entries and handles keep
\* their types.
LinksMatch ==
  /\ TypeOK
  /\ \A f \in {fs, stable}, i \in Inum :
       /\ Entries(f, i) # {} => f.inode[i].type # "free"
       /\ f.inode[i].type \in {"file", "sock"} => f.inode[i].nlink = Cardinality(Entries(f, i))
       /\ IsDir(f, i) => /\ f.inode[i].nlink = 1 + Cardinality(Subdirs(f, i))
                         /\ Cardinality(Entries(f, i)) = IF i = ROOTINO THEN 0 ELSE 1

\* Each block in use belongs to one place of one inode, and the bitmap marks
\* exactly these: itrunc frees what bmap allocated, once.  Every block below the
\* size of a file is there, so the bmap of readi never allocates: fileread runs
\* outside a transaction, where log_write panics.
BlocksOwned ==
  \A f \in {fs, stable} :
    /\ f.used = UNION {Addrs(f.inode[i]) : i \in Inum}
    /\ \A i, j \in Inum : i # j => Addrs(f.inode[i]) \cap Addrs(f.inode[j]) = {}
    /\ \A i \in Inum : \A bn, bm \in DOMAIN f.inode[i].addrs :
         bn # bm /\ f.inode[i].addrs[bn] # NoBlock => f.inode[i].addrs[bn] # f.inode[i].addrs[bm]
    /\ \A i \in Inum : \A bn \in 0..(f.inode[i].size - 1) : f.inode[i].addrs[bn] # NoBlock

\* An open file keeps its inode, whatever was unlinked, renamed over or
\* truncated meanwhile, and an inode without links is freed with its last
\* reference; only a crash that takes the reference away leaves one behind.
InodesHeld ==
  /\ \A s \in File : open[s] # Closed => fs.inode[open[s].ip].type = "file"
  /\ \A i \in Inum : fs.inode[i].type # "free" /\ fs.inode[i].nlink = 0 =>
       Refs[i] > 0 \/ i \in lost

\* "how many FS sys calls are executing" (log.c:45): between two calls, none.
OutstandingCounts == Idle => outstanding = 0
=============================================================================
