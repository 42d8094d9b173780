------------------------------- MODULE AsyncFs --------------------------------
(***************************************************************************)
(* FSCQ's file system as its server uses it: calls of AsyncFS.v in any     *)
(* order, one at a time, and crashes.  Unflushed transactions, direct      *)
(* writes past the log, two allocators that change roles at every          *)
(* tree_sync, and caches that must follow aborts and crashes.              *)
(***************************************************************************)
EXTENDS AfsCalls

CONSTANTS Junk,      \* what the disk held before mkfs
          Mixes      \* the mixes of calls that behaviours are made of: records of
                     \*   deleted  names of entries that are deleted
                     \*   dirs     names that mkdir and mksock are called with
                     \*   paths    paths of directories for rename and lookup
                     \*   lengths  lengths, in blocks, for file_truncate
                     \*   sizes    sizes for file_set_sz and file_set_attr
                     \*   written  files that are written to and synced
                     \*   txns     bound on the transactions that wait for a flush

VARIABLES sys,
          mix        \* the mix of this behaviour

vars == <<sys, mix>>

ASSUME MixAssumption ==
  /\ Mixes \subseteq [deleted : SUBSET Name, dirs : SUBSET Name, paths : SUBSET Seq(Name),
                      lengths : SUBSET Nat, sizes : SUBSET Nat, written : SUBSET Inum, txns : Nat]
  /\ {Zero, Junk} \cup Inum \subseteq Val

NewVal(i) == i       \* the value that writes of file i are made with

Files(d) == {i \in Inum : \E p \in Inum : \E n \in DOMAIN d.dir[p] :
                            d.dir[p][n] = [inum |-> i, isdir |-> FALSE]}
Dirs(d) == {i \in Inum : i = Root \/ \E p \in Inum : \E n \in DOMAIN d.dir[p] :
                            d.dir[p][n] = [inum |-> i, isdir |-> TRUE]}

now == latest(sys)
MayCommit == Len(sys.pend) < mix.txns

\* A call is made; its answer, which the caller gets, is not kept.
Does(s) == sys' = [s EXCEPT !.err = "OK"] /\ UNCHANGED mix

Init == sys = Mkfs(Junk) /\ mix \in Mixes

SysCreate(d, n) == MayCommit /\ d \in Dirs(now) /\ Does(Create(sys, d, n))
SysMkdir(d, n) == MayCommit /\ d \in Dirs(now) /\ Does(Mkdir(sys, d, n))
SysMksock(d, n) == MayCommit /\ d \in Dirs(now) /\ Does(Mksock(sys, d, n))
SysDelete(d, n) == MayCommit /\ d \in Dirs(now) /\ Does(DeleteCall(sys, d, n))
SysRename(sp, sn, dp, dn) == MayCommit /\ Does(RenameCall(sys, sp, sn, dp, dn))
SysLookup(p) == Does(Lookup(sys, p))

SysTruncate(i, n) == MayCommit /\ i \in Files(now) /\ Does(FileTruncate(sys, i, n))
SysSetSz(i, sz) == MayCommit /\ i \in Files(now) /\ Does(FileSetSz(sys, i, sz))
SysSetAttr(i, sz) == MayCommit /\ i \in Files(now) /\ Does(FileSetAttr(sys, i, sz))

SysUpdate(i, off) ==
  /\ MayCommit
  /\ i \in Files(now) /\ off < Len(now.ino[i].blocks)
  /\ Does(UpdateFblock(sys, i, off, NewVal(i)))

SysUpdateD(i, off) ==
  /\ i \in Files(now) /\ off < Len(now.ino[i].blocks)
  /\ Does(UpdateFblockD(sys, i, off, NewVal(i)))

SysFileSync(i) == i \in Files(now) /\ Does(FileSync(sys, i))
SysTreeSync == Does(TreeSync(sys))
SysUmount == Does(Umount(sys))

Crash ==
  /\ \E n \in Exposed(sys) : \E f \in CrashOutcomes(sys.ds[n].data) : sys' = Recover(sys, n, f)
  /\ UNCHANGED mix

Next ==
  \/ \E d \in Inum, n \in Name : SysCreate(d, n)
  \/ \E d \in Inum, n \in mix.deleted : SysDelete(d, n)
  \/ \E d \in Inum, n \in mix.dirs : SysMkdir(d, n) \/ SysMksock(d, n)
  \/ \E sp, dp \in mix.paths, sn, dn \in Name : SysRename(sp, sn, dp, dn)
  \/ \E p \in mix.paths : SysLookup(p)
  \/ \E i \in Inum, n \in mix.lengths : SysTruncate(i, n)
  \/ \E i \in mix.written, off \in 0 .. NBlocks - 1 : SysUpdate(i, off) \/ SysUpdateD(i, off)
  \/ \E i \in Inum, sz \in mix.sizes : SysSetSz(i, sz) \/ SysSetAttr(i, sz)
  \/ \E i \in mix.written : SysFileSync(i)
  \/ SysTreeSync \/ SysUmount \/ Crash

Spec == Init /\ [][Next]_vars

-----------------------------------------------------------------------------
\* Block b is block off of inode i (block_belong_to_file).
Belongs(d, b, i, off) == off < Len(d.ino[i].blocks) /\ d.ino[i].blocks[off + 1] = b

Owners(d, b) == {o \in Inum \X (0 .. NBlocks - 1) : Belongs(d, b, o[1], o[2])}

Pools(d, b) == {k \in {"data1", "data2"} : b \in d.free[k]}

\* In every disk that a crash may expose, every block belongs to one file or to
\* one of the two bitmaps: allocation, shrink, reset and a change of allocator
\* between the two neither lose a block nor hand it out twice.
BlocksOwnedOnce ==
  \A n \in DOMAIN sys.ds, b \in Block :
    Cardinality(Owners(sys.ds[n], b)) + Cardinality(Pools(sys.ds[n], b)) = 1

\* A block of a file in the newest disk is, in every older disk of the set, the
\* same block of the same file or unused (ilist_safe of BFile.v): a direct
\* write, which changes all of these disks, cannot reach another file.
OwnersAgree ==
  \A n \in DOMAIN sys.ds, b \in Block, i \in Inum : \A off \in 0 .. NBlocks - 1 :
    Belongs(now, b, i, off) =>
      Belongs(sys.ds[n], b, i, off) \/ Owners(sys.ds[n], b) = {}

\* Whatever a crash exposes, a file never shows a block that was written for
\* another file or that was on the disk before mkfs.
OwnData ==
  \A n \in DOMAIN sys.ds : \A i \in Files(sys.ds[n]) :
    \A b \in Range(sys.ds[n].ino[i].blocks) :
      Merge(sys.ds[n].data[b]) \subseteq {Zero, NewVal(i)}

\* The caches follow the disk, even after calls that failed half way.  The
\* cached free lists (cache_rep of Balloc.v): no block is in one twice, the
\* lists of the block allocators are exactly the bitmaps, and no list offers an
\* inode that is in use.  The list of inodes may fall short of its bitmap, since
\* mkdir and mksock keep the list of an attempt that they abort.  DirCache.rep:
\* a cached directory has the entries of the directory, after links, unlinks,
\* renames and reuse of its inode.
CachesFollow ==
  /\ \A k \in Allocator : \A l \in sys.ms.list[k] :
       /\ Cardinality(Range(l)) = Len(l)
       /\ Range(l) \subseteq now.free[k]
       /\ k # "inode" => Range(l) = now.free[k]
  /\ \A d \in DOMAIN sys.ms.dcache : sys.ms.dcache[d] = now.dir[d]

TypeOK ==
  /\ Len(sys.ds) = Len(sys.pend) + 1
  /\ \A n \in DOMAIN sys.ds :
       /\ sys.ds[n].ino \in [Inum -> [blocks : Seq(Block), bytes : Nat]]
       /\ \A i \in Inum : Len(sys.ds[n].ino[i].blocks) <= NBlocks
       /\ sys.ds[n].free \in [Allocator -> SUBSET (Block \cup Inum)]
       /\ sys.ds[n].data \in [Block -> ValuSet(Val)]
  /\ sys.ms.al \in {"data1", "data2"}
  /\ sys.ms.dblocks \in [Inum -> SUBSET Block]

Entries(d) == {e \in Inum \X Name : e[2] \in DOMAIN d.dir[e[1]]}
Target(d, e) == d.dir[e[1]][e[2]].inum

\* Every disk of the set holds a tree: each inode is free or has one entry, the
\* root has none, only directories have entries, and no set of directories
\* hangs together without the root.  Disks and caches keep their types.
TreeShaped ==
  TypeOK /\ \A n \in DOMAIN sys.ds :
    LET d == sys.ds[n]
        entries == Entries(d)
        dirs == Dirs(d)
    IN /\ \A i \in Inum : Cardinality({e \in entries : Target(d, e) = i})
                           = IF i = Root \/ i \in d.free["inode"] THEN 0 ELSE 1
       /\ \A e \in entries : e[1] \in dirs
       /\ \A S \in SUBSET (Inum \ ({Root} \cup d.free["inode"])) :
            S # {} => \E e \in entries : Target(d, e) \in S /\ e[1] \notin S

\* A block that file_sync would not sync needs no sync: the set of dirty blocks
\* follows direct writes, growth, truncation, aborts and deletion.
CleanIsDurable ==
  \A i \in Files(now) : \A b \in Range(now.ino[i].blocks) \ sys.ms.dblocks[i] :
    now.data[b].old = {}
=============================================================================
