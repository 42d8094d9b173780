-------------------------------- MODULE FscqFs --------------------------------
(***************************************************************************)
(* The calls of FSCQ's file system as functions of its state: allocators   *)
(* (Balloc.v), inodes with direct blocks (Inode.v), files (BFile.v),       *)
(* directories and their cache (Dir.v, DirCache.v), the tree (DirTree.v)   *)
(* and the transactions around them (AsyncFS.v).                           *)
(*                                                                         *)
(* The log below is the disk set that Log.tla justifies: ds holds the      *)
(* disks, oldest first, that the unflushed transactions lead through, and  *)
(* pend the blocks that each of them wrote.                                *)
(*                                                                         *)
(* A disk is [ino, dir, free, data]: the inodes, the entries of every      *)
(* directory, the three bitmaps and the data blocks.  ms is the memory     *)
(* state (BFILE.memstate): which block allocator is in use, the cached     *)
(* free lists (an option: a set with at most one list), the directory      *)
(* cache, and the blocks of every file that file_sync has to sync.  The    *)
(* inode cache is left out: it is written through with the transaction.    *)
(***************************************************************************)
EXTENDS AsyncDisk, Sequences, FiniteSets, Functions

CONSTANTS Block,     \* data blocks; 0, which is never handed out, is not among them
          Inum, Root, Name,
          Val, Zero,
          NBlocks,   \* INODE.NBlocks: the most blocks of a file
          DirItems,  \* directory entries in a block
          LogLen     \* blocks that fit into the log

ASSUME FsAssumption ==
  /\ IsFiniteSet(Block) /\ Block = 1 .. Cardinality(Block)
  /\ IsFiniteSet(Inum) /\ Inum \subseteq Nat \ {0}
  /\ Root \in Inum /\ \A i \in Inum : Root <= i
  /\ NBlocks \in Nat /\ DirItems \in Nat \ {0}
  \* a transaction of mkdir and mksock fits
  /\ LogLen \in Nat /\ LogLen >= 4

Allocator == {"data1", "data2", "inode"}
Other(al) == IF al = "data1" THEN "data2" ELSE "data1"

NoInode == [blocks |-> <<>>, bytes |-> 0]

\* BFILE.recover: all caches are empty.
MsEmpty ==
  [al |-> "data1", list |-> [k \in Allocator |-> {}], dcache |-> EmptyMap,
   dblocks |-> [i \in Inum |-> {}]]

-----------------------------------------------------------------------------
(***************************************************************************)
(* Inside a transaction.  t is its state: the disk d it sees, the memory   *)
(* state, the blocks w it has written and the answer err.                  *)
(***************************************************************************)
Fail(t, e) == [t EXCEPT !.err = e]

Ascending(S) ==
  [k \in 1 .. Cardinality(S) |-> CHOOSE x \in S : Cardinality({y \in S : y <= x}) = k]

\* get_free_blocks: the cached list, or the bitmap in ascending order.
FreeList(t, k) ==
  IF t.ms.list[k] = {} THEN Ascending(t.d.free[k]) ELSE CHOOSE l \in t.ms.list[k] : TRUE

\* BmapAllocCache.alloc; it hands out the head of FreeList.
Alloc(t, k) ==
  LET l == FreeList(t, k)
  IN IF l = <<>> THEN Fail([t EXCEPT !.ms.list[k] = {l}], "ENOSPC")
     ELSE [t EXCEPT !.d.free[k] = @ \ {Head(l)}, !.ms.list[k] = {Tail(l)},
                    !.w = @ \cup {<<k, 0>>}]

Reversed(s) == [k \in 1 .. Len(s) |-> s[Len(s) + 1 - k]]

\* Faulty variant of FreeVec: the cached list is left as it was.
FreeVecUncached(t, k, bns) ==
  [t EXCEPT !.d.free[k] = @ \cup Range(bns),
            !.w = IF bns = <<>> THEN @ ELSE @ \cup {<<k, 0>>}]

\* freevec: blocks go to the front of the list, if there is one.
FreeVec(t, k, bns) ==
  [t EXCEPT !.d.free[k] = @ \cup Range(bns),
            !.ms.list[k] = {Reversed(bns) \o l : l \in @},
            !.w = IF bns = <<>> THEN @ ELSE @ \cup {<<k, 0>>}]

TooBig(n) == n >= NBlocks

\* Faulty variant of Grow: the new block is not written.
GrowUnwritten(t, i, v) ==
  LET al == t.ms.al
      u  == Alloc(t, al)
      bn == Head(FreeList(t, al))
  IN IF TooBig(Len(t.d.ino[i].blocks)) THEN Fail(t, "EFBIG")
     ELSE IF u.err # "OK" THEN u
     ELSE [u EXCEPT !.d.ino[i].blocks = Append(@, bn), !.ms.dblocks[i] = @ \cup {bn},
                    !.w = @ \cup {<<"ino", 0>>, <<"data", bn>>}]

\* BFILE.grow: a block of the allocator in use, written through the log.
Grow(t, i, v) ==
  LET al == t.ms.al
      u  == Alloc(t, al)
      bn == Head(FreeList(t, al))
  IN IF TooBig(Len(t.d.ino[i].blocks)) THEN Fail(t, "EFBIG")
     ELSE IF u.err # "OK" THEN u
     ELSE [u EXCEPT !.d.ino[i].blocks = Append(@, bn),
                    !.d.data[bn] = Settled(v),
                    !.ms.dblocks[i] = @ \cup {bn},
                    !.w = @ \cup {<<"ino", 0>>, <<"data", bn>>}]

\* Faulty variant of FreesTo: blocks return to the allocator in use.
FreesToSame(t) == t.ms.al

\* shrink and reset free into the allocator that is not in use.
FreesTo(t) == Other(t.ms.al)

\* Faulty variant of Shrink: the blocks are not freed.
ShrinkLeaks(t, i, n) ==
  [t EXCEPT !.d.ino[i].blocks = SubSeq(@, 1, Len(@) - n), !.w = @ \cup {<<"ino", 0>>}]

\* BFILE.shrink by n blocks.
Shrink(t, i, n) ==
  LET bns == t.d.ino[i].blocks
      keep == Len(bns) - n
      gone == SubSeq(bns, keep + 1, Len(bns))
      u == FreeVec(t, FreesTo(t), gone)
  IN [u EXCEPT !.d.ino[i].blocks = SubSeq(bns, 1, keep),
               !.ms.dblocks[i] = @ \ Range(gone),
               !.w = @ \cup {<<"ino", 0>>}]

\* BFILE.truncate: shrink, or grown with zero blocks until one fails.
Truncate(t, i, n) ==
  LET len == Len(t.d.ino[i].blocks)
      grown[k \in 0 .. n - len] ==
        IF k = 0 THEN t
        ELSE IF grown[k - 1].err = "OK" THEN Grow(grown[k - 1], i, Zero)
        ELSE grown[k - 1]
  IN IF n < len THEN Shrink(t, i, len - n) ELSE grown[n - len]

\* BFILE.reset: the inode of a deleted file or directory.
Reset(t, i) ==
  LET u == FreeVec(t, FreesTo(t), t.d.ino[i].blocks)
      cached == DOMAIN t.ms.dcache \ {i}
  IN [u EXCEPT !.d.ino[i] = NoInode, !.ms.dblocks[i] = {},
               !.ms.dcache = [d \in cached |-> @[d]],
               !.w = @ \cup {<<"ino", 0>>}]

SetBytes(t, i, sz) == [t EXCEPT !.d.ino[i].bytes = sz, !.w = @ \cup {<<"ino", 0>>}]

\* BFILE.write: through the log.
LogWrite(t, i, off, v) ==
  LET bn == t.d.ino[i].blocks[off + 1]
  IN [t EXCEPT !.d.data[bn] = Settled(v), !.w = @ \cup {<<"data", bn>>}]

-----------------------------------------------------------------------------
\* get_dcache: the entries of a directory, read on the first use.
GetDcache(t, d) ==
  IF d \in DOMAIN t.ms.dcache THEN t
  ELSE [t EXCEPT !.ms.dcache = AddAll(@, [x \in {d} |-> t.d.dir[d]])]

\* What DirCache.lookup finds.
Has(t, d, n) == n \in DOMAIN GetDcache(t, d).ms.dcache[d]
Find(t, d, n) == GetDcache(t, d).ms.dcache[d][n]

Drop(m, n) == [x \in DOMAIN m \ {n} |-> m[x]]
Enter(m, n, e) == AddAll(m, [x \in {n} |-> e])

\* DirCache.unlink: the slot of the entry is invalidated.
Unlink(t, d, n) ==
  LET u == GetDcache(t, d)
  IN IF ~Has(t, d, n) THEN Fail(u, "ENOENT")
     ELSE [u EXCEPT !.d.dir[d] = Drop(@, n), !.ms.dcache[d] = Drop(@, n),
                    !.w = @ \cup {<<"dir", d>>}]

\* Dir.link: an invalid slot, or one more block.
Slot(t, d) ==
  IF Cardinality(DOMAIN t.d.dir[d]) < DirItems * Len(t.d.ino[d].blocks)
    THEN [t EXCEPT !.w = @ \cup {<<"dir", d>>}]
    ELSE Grow(t, d, Zero)

Link(t, d, n, i, isdir) ==
  LET u == Slot(GetDcache(t, d), d)
      e == [inum |-> i, isdir |-> isdir]
  IN IF Has(t, d, n) THEN Fail(GetDcache(t, d), "EEXIST")
     ELSE IF u.err # "OK" THEN u
     ELSE [u EXCEPT !.d.dir[d] = Enter(@, n, e), !.ms.dcache[d] = Enter(@, n, e)]

\* DIRTREE.namei from the root: a directory cache read on the way stays.
NameiStep(r, n) ==
  IF r.t.err # "OK" THEN r
  ELSE IF ~r.isdir THEN [r EXCEPT !.t = Fail(@, "ENOTDIR")]
  ELSE IF ~Has(r.t, r.inum, n)
       THEN [r EXCEPT !.t = Fail(GetDcache(@, r.inum), "ENOENT")]
  ELSE [t |-> GetDcache(r.t, r.inum), inum |-> Find(r.t, r.inum, n).inum,
        isdir |-> Find(r.t, r.inum, n).isdir]

Namei(t, path) ==
  LET walk[k \in 0 .. Len(path)] ==
        IF k = 0 THEN [t |-> t, inum |-> Root, isdir |-> TRUE]
        ELSE NameiStep(walk[k - 1], path[k])
  IN walk[Len(path)]

\* DIRTREE.mkfile and mkdir: the inode first, then the entry.
Make(t, d, n, isdir) ==
  LET i == Head(FreeList(t, "inode"))
      u == Alloc(t, "inode")
  IN IF u.err # "OK" THEN u ELSE Link(u, d, n, i, isdir)

\* DIRTREE.delete; whether a directory is empty is read from its blocks.
Delete(t, d, n) ==
  LET e == Find(t, d, n)
      u == GetDcache(t, d)
      v == Unlink(t, d, n)
  IN IF ~Has(t, d, n) THEN Fail(u, "ENOENT")
     ELSE IF e.isdir /\ DOMAIN t.d.dir[e.inum] # {} THEN Fail(u, "ENOTEMPTY")
     ELSE FreeVec(Reset(v, e.inum), "inode", <<e.inum>>)

\* Faulty variant of Rename: the target directory is looked up first.
RenameNameiFirst(t, sp, sn, dp, dn) ==
  LET s == Namei(t, sp)
      e == Find(s.t, s.inum, sn)
      d == Namei(s.t, dp)
      u == Unlink(d.t, s.inum, sn)
      v == IF Has(u, d.inum, dn) THEN Delete(u, d.inum, dn) ELSE u
  IN IF s.t.err # "OK" THEN s.t
     ELSE IF ~s.isdir THEN Fail(s.t, "ENOTDIR")
     ELSE IF ~Has(s.t, s.inum, sn) THEN Fail(s.t, "ENOENT")
     ELSE IF d.t.err # "OK" THEN d.t
     ELSE IF ~d.isdir THEN Fail(d.t, "ENOTDIR")
     ELSE IF v.err # "OK" THEN v
     ELSE Link(v, d.inum, dn, e.inum, e.isdir)

\* DIRTREE.rename: the source is unlinked before the target directory is
\* looked up, so that a directory does not find itself on the way.
Rename(t, sp, sn, dp, dn) ==
  LET s == Namei(t, sp)
      e == Find(s.t, s.inum, sn)
      d == Namei(Unlink(s.t, s.inum, sn), dp)
      v == IF Has(d.t, d.inum, dn) THEN Delete(d.t, d.inum, dn) ELSE d.t
  IN IF s.t.err # "OK" THEN s.t
     ELSE IF ~s.isdir THEN Fail(s.t, "ENOTDIR")
     ELSE IF ~Has(s.t, s.inum, sn) THEN Fail(s.t, "ENOENT")
     ELSE IF d.t.err # "OK" THEN d.t
     ELSE IF ~d.isdir THEN Fail(d.t, "ENOTDIR")
     ELSE IF v.err # "OK" THEN v
     ELSE Link(v, d.inum, dn, e.inum, e.isdir)
=============================================================================
