--------------------------------- MODULE Xv6Fs ---------------------------------
(***************************************************************************)
(* The file system structures of xv6 (fs.c): block and inode allocation,   *)
(* inode contents, directories.  A file system is a record of              *)
(*   inode  what iupdate has last written for each inode,                  *)
(*   ents   the entries of each directory, without "." and "..",           *)
(*   used   the data blocks that the bitmap marks in use.                  *)
(* Sizes and offsets count blocks.  An in-memory inode agrees with its     *)
(* block in the cache between system calls: each change is followed by     *)
(* iupdate in the same transaction.  The blocks of a directory and the     *)
(* indirect block are not counted, and no file needs the double indirect   *)
(* block.                                                                  *)
(***************************************************************************)
EXTENDS Integers, FiniteSetsExt

CONSTANTS NInodes,  \* sb.ninodes
          NBlocks,  \* data blocks of the disk
          Name,     \* names of directory entries
          MaxFile   \* MAXFILE

Inum == 1..NInodes
Block == 1..NBlocks

ROOTINO == 1
NoBlock == 0
NoInode == 0

ASSUME Xv6FsAssumption ==
  /\ NInodes \in Nat \ {0} /\ NBlocks \in Nat /\ MaxFile \in Nat
  /\ IsFiniteSet(Name)

NoAddrs == [bn \in 0..(MaxFile - 1) |-> NoBlock]
FreeInode == [type |-> "free", nlink |-> 0, size |-> 0, addrs |-> NoAddrs]
NoEntries == [n \in Name |-> NoInode]

\* mkfs: the root directory.
NewFs == [inode |-> [i \in Inum |-> IF i = ROOTINO
                                    THEN [FreeInode EXCEPT !.type = "dir", !.nlink = 1]
                                    ELSE FreeInode],
          ents  |-> [i \in Inum |-> NoEntries],
          used  |-> {}]

-----------------------------------------------------------------------------
FreeBlocks(f) == Block \ f.used

\* bmap allocates the blocks that are missing.
Missing(f, i, off, n) == {bn \in off..(off + n - 1) : f.inode[i].addrs[bn] = NoBlock}

\* How many numbers of S are below x, and the one that k of them are below.
Rank(S, x) == Cardinality({y \in S : y < x})
Nth(S, k) == CHOOSE x \in S : Rank(S, x) = k

\* balloc takes the first free block, so the loop of writei and zeroi gives the
\* missing blocks the free ones in order.
BAlloc(f, i, off, n) ==
  [bn \in Missing(f, i, off, n) |-> Nth(FreeBlocks(f), Rank(Missing(f, i, off, n), bn))]

\* The loop of writei and zeroi over n blocks from off, and the new size.
WriteI(f, i, off, n) ==
  LET new == BAlloc(f, i, off, n)
  IN [f EXCEPT !.inode[i].addrs = [bn \in DOMAIN @ |-> IF bn \in DOMAIN new THEN new[bn] ELSE @[bn]],
               !.inode[i].size = IF off + n > @ THEN off + n ELSE @,
               !.used = @ \cup {new[bn] : bn \in DOMAIN new}]

\* Neither out of range nor out of blocks.
CanWrite(f, i, off, n) ==
  /\ off + n <= MaxFile
  /\ Cardinality(Missing(f, i, off, n)) <= Cardinality(FreeBlocks(f))

Addrs(ip) == {ip.addrs[bn] : bn \in DOMAIN ip.addrs} \ {NoBlock}

\* itrunc: every block is freed.
ITrunc(f, i) ==
  [f EXCEPT !.used = @ \ Addrs(f.inode[i]),
            !.inode[i].addrs = NoAddrs,
            !.inode[i].size = 0]

\* ialloc takes the first free inode, and panics when there is none.
FreeInums(f) == {i \in Inum : f.inode[i].type = "free"}
IAlloc(f) == Min(FreeInums(f))

\* iput of the last reference frees an inode without links.
IPut(f, i) ==
  IF f.inode[i].nlink # 0 THEN f
  ELSE [ITrunc(f, i) EXCEPT !.inode[i].type = "free"]

AddLinks(f, i, k) == [f EXCEPT !.inode[i].nlink = @ + k]

-----------------------------------------------------------------------------
IsDir(f, i) == f.inode[i].type = "dir"

DirLookup(f, d, n) == f.ents[d][n]

DirLink(f, d, n, i) == [f EXCEPT !.ents[d][n] = i]

IsDirEmpty(f, i) == f.ents[i] = NoEntries

\* What namex can reach: the directories that have a name, and the root.
Linked(f, d) ==
  /\ IsDir(f, d)
  /\ d = ROOTINO \/ \E e \in Inum, n \in Name : f.ents[e][n] = d

\* create of a new inode: "." is not counted, ".." is.
Create(f, d, n, type) ==
  LET i == IAlloc(f)
      g == [f EXCEPT !.inode[i] = [FreeInode EXCEPT !.type = type, !.nlink = 1],
                     !.ents[i] = NoEntries]
  IN DirLink(IF type = "dir" THEN AddLinks(g, d, 1) ELSE g, d, n, i)

\* sys_dounlink: why it fails, and what it does; refs are the references that
\* open files hold.
UnlinkResult(f, d, n) ==
  IF DirLookup(f, d, n) = NoInode THEN "ENOENT"
  ELSE IF IsDir(f, DirLookup(f, d, n)) /\ ~IsDirEmpty(f, DirLookup(f, d, n)) THEN "error"
  ELSE "ok"

\* Faulty variants of DoUnlink: the inode is freed although it is open, and
\* the link of ".." is not given back.
DoUnlinkOpen(f, d, n, refs) ==
  LET i == DirLookup(f, d, n)
      g == DirLink(f, d, n, NoInode)
  IN IPut(AddLinks(IF IsDir(f, i) THEN AddLinks(g, d, -1) ELSE g, i, -1), i)

DoUnlinkDots(f, d, n, refs) ==
  LET i == DirLookup(f, d, n)
      h == AddLinks(DirLink(f, d, n, NoInode), i, -1)
  IN IF refs[i] = 0 THEN IPut(h, i) ELSE h

DoUnlink(f, d, n, refs) ==
  LET i == DirLookup(f, d, n)
      g == DirLink(f, d, n, NoInode)
      h == AddLinks(IF IsDir(f, i) THEN AddLinks(g, d, -1) ELSE g, i, -1)
  IN IF refs[i] = 0 THEN IPut(h, i) ELSE h
=============================================================================
