-------------------------------- MODULE Xv6Disk --------------------------------
(***************************************************************************)
(* The disk of xv6, sector by sector: the image that mkfs makes (mkfs.c)   *)
(* and what the block and inode layers of the kernel (fs.c) do to it.      *)
(*                                                                         *)
(* A sector is what has been written to it, with the kind of its content;  *)
(* a zeroed sector is empty for every reader.  A block holds BSIZE units   *)
(* of the size of a directory entry.  The entry of a file is its inode     *)
(* number, the content of a file is Byte: it tells inodes and offsets      *)
(* apart.  Every operation is one transaction of the log (Xv6Log).         *)
(***************************************************************************)
EXTENDS Integers, Sequences, FiniteSets, FiniteSetsExt, SequencesExt

CONSTANTS SIZE, NINODES, LOGSIZE, IPB, BPB, BSIZE, NDIRECT, NINDIRECT,
          MkFiles,      \* the sizes of the files that mkfs is given
          MaxBlocks,    \* no file has more blocks
          MaxFrees      \* truncations and unlinks in a behaviour

VARIABLES disk,
          icache,       \* icache[i]: addrs of an inode in memory, or NotLoaded
          frees

vars == <<disk, icache, frees>>

ROOTINO == 1
Inum == 1 .. NINODES - 1
Byte(i, off) == 1000 * i + off

\* The layout as mkfs.c computes it, and as the macros of fs.h and initlog do.
nbitmap == SIZE \div BPB + 1
ninodeblocks == NINODES \div IPB + 1
nmeta == 2 + ninodeblocks + nbitmap
LogStart == SIZE - LOGSIZE

IBLOCK(i) == i \div IPB + 2

\* Faulty variant of BBLOCK: the boot and super blocks are forgotten.
BBLOCKLow(b) == b \div BPB + NINODES \div IPB + 1
BBLOCK(b) == b \div BPB + NINODES \div IPB + 3

-----------------------------------------------------------------------------
Sector(kind, v) == [kind |-> kind, v |-> v]
Zeroes == Sector("zero", 0)
Content(d, s, zero) == IF d[s].kind = "zero" THEN zero ELSE d[s].v

NoAddrs == [n \in 0 .. NDIRECT + 1 |-> 0]
NoInode == [type |-> "free", size |-> 0, addrs |-> NoAddrs]

Slots(d, i) == Content(d, IBLOCK(i), [k \in 0 .. IPB - 1 |-> NoInode])
Bits(d, s) == Content(d, s, {})
Ptrs(d, s) == Content(d, s, [k \in 0 .. NINDIRECT - 1 |-> 0])
Data(d, s) == Content(d, s, [k \in 0 .. BSIZE - 1 |-> 0])

\* rinode and winode, and the inode block in ialloc, iupdate and ilock.
Inode(d, i) == Slots(d, i)[i % IPB]
WInode(d, i, ip) ==
  [d EXCEPT ![IBLOCK(i)] = Sector("inodes", [Slots(d, i) EXCEPT ![i % IPB] = ip])]

\* Units v at offset off of block s.
Put(d, s, off, v) ==
  LET new == [k \in off .. off + Len(v) - 1 |-> v[k - off + 1]]
  IN [d EXCEPT ![s] = Sector("data", new @@ Data(d, s))]

-----------------------------------------------------------------------------
(***************************************************************************)
(* mkfs: m is the image with freeinode and freeblock.                      *)
(***************************************************************************)
MkIAlloc(m, type) ==
  [m EXCEPT !.disk = WInode(m.disk, m.freeinode, [NoInode EXCEPT !.type = type]),
            !.freeinode = @ + 1]

\* Faulty variant of IAppendBlock: only a new indirect block is written.
IAppendBlockOnce(m, din, fbn) ==
  IF fbn < NDIRECT THEN
    IF din.addrs[fbn] # 0 THEN [m |-> m, din |-> din, x |-> din.addrs[fbn]]
    ELSE [m |-> [m EXCEPT !.freeblock = @ + 1], din |-> [din EXCEPT !.addrs[fbn] = m.freeblock],
          x |-> m.freeblock]
  ELSE
    LET fresh == din.addrs[NDIRECT] = 0
        ind == IF fresh THEN m.freeblock ELSE din.addrs[NDIRECT]
        free == IF fresh THEN m.freeblock + 1 ELSE m.freeblock
        ptrs == Ptrs(m.disk, ind)
    IN [m |-> [m EXCEPT !.freeblock = free + 1,
                        !.disk[ind] = IF fresh THEN Sector("ptrs", [ptrs EXCEPT ![fbn - NDIRECT] = free]) ELSE @],
        din |-> [din EXCEPT !.addrs[NDIRECT] = ind],
        x |-> free]

\* The block x of iappend, which it allocates if there is none.
IAppendBlock(m, din, fbn) ==
  IF fbn < NDIRECT THEN
    IF din.addrs[fbn] # 0 THEN [m |-> m, din |-> din, x |-> din.addrs[fbn]]
    ELSE [m |-> [m EXCEPT !.freeblock = @ + 1], din |-> [din EXCEPT !.addrs[fbn] = m.freeblock],
          x |-> m.freeblock]
  ELSE
    LET fresh == din.addrs[NDIRECT] = 0
        ind == IF fresh THEN m.freeblock ELSE din.addrs[NDIRECT]
        free == IF fresh THEN m.freeblock + 1 ELSE m.freeblock
        ptrs == Ptrs(m.disk, ind)
    IN [m |-> [m EXCEPT !.freeblock = free + 1,
                        !.disk[ind] = Sector("ptrs", [ptrs EXCEPT ![fbn - NDIRECT] = free])],
        din |-> [din EXCEPT !.addrs[NDIRECT] = ind],
        x |-> free]

\* iappend: an entry, or a part of a file that starts a block.  Neither crosses a
\* block, so that the loop runs once; a block of an indirect block is always new.
IAppend(m, i, p) ==
  LET din == Inode(m.disk, i)
      fbn == din.size \div BSIZE
      r == IAppendBlock(m, din, fbn)
      d == Put(r.m.disk, r.x, din.size - fbn * BSIZE, p)
  IN [r.m EXCEPT !.disk = WInode(d, i, [r.din EXCEPT !.size = @ + Len(p)])]

\* One file of the command line: its inode, its entry, its content by blocks.
MkFile(m, len) ==
  LET i == m.freeinode
      linked == IAppend(MkIAlloc(m, "file"), ROOTINO, <<i>>)
      file == [k \in 1 .. len |-> Byte(i, k - 1)]
      part(b) == SubSeq(file, b * BSIZE + 1, Min({len, (b + 1) * BSIZE}))
      nb == (len + BSIZE - 1) \div BSIZE
      copied[n \in 0 .. nb] == IF n = 0 THEN linked ELSE IAppend(copied[n - 1], i, part(n - 1))
  IN copied[nb]

\* The size of the root directory is made a multiple of the block size.
FixRoot(m) ==
  LET din == Inode(m.disk, ROOTINO)
  IN [m EXCEPT !.disk = WInode(@, ROOTINO, [din EXCEPT !.size = (@ \div BSIZE + 1) * BSIZE])]

\* balloc: the blocks below used, in the first bitmap block.
MkBAlloc(m, used) == [m.disk EXCEPT ![ninodeblocks + 2] = Sector("bits", 0 .. used - 1)]

\* main
Mkfs(files) ==
  LET empty == [s \in 0 .. SIZE - 1 |-> Zeroes]
      m == [disk |-> [empty EXCEPT ![1] = Sector("super", 0)], freeinode |-> 1, freeblock |-> nmeta]
      root == IAppend(IAppend(MkIAlloc(m, "dir"), ROOTINO, <<ROOTINO>>), ROOTINO, <<ROOTINO>>)
      made[n \in 0 .. Len(files)] == IF n = 0 THEN root ELSE MkFile(made[n - 1], files[n])
      all == FixRoot(made[Len(files)])
  IN MkBAlloc(all, all.freeblock)

-----------------------------------------------------------------------------
(***************************************************************************)
(* fs.c                                                                    *)
(***************************************************************************)
FreeBlocks(d) == {b \in 0 .. SIZE - 1 : b % BPB \notin Bits(d, BBLOCK(b))}

\* balloc: the first free block, zeroed; the transaction panics if there is none.
BAlloc(d) ==
  LET b == Min(FreeBlocks(d))
      s == BBLOCK(b)
  IN [d |-> [d EXCEPT ![s] = Sector("bits", Bits(d, s) \cup {b % BPB}), ![b] = Zeroes], b |-> b]

BFree(d, b) == [d EXCEPT ![BBLOCK(b)] = Sector("bits", Bits(d, BBLOCK(b)) \ {b % BPB})]

\* Entry n of addrs, or of the pointer block s, allocated if it is empty.
Own(d, addrs, n) ==
  IF addrs[n] # 0 THEN [d |-> d, addrs |-> addrs]
  ELSE LET a == BAlloc(d) IN [d |-> a.d, addrs |-> [addrs EXCEPT ![n] = a.b]]

Follow(d, s, n) ==
  IF Ptrs(d, s)[n] # 0 THEN [d |-> d, b |-> Ptrs(d, s)[n]]
  ELSE LET a == BAlloc(d)
       IN [d |-> [a.d EXCEPT ![s] = Sector("ptrs", [Ptrs(d, s) EXCEPT ![n] = a.b])], b |-> a.b]

\* bmap
BMap(d, addrs, bn) ==
  IF bn < NDIRECT THEN
    LET o == Own(d, addrs, bn) IN [d |-> o.d, addrs |-> o.addrs, b |-> o.addrs[bn]]
  ELSE IF bn - NDIRECT < NINDIRECT THEN
    LET o == Own(d, addrs, NDIRECT)
        f == Follow(o.d, o.addrs[NDIRECT], bn - NDIRECT)
    IN [d |-> f.d, addrs |-> o.addrs, b |-> f.b]
  ELSE
    LET n == bn - NDIRECT - NINDIRECT
        o == Own(d, addrs, NDIRECT + 1)
        f == Follow(o.d, o.addrs[NDIRECT + 1], n \div NINDIRECT)
        g == Follow(f.d, f.b, n % NINDIRECT)
    IN [d |-> g.d, addrs |-> o.addrs, b |-> g.b]

\* iupdate: struct inode, and so the copy, ends at addrs[NDIRECT].
IUpdate(d, i, type, size, addrs) ==
  WInode(d, i, [type |-> type, size |-> size,
                addrs |-> [addrs EXCEPT ![NDIRECT + 1] = Inode(d, i).addrs[NDIRECT + 1]]])

\* writei, at most to the end of a block.
WriteI(d, i, addrs, off, v) ==
  LET r == BMap(d, addrs, off \div BSIZE)
      p == Put(r.d, r.b, off % BSIZE, v)
      ip == Inode(d, i)
  IN [d |-> IF off + Len(v) > ip.size THEN IUpdate(p, i, ip.type, off + Len(v), r.addrs) ELSE p,
      addrs |-> r.addrs]

\* Faulty variant of ITrunc: the indirect block itself stays in use.
ITruncLeaks(d, i, addrs) ==
  LET direct == {addrs[n] : n \in 0 .. NDIRECT - 1}
      indirect == IF addrs[NDIRECT] = 0 THEN {} ELSE Range(Ptrs(d, addrs[NDIRECT]))
      freed == FoldSet(LAMBDA b, h : BFree(h, b), d, (direct \cup indirect) \ {0})
      none == [n \in DOMAIN addrs |-> IF n <= NDIRECT THEN 0 ELSE addrs[n]]
  IN [d |-> IUpdate(freed, i, Inode(d, i).type, 0, none), addrs |-> none]

\* itrunc
ITrunc(d, i, addrs) ==
  LET direct == {addrs[n] : n \in 0 .. NDIRECT}
      indirect == IF addrs[NDIRECT] = 0 THEN {} ELSE Range(Ptrs(d, addrs[NDIRECT]))
      freed == FoldSet(LAMBDA b, h : BFree(h, b), d, (direct \cup indirect) \ {0})
      none == [n \in DOMAIN addrs |-> IF n <= NDIRECT THEN 0 ELSE addrs[n]]
  IN [d |-> IUpdate(freed, i, Inode(d, i).type, 0, none), addrs |-> none]

\* The block that bmap finds without allocating, or 0.
Found(d, addrs, bn) ==
  IF bn < NDIRECT THEN addrs[bn]
  ELSE IF bn - NDIRECT < NINDIRECT
    THEN IF addrs[NDIRECT] = 0 THEN 0 ELSE Ptrs(d, addrs[NDIRECT])[bn - NDIRECT]
  ELSE LET n == bn - NDIRECT - NINDIRECT
           s == addrs[NDIRECT + 1]
       IN IF s = 0 \/ Ptrs(d, s)[n \div NINDIRECT] = 0 THEN 0
          ELSE Ptrs(d, Ptrs(d, s)[n \div NINDIRECT])[n % NINDIRECT]

-----------------------------------------------------------------------------
NotLoaded == <<>>
RootAddrs == Inode(disk, ROOTINO).addrs
Entries == Inode(disk, ROOTINO).size
Entry(off) == Data(disk, Found(disk, RootAddrs, off \div BSIZE))[off % BSIZE]

\* A call allocates at most two blocks for pointers and one for data.
Room == Cardinality(FreeBlocks(disk)) >= 3

Init ==
  /\ \E files \in MkFiles : disk = Mkfs(files)
  /\ icache = [i \in Inum |-> NotLoaded]
  /\ frees = 0

\* ilock reads addrs[0..NDIRECT] into a new entry of the cache.
ILock(i) ==
  /\ i # ROOTINO /\ icache[i] = NotLoaded /\ Inode(disk, i).type # "free"
  /\ icache' = [icache EXCEPT ![i] = [Inode(disk, i).addrs EXCEPT ![NDIRECT + 1] = 0]]
  /\ UNCHANGED <<disk, frees>>

\* The last iput of an inode that has links; its entry of the cache is used again.
IPut(i) ==
  /\ icache[i] # NotLoaded
  /\ icache' = [icache EXCEPT ![i] = NotLoaded]
  /\ UNCHANGED <<disk, frees>>

\* write of block bn, at most at the end of the file.  What bmap takes for
\* addrs[NDIRECT+1] is the field dev of the next entry of the cache: what bmap stored
\* there, or ROOTDEV once iget has used that entry.  Then the size in the
\* superblock is read as a block number and unix_read exits.
SysWrite(i, bn) ==
  /\ icache[i] # NotLoaded /\ Inode(disk, i).type = "file" /\ Room
  /\ bn * BSIZE <= Inode(disk, i).size
  /\ \E exits \in IF bn >= NDIRECT + NINDIRECT THEN BOOLEAN ELSE {FALSE} :
       LET w == WriteI(disk, i, icache[i], bn * BSIZE,
                       [k \in 1 .. BSIZE |-> Byte(i, bn * BSIZE + k - 1)])
       IN /\ disk' = IF exits THEN disk ELSE w.d
          /\ icache' = IF exits THEN [j \in Inum |-> NotLoaded] ELSE [icache EXCEPT ![i] = w.addrs]
  /\ UNCHANGED frees

\* sys_truncate
SysTruncate(i) ==
  /\ icache[i] # NotLoaded /\ Inode(disk, i).type = "file"
  /\ frees < MaxFrees /\ frees' = frees + 1
  /\ LET t == ITrunc(disk, i, icache[i]) IN disk' = t.d /\ icache' = [icache EXCEPT ![i] = t.addrs]

\* create in the root: ialloc takes the first free inode, dirlink the first free
\* entry or the end.
SysCreate ==
  LET free == {i \in Inum : Inode(disk, i).type = "free"}
      i == Min(free)
      unused == {off \in 0 .. Entries - 1 : Entry(off) = 0}
      off == IF unused = {} THEN Entries ELSE Min(unused)
      new == WInode(disk, i, [NoInode EXCEPT !.type = "file"])
  IN /\ free # {} /\ Room
     /\ disk' = WriteI(new, ROOTINO, RootAddrs, off, <<i>>).d
     /\ UNCHANGED <<icache, frees>>

\* sys_dounlink of a file that nobody has open: iput frees the inode.
SysUnlink(i) ==
  /\ i # ROOTINO /\ icache[i] # NotLoaded
  /\ frees < MaxFrees /\ frees' = frees + 1
  /\ LET off == CHOOSE o \in 0 .. Entries - 1 : Entry(o) = i
         t == ITrunc(WriteI(disk, ROOTINO, RootAddrs, off, <<0>>).d, i, icache[i])
     IN disk' = IUpdate(t.d, i, "free", 0, t.addrs)
  /\ icache' = [icache EXCEPT ![i] = NotLoaded]

\* The server starts again.
Restart == icache' = [i \in Inum |-> NotLoaded] /\ UNCHANGED <<disk, frees>>

Next ==
  \/ \E i \in Inum : ILock(i) \/ IPut(i) \/ SysTruncate(i) \/ SysUnlink(i)
  \/ \E i \in Inum, bn \in 0 .. MaxBlocks - 1 : SysWrite(i, bn)
  \/ SysCreate \/ Restart

Spec == Init /\ [][Next]_vars

-----------------------------------------------------------------------------
Live == {i \in Inum : Inode(disk, i).type # "free"}

\* The blocks of an inode as they are on disk.
Direct(i) == Range(Inode(disk, i).addrs) \ {0}
Indirect(i) ==
  IF Inode(disk, i).addrs[NDIRECT] = 0 THEN {} ELSE Range(Ptrs(disk, Inode(disk, i).addrs[NDIRECT])) \ {0}
Blocks(i) == Direct(i) \cup Indirect(i)

\* mkfs and the kernel agree on the layout: every sector holds the kind of
\* content that its place on the disk, or the pointer to it, is for, and every
\* block of the root below its size exists.  dirlookup and readdirent read the
\* root outside transactions, where bmap cannot allocate: log_write panics.
LayoutAgrees ==
  /\ disk[1].kind = "super"
  /\ \A i \in Inum : disk[IBLOCK(i)].kind \in {"inodes", "zero"} /\ IBLOCK(i) < ninodeblocks + 2
  /\ \A b \in 0 .. SIZE - 1 : disk[BBLOCK(b)].kind \in {"bits", "zero"} /\ BBLOCK(b) < nmeta
  /\ \A i \in Live : \A b \in Blocks(i) :
       disk[b].kind \in {"zero", IF b = Inode(disk, i).addrs[NDIRECT] THEN "ptrs" ELSE "data"}
  /\ \A off \in 0 .. Entries - 1 : Found(disk, RootAddrs, off \div BSIZE) # 0

\* The bitmap marks the metadata and the blocks that some inode has, and no
\* others, and no block belongs to two inodes: blocks are neither lost nor shared through
\* truncation, reuse, and the indirect block.
BlocksExact ==
  /\ FreeBlocks(disk) = (nmeta .. SIZE - 1) \ UNION {Blocks(i) : i \in Live}
  /\ \A i, j \in Live : i # j => Blocks(i) \cap Blocks(j) = {}
  /\ \A i \in Live : Direct(i) \cap Indirect(i) = {}

\* A file reads, through bmap, what mkfs or the last write put at each offset, also after
\* its entry in the cache was used for another inode.
ReadsBack ==
  \A i \in Live \ {ROOTINO} : \A off \in 0 .. Inode(disk, i).size - 1 :
    LET addrs == IF icache[i] = NotLoaded THEN Inode(disk, i).addrs ELSE icache[i]
        b == Found(disk, addrs, off \div BSIZE)
    IN b # 0 /\ Data(disk, b)[off % BSIZE] = Byte(i, off)
=============================================================================
