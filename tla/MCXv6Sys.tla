------------------------------- MODULE MCXv6Sys -------------------------------
(***************************************************************************)
(* Small instances of the xv6 system calls.                                *)
(***************************************************************************)
EXTENDS Xv6Sys, SequencesExt

CONSTANTS a, b, f1, f2

MCName == {a, b}
MCFile2 == {f1, f2}

Symmetry == Permutations(MCName) \cup Permutations(MCFile2)
\* bmap block by block, as the loop of writei calls it: WriteI is what the loop
\* does, whatever blocks are taken and missing.
BMap(f, i, bn) ==
  IF f.inode[i].addrs[bn] # NoBlock THEN f
  ELSE [f EXCEPT !.inode[i].addrs[bn] = Min(FreeBlocks(f)), !.used = @ \cup {Min(FreeBlocks(f))}]

Loop(f, i, off, n) ==
  LET g == FoldLeft(LAMBDA h, bn : BMap(h, i, bn), f, [k \in 1..n |-> off + k - 1])
  IN [g EXCEPT !.inode[i].size = IF off + n > @ THEN off + n ELSE @]

ASSUME WriteIIsLoop ==
  \A used \in SUBSET Block, addrs \in [0..(MaxFile - 1) -> Block \cup {NoBlock}], size \in 0..MaxFile :
    LET f == [NewFs EXCEPT !.inode[ROOTINO].addrs = addrs, !.inode[ROOTINO].size = size, !.used = used]
    IN \A off \in 0..MaxFile, n \in 1..MaxFile :
         CanWrite(f, ROOTINO, off, n) => WriteI(f, ROOTINO, off, n) = Loop(f, ROOTINO, off, n)
=============================================================================
