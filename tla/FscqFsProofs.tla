----------------------------- MODULE FscqFsProofs -----------------------------
(******************************************************************************)
(* What every operation of a transaction and every call of AsyncFS.v keeps,   *)
(* for every number of blocks, inodes and names and every size of the log,    *)
(* whether it succeeds or fails half way.                                     *)
(*                                                                            *)
(* The invariant of a transaction (TInv) has two halves.  The blocks speak of *)
(* inodes, bitmaps, data and dirty blocks: Once, Pooled and Kinds (every      *)
(* block has one place), Safe (ilist_safe of BFile.v), Clean and Shows.  The  *)
(* tree (Tree) speaks of entries and free inodes, with the inode that a create*)
(* or a rename has in hand.  Lists and Cached tie the caches to the disk.     *)
(* The invariant of the system (SInv) asks the same of every disk of the set. *)
(*                                                                            *)
(* Each section is one lemma with a step per operation; what later sections   *)
(* use of it has a definition (UnlinkTree, GrowInv, CreateInv ...).           *)
(******************************************************************************)
EXTENDS AfsCalls, TLAPS

\* Zenon proves the steps that name no other prover.
USE Zenon

\* The types of the parts of a disk, of the memory state and of a transaction.
BlockSeq == Seq(Block)
InoRec == [blocks : BlockSeq, bytes : Nat]
InoType == [Inum -> InoRec]
Entry == [inum : Inum, isdir : BOOLEAN]
DirMap == Maps(Name, Entry)
DirType == [Inum -> DirMap]
Item == Block \cup Inum
FreeSet == SUBSET Item
FreeType == [Allocator -> FreeSet]
Valus == ValuSet(Val)
DataType == [Block -> Valus]
AlType == {"data1", "data2"}
ListSet == SUBSET Seq(Item)
ListType == [Allocator -> ListSet]
CacheType == Maps(Inum, DirMap)
BlockSet == SUBSET Block
DirtyType == [Inum -> BlockSet]
Areas == {"data1", "data2", "inode", "ino", "data", "dir"}
Answers == {"OK", "ENOSPC", "EFBIG", "ENOENT", "EEXIST", "ENOTDIR", "ENOTEMPTY"}
Written == SUBSET (Areas \X Nat)

-----------------------------------------------------------------------------
\* The free lists.
\* A list of elements of S, none of them twice; and one that has all of them.
IsList(l, S) ==
  /\ l \in Seq(Item)
  /\ \A j \in 1 .. Len(l) : l[j] \in S
  /\ \A j, k \in 1 .. Len(l) : l[j] = l[k] => j = k
Full(l, S) == \A x \in S : \E j \in 1 .. Len(l) : l[j] = x

\* The cached lists: those of blocks are the bitmaps, that of inodes may fall short.
ListOK(l, S, k) == IsList(l, S) /\ (k # "inode" => Full(l, S))
Lists(F, L) == \A k \in Allocator : \A l \in L[k] : ListOK(l, F[k], k)

\* What is known of counting: the theorems on finite sets and on the order of the
\* numbers, as far as the lemmas need them, and that the values of the files are
\* values.  The lemmas assume it; AsyncFsProofs proves it of all constants.
Known ==
  /\ Block \subseteq Nat /\ Zero \in Val /\ Inum \subseteq Val
  /\ \A T \in SUBSET Nat : T # {} => \E x \in T : x - 1 \notin T
  /\ \A S \in SUBSET Item : IsList(Ascending(S), S) /\ Full(Ascending(S), S)
  /\ \A a, b, c, d, X : X \subseteq {a, b, c, d} => ~(Cardinality(X) > LogLen)

Disk == [ino : InoType, dir : DirType, free : FreeType, data : DataType]
Mem == [al : AlType, list : ListType, dcache : CacheType, dblocks : DirtyType]
Txn == [d : Disk, ms : Mem, w : Written, err : Answers]

SetAt(f, x, y) == [f EXCEPT ![x] = y]

\* The constants.
LEMMA Constants ==
  /\ Inum \subseteq Nat /\ 0 \notin Inum /\ Root \in Inum
  /\ NBlocks \in Nat /\ DirItems \in Nat /\ LogLen \in Nat /\ LogLen >= 4
BY FsAssumption, SMT

-----------------------------------------------------------------------------
\* Repetition.
\* A set of numbers that is not empty has an element whose predecessor is not in it.
LEMMA First ==
  ASSUME Known, NEW T, T \subseteq Nat, T # {}
  PROVE  \E x \in T : x \in Nat /\ x - 1 \notin T
<1>1. T \in SUBSET Nat BY SMT
<1> QED BY <1>1 DEF Known

\* get_free_blocks reads the bitmap in full and in ascending order.
LEMMA AscendingIs ==
  ASSUME Known, NEW S \in SUBSET Item
  PROVE  IsList(Ascending(S), S) /\ Full(Ascending(S), S)
BY DEF Known

\* The number of blocks of a transaction.
LEMMA FourFit ==
  ASSUME Known, NEW a, NEW b, NEW c, NEW d, NEW X, X \subseteq {a, b, c, d}
  PROVE  ~(Cardinality(X) > LogLen)
BY DEF Known

\* What the first of n + 1 states is and every step keeps, all of them are.
LEMMA Stays ==
  ASSUME Known, NEW X, NEW n \in Nat, NEW h, h[0] \in X, \A k \in 1 .. n : h[k - 1] \in X => h[k] \in X
  PROVE  \A k \in 0 .. n : h[k] \in X
<1> SUFFICES ASSUME NEW k \in 0 .. n, h[k] \notin X PROVE FALSE OBVIOUS
<1>1. PICK T : T = {j \in Nat : j <= n /\ h[j] \notin X} OBVIOUS
<1>2. T \subseteq Nat /\ T # {}
  <2>1. k \in Nat /\ k <= n BY SMT
  <2> QED BY <2>1, <1>1
<1>3. PICK x \in T : x \in Nat /\ x - 1 \notin T BY <1>2, First
<1>4. x <= n /\ h[x] \notin X BY <1>1, <1>3
<1>5. x # 0 BY <1>4
<1>6. x \in 1 .. n /\ x - 1 \in Nat /\ x - 1 <= n BY <1>3, <1>4, <1>5, SMT
<1> QED BY <1>1, <1>3, <1>4, <1>6

\* A step that keeps X can be taken n times.
CanRun(X, F, x, n) == \E g \in [0 .. n -> X] : g[0] = x /\ \A k \in 1 .. n : g[k] = F[<<g[k - 1], k>>]
\* The states of n steps exist.
LEMMA Iterates ==
  ASSUME Known, NEW X, NEW F \in [X \X Nat -> X], NEW x \in X, NEW n \in Nat
  PROVE  CanRun(X, F, x, n)
<1> DEFINE Runs(m) == \E g \in [0 .. m -> X] : g[0] = x /\ \A k \in 1 .. m : g[k] = F[<<g[k - 1], k>>]
<1>1. Runs(0)
  <2>1. PICK g : g = [k \in 0 .. 0 |-> x] OBVIOUS
  <2>2. 0 \in 0 .. 0 /\ \A k : k \notin 1 .. 0 BY SMT
  <2>3. g \in [0 .. 0 -> X] /\ g[0] = x BY <2>1, <2>2
  <2> QED BY <2>2, <2>3
<1>2. ASSUME NEW m \in Nat, m # 0, Runs(m - 1) PROVE Runs(m)
  <2>1. PICK f \in [0 .. m - 1 -> X] : f[0] = x /\ \A k \in 1 .. m - 1 : f[k] = F[<<f[k - 1], k>>]
    BY <1>2
  <2>2. PICK y : y = F[<<f[m - 1], m>>] OBVIOUS
  <2>3. m - 1 \in 0 .. m - 1 /\ 0 \in 0 .. m - 1 /\ 0 # m /\ m - 1 # m /\ 0 \in 0 .. m
        /\ \A k \in 0 .. m : k = m \/ k \in 0 .. m - 1
    BY <1>2, SMT
  <2>4. y \in X BY <2>2, <2>3
  <2>5. PICK g : g = [k \in 0 .. m |-> IF k = m THEN y ELSE f[k]] OBVIOUS
  <2>6. g \in [0 .. m -> X] BY <2>3, <2>4, <2>5
  <2>7. g[0] = x BY <2>1, <2>3, <2>5
  <2>8. ASSUME NEW k \in 1 .. m PROVE g[k] = F[<<g[k - 1], k>>]
    <3>1. k \in 0 .. m /\ k - 1 \in 0 .. m /\ k - 1 # m /\ (k # m => k \in 1 .. m - 1) BY <1>2, SMT
    <3>2. g[k - 1] = f[k - 1] BY <3>1, <2>5
    <3>3. CASE k = m
      <4>1. g[m] = y BY <3>1, <3>3, <2>5
      <4> QED BY <4>1, <3>2, <3>3, <2>2
    <3>4. CASE k # m BY <3>1, <3>2, <3>4, <2>1, <2>5
    <3> QED BY <3>3, <3>4
  <2> QED BY <2>6, <2>7, <2>8
<1> HIDE DEF Runs
<1>3. ASSUME ~Runs(n) PROVE FALSE
  <2>1. PICK T : T = {j \in Nat : ~Runs(j)} OBVIOUS
  <2>2. T \subseteq Nat /\ T # {} BY <1>3, <2>1
  <2>3. PICK m \in T : m \in Nat /\ m - 1 \notin T BY <2>2, First
  <2>4. ~Runs(m) BY <2>1, <2>3
  <2>5. m # 0 BY <2>4, <1>1
  <2>6. m - 1 \in Nat BY <2>3, <2>5, SMT
  <2>7. Runs(m - 1) BY <2>1, <2>3, <2>6
  <2> QED BY <2>3, <2>4, <2>5, <2>7, <1>2
<1> QED BY <1>3 DEF Runs, CanRun

-----------------------------------------------------------------------------
\* The tree.
\* Name n of directory d leads to inode i; and the entry calls i a directory.
Ent(E, d, n, i) == n \in DOMAIN E[d] /\ E[d][n].inum = i
Sub(E, d, n, i) == Ent(E, d, n, i) /\ E[d][n].isdir = TRUE

\* A set of inodes has an entry from outside; d can be reached from the root;
\* d is a directory; i has no entries.
Entered(E, S) == \E c \in Inum, m \in Name, i \in S : c \notin S /\ Ent(E, c, m, i)
Reach(E, d) == \A S \in SUBSET Inum : d \in S /\ Root \notin S => Entered(E, S)
DirAt(E, d) == d = Root \/ \E c \in Inum, m \in Name : Sub(E, c, m, d)
Bare(E, i) == \A m \in Name, j \in Inum : ~Ent(E, i, m, j)

\* Entries E and free inodes N are a tree, apart from the inode x, if it is not 0,
\* that is neither free nor entered: it was taken from the allocator or unlinked.
\* s says that it is a directory.
Loners(N, x) == Root \notin N /\ x \notin N /\ x # Root
Unique(E) ==
  \A c, d \in Inum, m, n \in Name, i \in Inum : Ent(E, c, m, i) /\ Ent(E, d, n, i) => c = d /\ m = n
Targets(E, N, x) ==
  \A d \in Inum, n \in Name, i \in Inum : Ent(E, d, n, i) => i \notin N /\ i # Root /\ i # x
Parents(E, x, s) ==
  \A d \in Inum, n \in Name, i \in Inum : Ent(E, d, n, i) => (d = x /\ s = TRUE) \/ DirAt(E, d)
Rooted(E, N, x) ==
  \A S \in SUBSET Inum : S # {} /\ Root \notin S /\ x \notin S /\ (\A i \in S : i \notin N) => Entered(E, S)
Tree(E, N, x, s) ==
  Loners(N, x) /\ Unique(E) /\ Targets(E, N, x) /\ Parents(E, x, s) /\ Rooted(E, N, x)

\* One entry less, one entry more.
Unlinked(E, G, d, n) ==
  \A c \in Inum, m \in Name, j \in Inum :
    /\ Ent(G, c, m, j) <=> Ent(E, c, m, j) /\ ~(c = d /\ m = n)
    /\ Sub(G, c, m, j) <=> Sub(E, c, m, j) /\ ~(c = d /\ m = n)
Linked(E, G, d, n, i, s) ==
  \A c \in Inum, m \in Name, j \in Inum :
    /\ Ent(G, c, m, j) <=> Ent(E, c, m, j) \/ (c = d /\ m = n /\ j = i)
    /\ Sub(G, c, m, j) <=> Sub(E, c, m, j) \/ (c = d /\ m = n /\ j = i /\ s = TRUE)

\* unlink leaves the target loose.
UnlinkTree ==
  \A E, G, N, s : \A d, i \in Inum, n \in Name :
     Tree(E, N, 0, FALSE) /\ Ent(E, d, n, i) /\ Unlinked(E, G, d, n) /\
     (Sub(E, d, n, i) => s = TRUE)
     => Tree(G, N, i, s)

\* alloc takes an inode out of the free ones.
AllocTree ==
  \A E, N, s : \A x \in N :
     Tree(E, N, 0, FALSE)
     => Tree(E, N \ {x}, x, s)

\* A directory of a tree without loose inode can be reached from the root, and
\* so can what an entry of a directory that can be reached leads to.
ReachDirs ==
  \A E, N : \A d \in Inum :
     Tree(E, N, 0, FALSE) /\ DirAt(E, d)
     => Reach(E, d)

ReachStep ==
  \A E : \A d, i \in Inum, n \in Name :
     Ent(E, d, n, i) /\ Reach(E, d)
     => Reach(E, i)

\* Linking the loose inode into a directory that can be reached without it.
LinkTree ==
  \A E, G, s : \A N \in SUBSET Inum, d, x \in Inum, n \in Name :
     Tree(E, N, x, s) /\ Linked(E, G, d, n, x, s) /\ DirAt(E, d) /\ Reach(E, d)
     => Tree(G, N, 0, FALSE)

\* The target of an entry that is not of a directory has no entries.
FileBare ==
  \A E, N, x, s : \A d, i \in Inum, n \in Name :
     Tree(E, N, x, s) /\ Ent(E, d, n, i) /\ ~Sub(E, d, n, i)
     => Bare(E, i)

\* delete frees the target, which has no entries.
DeleteTree ==
  \A E, G, N, x, s : \A d, i \in Inum, n \in Name :
     Tree(E, N, x, s) /\ Ent(E, d, n, i) /\ Bare(E, i) /\ Unlinked(E, G, d, n)
     => Tree(G, N \cup {i}, x, s) /\ (Reach(E, d) => Reach(G, d)) /\ (DirAt(E, d) => DirAt(G, d))

\* The entries and the free inodes stay a tree, apart from the inode in hand, in every
\* step of an operation on directories.
LEMMA TreeSteps ==
  UnlinkTree /\ AllocTree /\ ReachDirs /\ ReachStep /\ LinkTree /\ FileBare /\ DeleteTree
\* A set keeps its entry from outside unless that is the one unlinked.
<1>StaysEntered. ASSUME NEW E, NEW G, NEW d \in Inum, NEW n \in Name, NEW i \in Inum, Ent(E, d, n, i),
             Unlinked(E, G, d, n), NEW S \in SUBSET Inum, Entered(E, S), i \notin S \/ d \in S
      PROVE  Entered(G, S)
  <2> USE <1>StaysEntered
  <2>1. PICK c \in Inum, m \in Name, j \in S : c \notin S /\ Ent(E, c, m, j) BY DEF Entered
  <2>2. ~(c = d /\ m = n)
    <3>1. c = d /\ m = n => j = i BY <2>1 DEF Ent
    <3> QED BY <3>1, <2>1
  <2>3. Ent(G, c, m, j) BY <2>1, <2>2 DEF Unlinked
  <2> QED BY <2>1, <2>3 DEF Entered
\* With an entry less, names still lead to different inodes, none of them to the one unlinked.
<1>UnlinkUnique. ASSUME NEW E, NEW G, NEW d \in Inum, NEW n \in Name, NEW i \in Inum, Ent(E, d, n, i),
             Unlinked(E, G, d, n), Unique(E)
      PROVE  Unique(G) /\ \A c \in Inum, m \in Name : ~Ent(G, c, m, i)
  <2> USE <1>UnlinkUnique
  <2>1. ASSUME NEW c \in Inum, NEW m \in Name, NEW j \in Inum, Ent(G, c, m, j)
        PROVE  Ent(E, c, m, j) /\ ~(c = d /\ m = n)
    BY <2>1 DEF Unlinked
  <2>2. ASSUME NEW c \in Inum, NEW e \in Inum, NEW m \in Name, NEW k \in Name, NEW j \in Inum,
               Ent(G, c, m, j), Ent(G, e, k, j)
        PROVE  c = e /\ m = k
    <3>1. Ent(E, c, m, j) /\ Ent(E, e, k, j) BY <2>1, <2>2
    <3> QED BY <3>1, SMT DEF Unique
  <2>3. Unique(G) BY <2>2 DEF Unique
  <2>4. ASSUME NEW c \in Inum, NEW m \in Name, Ent(G, c, m, i) PROVE FALSE
    <3>1. Ent(E, c, m, i) /\ ~(c = d /\ m = n) BY <2>1, <2>4
    <3> QED BY <3>1 DEF Unique
  <2> QED BY <2>3, <2>4
\* A directory stays one unless its entry is the one unlinked.
<1>UnlinkDir. ASSUME NEW E, NEW G, NEW d \in Inum, NEW n \in Name, NEW i \in Inum, Ent(E, d, n, i),
             Unlinked(E, G, d, n), NEW c \in Inum, DirAt(E, c)
      PROVE  DirAt(G, c) \/ (c = i /\ Sub(E, d, n, i))
  <2> USE <1>UnlinkDir
  <2>1. CASE c = Root BY <2>1 DEF DirAt
  <2>2. CASE \E e \in Inum, k \in Name : Sub(E, e, k, c)
    <3>1. PICK e \in Inum, k \in Name : Sub(E, e, k, c) BY <2>2
    <3>2. CASE e = d /\ k = n
      <4>1. c = i BY <3>1, <3>2 DEF Ent, Sub
      <4> QED BY <4>1, <3>1, <3>2
    <3>3. CASE ~(e = d /\ k = n)
      <4>1. Sub(G, e, k, c) BY <3>1, <3>3 DEF Unlinked
      <4> QED BY <4>1 DEF DirAt
    <3> QED BY <3>2, <3>3
  <2> QED BY <2>1, <2>2 DEF DirAt
\* unlink leaves the target loose.
<1>UnlinkTree. ASSUME NEW E, NEW G, NEW N, NEW d \in Inum, NEW n \in Name, NEW i \in Inum, NEW s,
             Tree(E, N, 0, FALSE), Ent(E, d, n, i), Unlinked(E, G, d, n), Sub(E, d, n, i) => s = TRUE
      PROVE  Tree(G, N, i, s)
  <2> USE <1>UnlinkTree
  <2>1. Unique(E) /\ Targets(E, N, 0) /\ Parents(E, 0, FALSE) /\ Rooted(E, N, 0) /\ Loners(N, 0) BY DEF Tree
  <2>2. Loners(N, i) BY <2>1 DEF Loners, Targets
  <2>3. ASSUME NEW c \in Inum, NEW m \in Name, NEW j \in Inum, Ent(G, c, m, j) PROVE Ent(E, c, m, j)
    BY <2>3 DEF Unlinked
  <2>4. Unique(G) /\ \A c \in Inum, m \in Name : ~Ent(G, c, m, i) BY <2>1, <1>UnlinkUnique
  <2>5. Targets(G, N, i)
    <3> SUFFICES ASSUME NEW c \in Inum, NEW m \in Name, NEW j \in Inum, Ent(G, c, m, j)
                 PROVE  j \notin N /\ j # Root /\ j # i
      BY DEF Targets
    <3>1. Ent(E, c, m, j) BY <2>3
    <3> QED BY <3>1, <2>1, <2>4 DEF Targets
  <2>6. Parents(G, i, s)
    <3> SUFFICES ASSUME NEW c \in Inum, NEW m \in Name, NEW j \in Inum, Ent(G, c, m, j)
                 PROVE  (c = i /\ s = TRUE) \/ DirAt(G, c)
      BY DEF Parents
    <3>1. Ent(E, c, m, j) BY <2>3
    <3>2. (c = 0 /\ FALSE = TRUE) \/ DirAt(E, c) BY <3>1, <2>1 DEF Parents
    <3> QED BY <3>2, <1>UnlinkDir
  <2>7. Rooted(G, N, i)
    <3> SUFFICES ASSUME NEW S \in SUBSET Inum, S # {}, Root \notin S, i \notin S, \A j \in S : j \notin N
                 PROVE  Entered(G, S)
      BY DEF Rooted
    <3>1. 0 \notin S BY Constants
    <3>2. Entered(E, S) BY <3>1, <2>1 DEF Rooted
    <3> QED BY <3>2, <1>StaysEntered
  <2> QED BY <2>2, <2>4, <2>5, <2>6, <2>7 DEF Tree
\* alloc takes an inode out of the free ones.
<1>AllocTree. ASSUME NEW E, NEW N, NEW x \in N, NEW s, Tree(E, N, 0, FALSE)
      PROVE  Tree(E, N \ {x}, x, s)
  <2> USE <1>AllocTree
  <2>1. Unique(E) /\ Targets(E, N, 0) /\ Parents(E, 0, FALSE) /\ Rooted(E, N, 0) /\ Loners(N, 0) BY DEF Tree
  <2>2. Loners(N \ {x}, x) BY <2>1 DEF Loners
  <2>3. Targets(E, N \ {x}, x) BY <2>1 DEF Targets
  <2>4. Parents(E, x, s) BY <2>1 DEF Parents
  <2>5. Rooted(E, N \ {x}, x)
    <3> SUFFICES ASSUME NEW S \in SUBSET Inum, S # {}, Root \notin S, x \notin S, \A i \in S : i \notin N \ {x}
                 PROVE  Entered(E, S)
      BY DEF Rooted
    <3>1. 0 \notin S BY Constants
    <3>2. \A i \in S : i \notin N OBVIOUS
    <3> QED BY <3>1, <3>2, <2>1 DEF Rooted
  <2> QED BY <2>1, <2>2, <2>3, <2>4, <2>5 DEF Tree
\* A directory of a tree without loose inode can be reached from the root, and
\* so can what an entry of a directory that can be reached leads to.
<1>ReachDirs. ASSUME NEW E, NEW N, Tree(E, N, 0, FALSE), NEW d \in Inum, DirAt(E, d)
      PROVE  Reach(E, d)
  <2> USE <1>ReachDirs
  <2>1. Unique(E) /\ Targets(E, N, 0) /\ Parents(E, 0, FALSE) /\ Rooted(E, N, 0) /\ Loners(N, 0) BY DEF Tree
  <2>2. ASSUME NEW c \in Inum, DirAt(E, c) PROVE c \notin N BY <2>1, <2>2 DEF DirAt, Targets, Loners, Sub
  <2> SUFFICES ASSUME NEW S \in SUBSET Inum, d \in S, Root \notin S PROVE Entered(E, S) BY DEF Reach
  <2>3. PICK T : T = {i \in S : i \notin N} OBVIOUS
  <2>4. T \in SUBSET Inum /\ T # {} /\ Root \notin T /\ 0 \notin T /\ \A i \in T : i \notin N
    BY <2>2, <2>3, Constants
  <2>5. Entered(E, T) BY <2>1, <2>4 DEF Rooted
  <2>6. PICK c \in Inum, m \in Name, i \in T : c \notin T /\ Ent(E, c, m, i) BY <2>5 DEF Entered
  <2>7. i \in S /\ i \in Inum BY <2>3, <2>6
  <2>8. DirAt(E, c) BY <2>1, <2>6, <2>7 DEF Parents
  <2>9. c \notin S BY <2>2, <2>3, <2>6, <2>8
  <2> QED BY <2>6, <2>7, <2>9 DEF Entered
<1>ReachStep. ASSUME NEW E, NEW d \in Inum, NEW n \in Name, NEW i \in Inum, Ent(E, d, n, i), Reach(E, d)
      PROVE  Reach(E, i)
  <2> USE <1>ReachStep
  <2> SUFFICES ASSUME NEW S \in SUBSET Inum, i \in S, Root \notin S PROVE Entered(E, S) BY DEF Reach
  <2>1. CASE d \in S BY <2>1 DEF Reach
  <2>2. CASE d \notin S BY <2>2 DEF Entered
  <2> QED BY <2>1, <2>2
\* Linking the loose inode into a directory that can be reached without it.
<1>LinkTree. ASSUME NEW E, NEW G, NEW N \in SUBSET Inum, NEW d \in Inum, NEW n \in Name, NEW x \in Inum, NEW s,
             Tree(E, N, x, s), Linked(E, G, d, n, x, s), DirAt(E, d), Reach(E, d)
      PROVE  Tree(G, N, 0, FALSE)
  <2> USE <1>LinkTree
  <2>1. Unique(E) /\ Targets(E, N, x) /\ Parents(E, x, s) /\ Rooted(E, N, x) /\ Loners(N, x) BY DEF Tree
  <2>2. 0 \notin Inum /\ Root \in Inum BY Constants
  <2>3. ASSUME NEW c \in Inum, NEW m \in Name, NEW j \in Inum, Ent(G, c, m, j)
        PROVE  (Ent(E, c, m, j) /\ j # x) \/ (c = d /\ m = n /\ j = x)
    <3>1. Ent(E, c, m, j) \/ (c = d /\ m = n /\ j = x) BY <2>3 DEF Linked
    <3>2. Ent(E, c, m, j) => j # x BY <2>1 DEF Targets
    <3> QED BY <3>1, <3>2
  <2>4. ASSUME NEW c \in Inum, NEW m \in Name, NEW j \in Inum, Ent(E, c, m, j) PROVE Ent(G, c, m, j)
    BY <2>4 DEF Linked
  <2>5. Loners(N, 0) BY <2>1, <2>2 DEF Loners
  <2>6. Unique(G)
    <3> SUFFICES ASSUME NEW c \in Inum, NEW e \in Inum, NEW m \in Name, NEW k \in Name, NEW j \in Inum,
                        Ent(G, c, m, j), Ent(G, e, k, j)
                 PROVE  c = e /\ m = k
      BY DEF Unique
    <3>1. (Ent(E, c, m, j) /\ j # x) \/ (c = d /\ m = n /\ j = x) BY <2>3
    <3>2. (Ent(E, e, k, j) /\ j # x) \/ (e = d /\ k = n /\ j = x) BY <2>3
    <3>3. Ent(E, c, m, j) /\ Ent(E, e, k, j) => c = e /\ m = k BY <2>1 DEF Unique
    <3> QED BY <3>1, <3>2, <3>3
  <2>7. Targets(G, N, 0)
    <3> SUFFICES ASSUME NEW c \in Inum, NEW m \in Name, NEW j \in Inum, Ent(G, c, m, j)
                 PROVE  j \notin N /\ j # Root /\ j # 0
      BY DEF Targets
    <3>1. CASE j = x BY <3>1, <2>1, <2>2 DEF Loners
    <3>2. CASE Ent(E, c, m, j) BY <3>2, <2>1, <2>2 DEF Targets
    <3> QED BY <3>1, <3>2, <2>3
  <2>8. ASSUME NEW c \in Inum, DirAt(E, c) PROVE DirAt(G, c)
    <3>1. \A e \in Inum, k \in Name : Sub(E, e, k, c) => Sub(G, e, k, c) BY DEF Linked
    <3> QED BY <3>1, <2>8 DEF DirAt
  <2>9. s = TRUE => DirAt(G, x)
    <3>1. s = TRUE => Sub(G, d, n, x) BY DEF Linked
    <3> QED BY <3>1 DEF DirAt
  <2>10. Parents(G, 0, FALSE)
    <3> SUFFICES ASSUME NEW c \in Inum, NEW m \in Name, NEW j \in Inum, Ent(G, c, m, j) PROVE DirAt(G, c)
      BY DEF Parents
    <3>1. CASE Ent(E, c, m, j)
      <4>1. (c = x /\ s = TRUE) \/ DirAt(E, c) BY <3>1, <2>1 DEF Parents
      <4> QED BY <4>1, <2>8, <2>9
    <3>2. CASE c = d BY <3>2, <2>8
    <3> QED BY <3>1, <3>2, <2>3
  <2>11. ASSUME NEW S \in SUBSET Inum, Entered(E, S) PROVE Entered(G, S)
    <3>1. PICK c \in Inum, m \in Name, j \in S : c \notin S /\ Ent(E, c, m, j) BY <2>11 DEF Entered
    <3>2. Ent(G, c, m, j) BY <3>1, <2>4
    <3> QED BY <3>1, <3>2 DEF Entered
  <2>12. Rooted(G, N, 0)
    <3> SUFFICES ASSUME NEW S \in SUBSET Inum, S # {}, Root \notin S, \A j \in S : j \notin N PROVE Entered(G, S)
      BY DEF Rooted
    <3>1. CASE x \notin S
      <4>1. Entered(E, S) BY <3>1, <2>1 DEF Rooted
      <4> QED BY <4>1, <2>11
    <3>2. CASE d \in S
      <4>1. Entered(E, S) BY <3>2 DEF Reach
      <4> QED BY <4>1, <2>11
    <3>3. CASE x \in S /\ d \notin S
      <4>1. Ent(G, d, n, x) BY DEF Linked
      <4> QED BY <4>1, <3>3 DEF Entered
    <3> QED BY <3>1, <3>2, <3>3
  <2> QED BY <2>5, <2>6, <2>7, <2>10, <2>12 DEF Tree
\* The target of an entry that is not of a directory has no entries.
<1>FileBare. ASSUME NEW E, NEW N, NEW x, NEW s, Tree(E, N, x, s), NEW d \in Inum, NEW n \in Name, NEW i \in Inum,
             Ent(E, d, n, i), ~Sub(E, d, n, i)
      PROVE  Bare(E, i)
  <2> USE <1>FileBare
  <2>1. Unique(E) /\ Targets(E, N, x) /\ Parents(E, x, s) BY DEF Tree
  <2> SUFFICES ASSUME NEW m \in Name, NEW j \in Inum, Ent(E, i, m, j) PROVE FALSE BY DEF Bare
  <2>2. i # x /\ i # Root BY <2>1 DEF Targets
  <2>3. PICK c \in Inum, k \in Name : Sub(E, c, k, i) BY <2>1, <2>2 DEF Parents, DirAt
  <2>4. Ent(E, c, k, i) BY <2>3 DEF Sub
  <2>5. c = d /\ k = n BY <2>1, <2>4 DEF Unique
  <2> QED BY <2>3, <2>5
\* delete frees the target, which has no entries.
<1>DeleteTree. ASSUME NEW E, NEW G, NEW N, NEW x, NEW s, NEW d \in Inum, NEW n \in Name, NEW i \in Inum,
             Tree(E, N, x, s), Ent(E, d, n, i), Bare(E, i), Unlinked(E, G, d, n)
      PROVE  Tree(G, N \cup {i}, x, s) /\ (Reach(E, d) => Reach(G, d)) /\ (DirAt(E, d) => DirAt(G, d))
  <2> USE <1>DeleteTree
  <2>1. Unique(E) /\ Targets(E, N, x) /\ Parents(E, x, s) /\ Rooted(E, N, x) /\ Loners(N, x) BY DEF Tree
  <2>2. i # x /\ i # Root /\ i \notin N BY <2>1 DEF Targets
  <2>3. d # i BY DEF Bare
  <2>4. ASSUME NEW c \in Inum, NEW m \in Name, NEW j \in Inum, Ent(G, c, m, j) PROVE Ent(E, c, m, j)
    BY <2>4 DEF Unlinked
  <2>5. Loners(N \cup {i}, x) BY <2>1, <2>2 DEF Loners
  <2>6. Unique(G) /\ \A c \in Inum, m \in Name : ~Ent(G, c, m, i) BY <2>1, <1>UnlinkUnique
  <2>7. Targets(G, N \cup {i}, x)
    <3> SUFFICES ASSUME NEW c \in Inum, NEW m \in Name, NEW j \in Inum, Ent(G, c, m, j)
                 PROVE  j \notin N \cup {i} /\ j # Root /\ j # x
      BY DEF Targets
    <3>1. Ent(E, c, m, j) BY <2>4
    <3>2. j \notin N /\ j # Root /\ j # x BY <3>1, <2>1 DEF Targets
    <3>3. j # i BY <2>6
    <3> QED BY <3>2, <3>3
  <2>8. ASSUME NEW c \in Inum, c # i, DirAt(E, c) PROVE DirAt(G, c) BY <2>8, <1>UnlinkDir
  <2>9. Parents(G, x, s)
    <3> SUFFICES ASSUME NEW c \in Inum, NEW m \in Name, NEW j \in Inum, Ent(G, c, m, j)
                 PROVE  (c = x /\ s = TRUE) \/ DirAt(G, c)
      BY DEF Parents
    <3>1. Ent(E, c, m, j) BY <2>4
    <3>2. c # i BY <3>1 DEF Bare
    <3>3. (c = x /\ s = TRUE) \/ DirAt(E, c) BY <3>1, <2>1 DEF Parents
    <3> QED BY <3>2, <3>3, <2>8
  <2>10. Rooted(G, N \cup {i}, x)
    <3> SUFFICES ASSUME NEW S \in SUBSET Inum, S # {}, Root \notin S, x \notin S, \A j \in S : j \notin N \cup {i}
                 PROVE  Entered(G, S)
      BY DEF Rooted
    <3>1. i \notin S /\ \A j \in S : j \notin N OBVIOUS
    <3>2. Entered(E, S) BY <3>1, <2>1 DEF Rooted
    <3> QED BY <3>1, <3>2, <1>StaysEntered
  <2>11. ASSUME Reach(E, d) PROVE Reach(G, d)
    <3> SUFFICES ASSUME NEW S \in SUBSET Inum, d \in S, Root \notin S PROVE Entered(G, S) BY DEF Reach
    <3>1. PICK T : T = S \ {i} OBVIOUS
    <3>2. T \in SUBSET Inum /\ d \in T /\ Root \notin T BY <3>1, <2>3
    <3>3. Entered(E, T) BY <3>2, <2>11 DEF Reach
    <3>4. PICK c \in Inum, m \in Name, j \in T : c \notin T /\ Ent(E, c, m, j) BY <3>3 DEF Entered
    <3>5. j \in S /\ j \in Inum BY <3>1, <3>4
    <3>6. c # i BY <3>4, <3>5 DEF Bare
    <3>7. c \notin S /\ c # d BY <3>1, <3>2, <3>4, <3>6
    <3>8. Ent(G, c, m, j) BY <3>4, <3>5, <3>7 DEF Unlinked
    <3> QED BY <3>5, <3>7, <3>8 DEF Entered
  <2>12. Tree(G, N \cup {i}, x, s) BY <2>5, <2>6, <2>7, <2>9, <2>10 DEF Tree
  <2> QED BY <2>3, <2>8, <2>11, <2>12
<1>1. UnlinkTree
  <2> USE DEF UnlinkTree
  <2> TAKE E, G, N, s
  <2> TAKE d, i \in Inum, n \in Name
  <2> HAVE Tree(E, N, 0, FALSE) /\ Ent(E, d, n, i) /\ Unlinked(E, G, d, n) /\ (Sub(E, d, n, i) => s = TRUE)
  <2> QED BY <1>UnlinkTree
<1>2. AllocTree BY <1>AllocTree DEF AllocTree
<1>3. ReachDirs BY <1>ReachDirs DEF ReachDirs
<1>4. ReachStep BY <1>ReachStep DEF ReachStep
<1>5. LinkTree BY <1>LinkTree, ZenonT(40) DEF LinkTree
<1>6. FileBare BY <1>FileBare, SMT DEF FileBare
<1>7. DeleteTree BY <1>DeleteTree, SMT DEF DeleteTree
<1> QED BY <1>1, <1>2, <1>3, <1>4, <1>5, <1>6, <1>7

-----------------------------------------------------------------------------
\* The blocks of the inodes I, the bitmaps F, the data V, the dirty blocks B.
\* Block b is the j-th of inode i.
At(I, b, i, j) == j \in 1 .. Len(I[i].blocks) /\ I[i].blocks[j] = b
Owned(I, b) == \E i \in Inum, j \in Nat : At(I, b, i, j)

\* Every block is in one place: a file or one of the two bitmaps.
Once(I) ==
  \A a, i \in Inum, b \in Block, j, k \in Nat : At(I, b, a, j) /\ At(I, b, i, k) => a = i /\ j = k
Pooled(I, F, A) ==
  \A b \in Block : /\ b \in F[A] => b \notin F[Other(A)]
                   /\ Owned(I, b) <=> b \notin F[A] /\ b \notin F[Other(A)]
Kinds(F) == F["data1"] \subseteq Block /\ F["data2"] \subseteq Block /\ F["inode"] \subseteq Inum
Short(I) == \A i \in Inum : Len(I[i].blocks) <= NBlocks

\* What the allocator in use has is in no file of any disk of the set, and a
\* block that a file has now is nowhere the block of another one.
SafeOne(e, A, I, F) ==
  /\ \A b \in Block : b \in F[A] => ~Owned(e.ino, b)
  /\ \A i \in Inum, b \in Block, j \in Nat :
       At(I, b, i, j) => At(e.ino, b, i, j) \/ ~Owned(e.ino, b)
Safe(ds, A, I, F) == \A n \in DOMAIN ds : SafeOne(ds[n], A, I, F)

\* A block that is not dirty is durable; a file has zeros and its own values.
Clean(I, B, V) ==
  \A i \in Inum, b \in Block, j \in Nat : At(I, b, i, j) /\ b \notin B[i] => V[b].old = {}
Shows(I, V) ==
  \A i \in Inum, b \in Block, j \in Nat : At(I, b, i, j) => Merge(V[b]) \subseteq {Zero, i}

\* Inodes after a block was added to one of them, and after one was cut to m blocks.
Grown(I, J, i, x, m) ==
  \A a \in Inum, b \in Block, j \in Nat :
    At(J, b, a, j) <=> At(I, b, a, j) \/ (a = i /\ b = x /\ j = m)
Cut(I, J, i, m) ==
  \A a \in Inum, b \in Block, j \in Nat : At(J, b, a, j) <=> At(I, b, a, j) /\ (a = i => j <= m)

-----------------------------------------------------------------------------
\* The operations on blocks.  A directory in the cache is as on the disk.
Cached(C, E) == \A d \in DOMAIN C : C[d] = E[d]

Blocks(ds, t) ==
  /\ Once(t.d.ino) /\ Pooled(t.d.ino, t.d.free, t.ms.al) /\ Kinds(t.d.free) /\ Short(t.d.ino)
  /\ Safe(ds, t.ms.al, t.d.ino, t.d.free)
  /\ Clean(t.d.ino, t.ms.dblocks, t.d.data) /\ Shows(t.d.ino, t.d.data)

\* What every operation keeps, whether it succeeds or fails.
TInv(ds, t) ==
  t \in Txn /\ Blocks(ds, t) /\ Lists(t.d.free, t.ms.list) /\ Cached(t.ms.dcache, t.d.dir)

\* The operation left the directories and the free inodes alone; and the rest of
\* the disk and what the caches know of it.
SameTree(t, u) == u.d.dir = t.d.dir /\ u.d.free["inode"] = t.d.free["inode"]
SameBlocks(t, u) ==
  /\ u.d.ino = t.d.ino /\ u.d.data = t.d.data /\ u.ms.al = t.ms.al /\ u.ms.dblocks = t.ms.dblocks
  /\ u.d.free["data1"] = t.d.free["data1"] /\ u.d.free["data2"] = t.d.free["data2"]

\* The operation kept the invariant and left directories, inodes and answer alone.
Keeps(ds, t, u) == TInv(ds, u) /\ SameTree(t, u) /\ u.ms.dcache = t.ms.dcache /\ u.err = t.err

\* One part of a transaction changes.
SetIno(t, i, r) == [t EXCEPT !.d.ino[i].blocks = r]
SetData(t, x, v) == [t EXCEPT !.d.data[x] = v]
SetDirty(t, i, D) == [t EXCEPT !.ms.dblocks[i] = D]
SetW(t, W) == [t EXCEPT !.w = W]

\* Two more parts of a transaction.
SetInode(t, i, r) == [t EXCEPT !.d.ino[i] = r]
SetCache(t, C) == [t EXCEPT !.ms.dcache = C]

\* The other allocator is another one.
LEMMA OtherIs ==
  ASSUME NEW A \in AlType
  PROVE  /\ Other(A) \in AlType /\ Other(A) # A /\ Other(Other(A)) = A
         /\ A \in Allocator /\ Other(A) \in Allocator /\ A # "inode" /\ Other(A) # "inode"
BY SMT DEF AlType, Other, Allocator

\* It does not matter which of the two is in use.
LEMMA PooledOther ==
  ASSUME NEW I, NEW F, NEW A \in AlType, Pooled(I, F, A)
  PROVE  Pooled(I, F, Other(A)) /\ Pooled(I, F, "data1")
<1>1. Pooled(I, F, Other(A)) BY OtherIs DEF Pooled
<1>2. A = "data1" \/ Other(A) = "data1" BY DEF AlType, Other
<1> QED BY <1>1, <1>2

\* The one value of a settled block.
LEMMA SettledIs == \A v : Merge(Settled(v)) = {v} /\ Settled(v).old = {} /\ Settled(v).cur = v
BY SMT DEF Merge, Settled

\* What has been written is a name and a number.
LEMMA WrittenIs ==
  ASSUME Known
  PROVE  /\ \A k \in Allocator : <<k, 0>> \in Areas \X Nat
         /\ <<"ino", 0>> \in Areas \X Nat
         /\ \A b \in Block : <<"data", b>> \in Areas \X Nat
         /\ \A i \in Inum : <<"dir", i>> \in Areas \X Nat
<1>1. \A x \in Areas, n \in Nat : <<x, n>> \in Areas \X Nat OBVIOUS
<1>2. /\ "ino" \in Areas /\ "data" \in Areas /\ "dir" \in Areas /\ 0 \in Nat
      /\ \A k \in Allocator : k \in Areas
  BY SMT DEF Allocator, Areas
<1>3. Block \subseteq Nat /\ Inum \subseteq Nat BY Constants DEF Known
<1> QED BY <1>1, <1>2, <1>3

\* Answers do not touch the disk or the caches.
LEMMA FailIs ==
  ASSUME NEW t \in Txn, NEW e \in Answers
  PROVE  /\ Fail(t, e) \in Txn /\ Fail(t, e).d = t.d /\ Fail(t, e).ms = t.ms /\ Fail(t, e).w = t.w
         /\ Fail(t, e).err = e
BY DEF Fail, Txn

\* So a call that fails leaves the invariant as it was.
LEMMA FailInv ==
  ASSUME NEW ds, NEW t, TInv(ds, t), NEW e \in Answers
  PROVE  TInv(ds, Fail(t, e)) /\ SameTree(t, Fail(t, e)) /\ SameBlocks(t, Fail(t, e))
BY FailIs DEF TInv, Blocks, SameTree, SameBlocks

\* The parts of a transaction have their types.
LEMMA Parts ==
  ASSUME NEW t \in Txn
  PROVE  /\ t.d.ino \in InoType /\ t.d.dir \in DirType /\ t.d.free \in FreeType /\ t.d.data \in DataType
         /\ t.ms.al \in AlType /\ t.ms.list \in ListType /\ t.ms.dcache \in CacheType
         /\ t.ms.dblocks \in DirtyType /\ t.w \in Written
BY DEF Txn, Disk, Mem

\* The blocks written.
LEMMA PutW ==
  ASSUME NEW t \in Txn, NEW W \in Written, NEW u, u = SetW(t, W)
  PROVE  u \in Txn /\ u.d = t.d /\ u.ms = t.ms /\ u.w = W /\ u.err = t.err
BY DEF SetW, Txn

\* The parts after a change of the cached directories.
LEMMA PutCache ==
  ASSUME NEW t \in Txn, NEW C \in CacheType, NEW u, u = SetCache(t, C)
  PROVE  /\ u \in Txn /\ u.d = t.d /\ u.w = t.w /\ u.err = t.err
         /\ u.ms.al = t.ms.al /\ u.ms.dblocks = t.ms.dblocks /\ u.ms.list = t.ms.list /\ u.ms.dcache = C
BY DEF SetCache, Txn, Mem

\* The parts after a change of a bitmap, its list and the blocks written.
WithAlloc(t, k, S, X, W) == [t EXCEPT !.d.free[k] = S, !.ms.list[k] = X, !.w = W]

\* alloc hands out the head of the list.
Takes(t, k, x, u) ==
  /\ u \in Txn /\ u.err = t.err /\ x \in t.d.free[k]
  /\ u.d.ino = t.d.ino /\ u.d.dir = t.d.dir /\ u.d.data = t.d.data
  /\ u.d.free = SetAt(t.d.free, k, t.d.free[k] \ {x})
  /\ u.ms.al = t.ms.al /\ u.ms.dcache = t.ms.dcache /\ u.ms.dblocks = t.ms.dblocks
  /\ Lists(u.d.free, u.ms.list) /\ u.w = t.w \cup {<<k, 0>>}

\* alloc fails: the list, now cached, is empty.
Refuses(ds, t, u) ==
  /\ TInv(ds, u) /\ u.err = "ENOSPC" /\ u.d = t.d /\ u.ms.al = t.ms.al
  /\ u.ms.dblocks = t.ms.dblocks /\ u.ms.dcache = t.ms.dcache

\* freevec gives the elements of g back to allocator k.
Gives(t, k, g, u) ==
  /\ u \in Txn /\ u.err = t.err
  /\ u.d.ino = t.d.ino /\ u.d.dir = t.d.dir /\ u.d.data = t.d.data
  /\ u.d.free = SetAt(t.d.free, k, t.d.free[k] \cup Range(g))
  /\ u.ms.al = t.ms.al /\ u.ms.dcache = t.ms.dcache /\ u.ms.dblocks = t.ms.dblocks
  /\ Lists(u.d.free, u.ms.list)

AllocIs ==
  \A t \in Txn, k \in Allocator :
     Known /\ Lists(t.d.free, t.ms.list) /\ FreeList(t, k) # <<>>
     => Takes(t, k, Head(FreeList(t, k)), Alloc(t, k))

AllocFails ==
  \A ds, t : \A k \in Allocator :
     Known /\ TInv(ds, t) /\ FreeList(t, k) = <<>>
     => Refuses(ds, t, Alloc(t, k))

FreeVecIs ==
  \A t \in Txn, k \in Allocator, g \in Seq(Item) :
     Known /\ Lists(t.d.free, t.ms.list) /\ (\A j \in 1 .. Len(g) : g[j] \notin t.d.free[k]) /\
     (\A i, j \in 1 .. Len(g) : g[i] = g[j] => i = j)
     => Gives(t, k, g, FreeVec(t, k, g))

\* The allocators (BmapAllocCache of Balloc.v): alloc takes the head of the cached list
\* or fails, freevec gives blocks back.
LEMMA Allocators ==
  AllocIs /\ AllocFails /\ FreeVecIs
\* The list that alloc takes the next element from.
<1>FreeListIs. ASSUME Known, NEW t \in Txn, NEW k \in Allocator, Lists(t.d.free, t.ms.list)
      PROVE  ListOK(FreeList(t, k), t.d.free[k], k)
  <2> USE <1>FreeListIs
  <2>1. t.d.free[k] \in SUBSET Item BY DEF Txn, Disk, FreeType, FreeSet
  <2>2. CASE t.ms.list[k] = {}
    <3>1. FreeList(t, k) = Ascending(t.d.free[k]) BY <2>2 DEF FreeList
    <3> QED BY <2>1, <3>1, AscendingIs DEF ListOK
  <2>3. CASE t.ms.list[k] # {}
    <3>1. FreeList(t, k) = CHOOSE l \in t.ms.list[k] : TRUE BY <2>3 DEF FreeList
    <3>2. FreeList(t, k) \in t.ms.list[k] BY <3>1, <2>3
    <3> QED BY <3>2 DEF Lists
  <2> QED BY <2>2, <2>3
\* alloc takes the head of the list and of the bitmap.
<1>TailIs. ASSUME NEW l, NEW S, NEW k, ListOK(l, S, k), l # <<>>
      PROVE  Head(l) \in S /\ ListOK(Tail(l), S \ {Head(l)}, k)
  <2> USE <1>TailIs
  <2>1. l \in Seq(Item) BY DEF ListOK, IsList
  <2>2. /\ Len(l) \in Nat /\ Len(l) > 0 /\ Tail(l) \in Seq(Item) /\ Len(Tail(l)) = Len(l) - 1 /\ Head(l) = l[1]
        /\ \A j \in 1 .. Len(l) - 1 : Tail(l)[j] = l[j + 1]
    BY <2>1, SMT
  <2>3. Head(l) \in S BY <2>2, SMT DEF ListOK, IsList
  <2>4. IsList(Tail(l), S \ {Head(l)})
    <3>1. ASSUME NEW j \in 1 .. Len(l) - 1 PROVE Tail(l)[j] \in S \ {Head(l)}
      <4>1. j + 1 \in 1 .. Len(l) /\ 1 \in 1 .. Len(l) /\ j + 1 # 1 BY <2>2, SMT
      <4>2. l[j + 1] \in S /\ l[j + 1] # l[1] BY <4>1 DEF ListOK, IsList
      <4> QED BY <4>2, <2>2
    <3>2. ASSUME NEW j \in 1 .. Len(l) - 1, NEW i \in 1 .. Len(l) - 1, Tail(l)[j] = Tail(l)[i] PROVE j = i
      <4>1. j + 1 \in 1 .. Len(l) /\ i + 1 \in 1 .. Len(l) BY <2>2, SMT
      <4>2. l[j + 1] = l[i + 1] BY <3>2, <2>2
      <4>3. j + 1 = i + 1 BY <4>1, <4>2 DEF ListOK, IsList
      <4> QED BY <4>3, <2>2, SMT
    <3> QED BY <3>1, <3>2, <2>2 DEF IsList
  <2>5. ASSUME k # "inode" PROVE Full(Tail(l), S \ {Head(l)})
    <3> SUFFICES ASSUME NEW x \in S \ {Head(l)} PROVE \E j \in 1 .. Len(Tail(l)) : Tail(l)[j] = x BY DEF Full
    <3>1. PICK i \in 1 .. Len(l) : l[i] = x BY <2>5 DEF ListOK, Full
    <3>2. i # 1 BY <3>1, <2>2
    <3>3. PICK j \in 1 .. Len(l) - 1 : j + 1 = i BY <3>2, <2>2, SMT
    <3>4. Tail(l)[j] = x BY <3>1, <3>3, <2>2
    <3> QED BY <3>4, <2>2
  <2> QED BY <2>3, <2>4, <2>5 DEF ListOK
\* One sequence behind another.
<1>Concatenation. ASSUME NEW S, NEW s \in Seq(S), NEW q \in Seq(S)
      PROVE  /\ s \o q \in Seq(S) /\ Len(s \o q) = Len(s) + Len(q)
             /\ \A j \in 1 .. Len(s) + Len(q) : (s \o q)[j] = IF j <= Len(s) THEN s[j] ELSE q[j - Len(s)]
  BY <1>Concatenation, SMT
\* freevec puts blocks that were in use in front of the list.
<1>PushIs. ASSUME NEW l, NEW S, NEW k, ListOK(l, S, k),
             NEW g \in Seq(Item), \A j \in 1 .. Len(g) : g[j] \notin S,
             \A i, j \in 1 .. Len(g) : g[i] = g[j] => i = j
      PROVE  ListOK(Reversed(g) \o l, S \cup Range(g), k)
  <2> USE <1>PushIs
  <2> DEFINE r == Reversed(g)
             m == Len(g)
             c == r \o l
  <2>1. l \in Seq(Item) /\ Len(l) \in Nat /\ m \in Nat /\ DOMAIN g = 1 .. m BY SMT DEF ListOK, IsList
  <2>2. r \in Seq(Item) /\ Len(r) = m /\ \A j \in 1 .. m : r[j] = g[m + 1 - j]
    <3>1. r = [j \in 1 .. m |-> g[m + 1 - j]] BY DEF Reversed
    <3>2. \A j \in 1 .. m : m + 1 - j \in 1 .. m BY <2>1, SMT
    <3>3. \A j \in 1 .. m : g[m + 1 - j] \in Item BY <3>2, <2>1, SMT
    <3> HIDE DEF r, m
    <3> QED BY <3>1, <3>3, <2>1, SMT
  <2>3. /\ c \in Seq(Item) /\ Len(c) = m + Len(l)
        /\ \A j \in 1 .. m + Len(l) : c[j] = IF j <= m THEN r[j] ELSE l[j - m]
    <3> HIDE DEF r, m
    <3> QED BY <2>1, <2>2, <1>Concatenation, SMT
  <2>4. \A j \in 1 .. m : c[j] = g[m + 1 - j] /\ m + 1 - j \in 1 .. m
    <3>1. \A j \in 1 .. m : j \in 1 .. m + Len(l) /\ j <= m /\ m + 1 - j \in 1 .. m BY <2>1, SMT
    <3> QED BY <3>1, <2>2, <2>3
  <2>5. \A j \in 1 .. m + Len(l) : j \in 1 .. m \/ (j - m \in 1 .. Len(l) /\ c[j] = l[j - m])
    <3>1. \A j \in 1 .. m + Len(l) : j \in 1 .. m \/ (j - m \in 1 .. Len(l) /\ ~(j <= m)) BY <2>1, SMT
    <3> QED BY <3>1, <2>3
  <2>6. \A x : x \in Range(g) <=> \E j \in 1 .. m : g[j] = x BY <2>1 DEF Range
  <2> HIDE DEF c, r, m
  <2>7. ASSUME NEW j \in 1 .. m + Len(l) PROVE c[j] \in S \cup Range(g)
    <3>1. CASE j \in 1 .. m BY <3>1, <2>4, <2>6
    <3>2. CASE j - m \in 1 .. Len(l) /\ c[j] = l[j - m] BY <3>2 DEF ListOK, IsList
    <3> QED BY <3>1, <3>2, <2>5
  <2>8. ASSUME NEW i \in 1 .. m + Len(l), NEW j \in 1 .. m + Len(l), c[i] = c[j] PROVE i = j
    <3>1. CASE i \in 1 .. m /\ j \in 1 .. m
      <4>1. m + 1 - i = m + 1 - j BY <3>1, <2>4, <2>8 DEF m
      <4> QED BY <4>1, <2>1, SMT
    <3>2. CASE i \in 1 .. m /\ j - m \in 1 .. Len(l) /\ c[j] = l[j - m]
      <4>1. c[j] \in S BY <3>2 DEF ListOK, IsList
      <4>2. c[i] \notin S BY <3>2, <2>4 DEF m
      <4> QED BY <4>1, <4>2, <2>8
    <3>3. CASE j \in 1 .. m /\ i - m \in 1 .. Len(l) /\ c[i] = l[i - m]
      <4>1. c[i] \in S BY <3>3 DEF ListOK, IsList
      <4>2. c[j] \notin S BY <3>3, <2>4 DEF m
      <4> QED BY <4>1, <4>2, <2>8
    <3>4. CASE (i - m \in 1 .. Len(l) /\ c[i] = l[i - m]) /\ (j - m \in 1 .. Len(l) /\ c[j] = l[j - m])
      <4>1. i - m = j - m BY <3>4, <2>8 DEF ListOK, IsList
      <4> QED BY <4>1, <2>1, SMT
    <3> QED BY <3>1, <3>2, <3>3, <3>4, <2>5
  <2>9. IsList(c, S \cup Range(g)) BY <2>3, <2>7, <2>8 DEF IsList
  <2>10. ASSUME k # "inode", NEW x \in S \cup Range(g) PROVE \E j \in 1 .. Len(c) : c[j] = x
    <3>1. CASE x \in Range(g)
      <4>1. PICK i \in 1 .. m : g[i] = x BY <3>1, <2>6
      <4>2. m + 1 - i \in 1 .. m /\ m + 1 - (m + 1 - i) = i /\ m + 1 - i \in 1 .. m + Len(l) BY <2>1, SMT
      <4> QED BY <4>1, <4>2, <2>3, <2>4
    <3>2. CASE x \in S
      <4>1. PICK i \in 1 .. Len(l) : l[i] = x BY <2>10, <3>2 DEF ListOK, Full
      <4>2. i + m \in 1 .. m + Len(l) /\ ~(i + m <= m) /\ (i + m) - m = i BY <2>1, SMT
      <4> QED BY <4>1, <4>2, <2>3
    <3> QED BY <3>1, <3>2
  <2> QED BY <2>9, <2>10 DEF ListOK, Full, c, r
\* One allocator changes.
<1>SetLists. ASSUME NEW F \in FreeType, NEW L \in ListType, Lists(F, L), NEW k \in Allocator, NEW S, NEW X,
             \A l \in X : ListOK(l, S, k)
      PROVE  Lists(SetAt(F, k, S), SetAt(L, k, X))
  <2> USE <1>SetLists
  <2>1. PICK G, M : G = SetAt(F, k, S) /\ M = SetAt(L, k, X) OBVIOUS
  <2>2. /\ G[k] = S /\ \A j \in Allocator : j # k => G[j] = F[j]
        /\ M[k] = X /\ \A j \in Allocator : j # k => M[j] = L[j]
    BY <2>1 DEF SetAt, FreeType, ListType
  <2>3. Lists(G, M)
    <3> SUFFICES ASSUME NEW j \in Allocator, NEW l \in M[j] PROVE ListOK(l, G[j], j) BY DEF Lists
    <3>1. CASE j = k BY <3>1, <2>2
    <3>2. CASE j # k BY <3>2, <2>2 DEF Lists
    <3> QED BY <3>1, <3>2
  <2> QED BY <2>1, <2>3
<1>PutAlloc. ASSUME NEW t \in Txn, NEW k \in Allocator, NEW S \in FreeSet, NEW X \in ListSet, NEW W \in Written,
             NEW u, u = WithAlloc(t, k, S, X, W)
      PROVE  /\ u \in Txn /\ u.err = t.err
             /\ u.d.ino = t.d.ino /\ u.d.dir = t.d.dir /\ u.d.data = t.d.data
             /\ u.d.free = SetAt(t.d.free, k, S)
             /\ u.ms.al = t.ms.al /\ u.ms.dcache = t.ms.dcache /\ u.ms.dblocks = t.ms.dblocks
             /\ u.ms.list = SetAt(t.ms.list, k, X) /\ u.w = W
  BY <1>PutAlloc DEF WithAlloc, Txn, Disk, Mem, FreeType, ListType, SetAt
<1>AllocIs. ASSUME Known, NEW t \in Txn, NEW k \in Allocator, Lists(t.d.free, t.ms.list),
             FreeList(t, k) # <<>>
      PROVE  Takes(t, k, Head(FreeList(t, k)), Alloc(t, k))
  <2> USE <1>AllocIs
  <2>0. PICK l, u : l = FreeList(t, k) /\ u = Alloc(t, k) OBVIOUS
  <2> SUFFICES Takes(t, k, Head(l), u) BY <2>0
  <2>1. ListOK(l, t.d.free[k], k) /\ l # <<>> BY <2>0, <1>FreeListIs
  <2>2. Head(l) \in t.d.free[k] /\ ListOK(Tail(l), t.d.free[k] \ {Head(l)}, k) BY <2>1, <1>TailIs
  <2>3. PICK x, y : x = Head(l) /\ y = Tail(l) OBVIOUS
  <2>4. y \in Seq(Item) BY <2>2, <2>3 DEF ListOK, IsList
  <2>5. u = [t EXCEPT !.d.free[k] = @ \ {x}, !.ms.list[k] = {y}, !.w = @ \cup {<<k, 0>>}]
    BY <2>0, <2>1, <2>3 DEF Alloc
  <2>6. PICK S, X, W : S = t.d.free[k] \ {x} /\ X = {y} /\ W = t.w \cup {<<k, 0>>} OBVIOUS
  <2>7. u = WithAlloc(t, k, S, X, W) BY <2>5, <2>6 DEF WithAlloc
  <2>8. S \in FreeSet /\ X \in ListSet /\ W \in Written
    <3>1. t.d.free[k] \in FreeSet BY Parts DEF FreeType
    <3>2. t.w \in Written BY Parts
    <3> QED BY <3>1, <3>2, <2>4, <2>6, WrittenIs DEF Written, FreeSet, ListSet
  <2>9. /\ u \in Txn /\ u.err = t.err
        /\ u.d.ino = t.d.ino /\ u.d.dir = t.d.dir /\ u.d.data = t.d.data
        /\ u.d.free = SetAt(t.d.free, k, S)
        /\ u.ms.al = t.ms.al /\ u.ms.dcache = t.ms.dcache /\ u.ms.dblocks = t.ms.dblocks
        /\ u.ms.list = SetAt(t.ms.list, k, X) /\ u.w = W
    BY <2>7, <2>8, <1>PutAlloc, SMT
  <2>10. Lists(SetAt(t.d.free, k, S), SetAt(t.ms.list, k, X))
    <3>1. \A z \in X : ListOK(z, S, k) BY <2>2, <2>3, <2>6
    <3> QED BY <3>1, Parts, <1>SetLists
  <2> QED BY <2>2, <2>3, <2>6, <2>9, <2>10 DEF Takes
<1>AllocFails. ASSUME Known, NEW ds, NEW t, TInv(ds, t), NEW k \in Allocator, FreeList(t, k) = <<>>
      PROVE  Refuses(ds, t, Alloc(t, k))
  <2> USE <1>AllocFails
  <2>0. PICK u : u = Alloc(t, k) OBVIOUS
  <2> SUFFICES Refuses(ds, t, u) BY <2>0
  <2>1. t \in Txn /\ Lists(t.d.free, t.ms.list) BY DEF TInv
  <2>2. ListOK(<<>>, t.d.free[k], k) BY <2>1, <1>FreeListIs
  <2>3. PICK X : X = {FreeList(t, k)} OBVIOUS
  <2>4. X \in ListSet /\ \A l \in X : ListOK(l, t.d.free[k], k) BY <2>2, <2>3 DEF ListOK, IsList, ListSet
  <2>5. u = Fail([t EXCEPT !.ms.list[k] = X], "ENOSPC") BY <2>0, <2>3 DEF Alloc
  <2>6. PICK v : v = [t EXCEPT !.ms.list[k] = X] OBVIOUS
  <2>7. /\ v \in Txn /\ v.d = t.d /\ v.ms.al = t.ms.al /\ v.ms.dcache = t.ms.dcache /\ v.ms.dblocks = t.ms.dblocks
        /\ v.ms.list = SetAt(t.ms.list, k, X)
    BY <2>1, <2>4, <2>6 DEF Txn, Mem, ListType, SetAt
  <2>8. Lists(t.d.free, v.ms.list)
    <3>1. Lists(SetAt(t.d.free, k, t.d.free[k]), SetAt(t.ms.list, k, X)) BY <2>1, <2>4, Parts,
                                             <1>SetLists
    <3>2. SetAt(t.d.free, k, t.d.free[k]) = t.d.free BY <2>1, Parts DEF SetAt, FreeType
    <3> QED BY <3>1, <3>2, <2>7
  <2>9. TInv(ds, v) BY <2>7, <2>8 DEF TInv, Blocks
  <2>10. u = Fail(v, "ENOSPC") BY <2>5, <2>6
  <2>11. "ENOSPC" \in Answers BY SMT DEF Answers
  <2>12. u.err = "ENOSPC" /\ u.d = v.d /\ u.ms = v.ms BY <2>7, <2>10, <2>11, FailIs, SMT
  <2>13. TInv(ds, u) BY <2>9, <2>10, <2>11, FailInv
  <2> QED BY <2>7, <2>12, <2>13 DEF Refuses
<1>FreeVecIs. ASSUME Known, NEW t \in Txn, NEW k \in Allocator, Lists(t.d.free, t.ms.list),
             NEW g \in Seq(Item), \A j \in 1 .. Len(g) : g[j] \notin t.d.free[k],
             \A i, j \in 1 .. Len(g) : g[i] = g[j] => i = j
      PROVE  Gives(t, k, g, FreeVec(t, k, g))
  <2> USE <1>FreeVecIs
  <2>0. PICK u, S, X, W : /\ u = FreeVec(t, k, g) /\ S = t.d.free[k] \cup Range(g)
                          /\ X = {Reversed(g) \o l : l \in t.ms.list[k]}
                          /\ W = IF g = <<>> THEN t.w ELSE t.w \cup {<<k, 0>>}
    OBVIOUS
  <2>1. u = WithAlloc(t, k, S, X, W) BY <2>0 DEF FreeVec, WithAlloc
  <2>2. \A l \in X : ListOK(l, S, k)
    <3>1. \A l \in t.ms.list[k] : ListOK(l, t.d.free[k], k) BY DEF Lists
    <3>2. \A l \in t.ms.list[k] : ListOK(Reversed(g) \o l, t.d.free[k] \cup Range(g), k) BY <3>1,
                                             <1>PushIs, SMT
    <3> QED BY <3>2, <2>0
  <2>3. S \in FreeSet /\ X \in ListSet /\ W \in Written
    <3>1. t.d.free[k] \in FreeSet BY Parts DEF FreeType
    <3>2. t.w \in Written BY Parts
    <3>3. DOMAIN g = 1 .. Len(g) /\ \A j \in 1 .. Len(g) : g[j] \in Item BY SMT
    <3>4. S \in FreeSet BY <2>0, <3>1, <3>3 DEF FreeSet, Range
    <3>5. X \in ListSet BY <2>2 DEF ListSet, ListOK, IsList
    <3> QED BY <3>2, <3>4, <3>5, <2>0, WrittenIs DEF Written
  <2>4. /\ u \in Txn /\ u.err = t.err
        /\ u.d.ino = t.d.ino /\ u.d.dir = t.d.dir /\ u.d.data = t.d.data
        /\ u.d.free = SetAt(t.d.free, k, S)
        /\ u.ms.al = t.ms.al /\ u.ms.dcache = t.ms.dcache /\ u.ms.dblocks = t.ms.dblocks
        /\ u.ms.list = SetAt(t.ms.list, k, X) /\ u.w = W
    BY <2>1, <2>3, <1>PutAlloc, SMT
  <2>5. Lists(SetAt(t.d.free, k, S), SetAt(t.ms.list, k, X)) BY <2>2, Parts, <1>SetLists
  <2> QED BY <2>0, <2>4, <2>5 DEF Gives
<1> QED BY <1>AllocIs, <1>AllocFails, <1>FreeVecIs
      DEF AllocIs, AllocFails, FreeVecIs

Prefixed(I, J, i, m) ==
  /\ m \in 0 .. Len(I[i].blocks) /\ J[i].blocks = SubSeq(I[i].blocks, 1, m)
  /\ \A a \in Inum : a # i => J[a].blocks = I[a].blocks

\* The blocks behind the first m: a list of blocks without repetition.
Suffix(I, i, m, g) ==
  /\ g \in Seq(Block) /\ \A j, k \in 1 .. Len(g) : g[j] = g[k] => j = k
  /\ \A j \in 1 .. Len(g) : Owned(I, g[j])
  /\ \A b : b \in Range(g) <=> \E j \in Nat : At(I, b, i, j) /\ ~(j <= m)

\* The blocks of an inode, a block, its mark and the blocks written.
WithBlocks(t, i, s, x, v, D, W) == SetW(SetDirty(SetData(SetIno(t, i, s), x, v), i, D), W)

GrowBy(u, i, x, v) ==
  [u EXCEPT !.d.ino[i].blocks = Append(@, x), !.d.data[x] = Settled(v),
            !.ms.dblocks[i] = @ \cup {x}, !.w = @ \cup {<<"ino", 0>>, <<"data", x>>}]

\* grow hands a zeroed block of the allocator in use to the inode.
Grows(ds, t, g) ==
  /\ TInv(ds, g) /\ SameTree(t, g) /\ g.ms.dcache = t.ms.dcache /\ g.err = "OK"
  /\ \E x \in Block : g.w = t.w \cup {<<t.ms.al, 0>>, <<"ino", 0>>, <<"data", x>>}

\* grow, whether a block is found or not.
GrowsTo(ds, t, g) ==
  /\ TInv(ds, g) /\ SameTree(t, g) /\ g.ms.dcache = t.ms.dcache
  /\ \/ g.err = "OK" /\ \E x \in Block : g.w = t.w \cup {<<t.ms.al, 0>>, <<"ino", 0>>, <<"data", x>>}
     \/ g.err # "OK" /\ SameBlocks(t, g)

\* An inode is cut to its first m blocks; the others, g, go to the allocator
\* that is not in use, and D is what is dirty.
CutTo(t, i, m, g, D, v) ==
  /\ v \in Txn /\ v.d.ino[i].blocks = SubSeq(t.d.ino[i].blocks, 1, m)
  /\ \A a \in Inum : a # i => v.d.ino[a].blocks = t.d.ino[a].blocks
  /\ v.d.data = t.d.data /\ v.ms.al = t.ms.al /\ v.ms.dblocks = SetAt(t.ms.dblocks, i, D)
  /\ v.d.free = SetAt(t.d.free, Other(t.ms.al), t.d.free[Other(t.ms.al)] \cup Range(g))
  /\ Lists(v.d.free, v.ms.list)

\* The blocks behind the first m of an inode.
Behind(t, i, m) == SubSeq(t.d.ino[i].blocks, m + 1, Len(t.d.ino[i].blocks))

\* What is still dirty of inode i.
StillDirty(t, i, m, D) == D = t.ms.dblocks[i] \ Range(Behind(t, i, m)) \/ (m = 0 /\ D = {})

BlocksKept(ds, t, v) == Blocks(ds, v) /\ v.d.free["inode"] = t.d.free["inode"]

\* reset frees all blocks of an inode and forgets its directory.
Resets(ds, t, u) == TInv(ds, u) /\ SameTree(t, u) /\ u.err = t.err

\* truncate shrinks, or grows until the length is reached or a step fails.
Trims(ds, t, u) == TInv(ds, u) /\ SameTree(t, u)

\* Inodes with the same blocks.
SameAt(I, J) == \A a \in Inum : J[a].blocks = I[a].blocks

\* The size of a file.
SetBytesOf(t, i, sz) == [t EXCEPT !.d.ino[i].bytes = sz]

\* set_sz and set_attr; they write one block.
Writes(ds, t, u, x) == Keeps(ds, t, u) /\ u.w = t.w \cup {x}

GrowInv ==
  \A ds, t : \A i \in Inum :
     Known /\ TInv(ds, t) /\ t.err = "OK"
     => GrowsTo(ds, t, Grow(t, i, Zero))

ResetInv ==
  \A ds, t : \A i \in Inum :
     Known /\ TInv(ds, t)
     => Resets(ds, t, Reset(t, i))

TruncateInv ==
  \A ds, t : \A i \in Inum, n \in Nat :
     Known /\ TInv(ds, t)
     => Trims(ds, t, Truncate(t, i, n))

SetBytesInv ==
  \A ds, t : \A i \in Inum, sz \in Nat :
     Known /\ TInv(ds, t)
     => Writes(ds, t, SetBytes(t, i, sz), <<"ino", 0>>)

\* update_fblock through the log: a block of file i gets the value of file i.
LogWriteInv ==
  \A ds, t : \A i \in Inum, off \in Nat :
     Known /\ TInv(ds, t) /\ off < Len(t.d.ino[i].blocks)
     => \E x \in Block : Writes(ds, t, LogWrite(t, i, off, i), <<"data", x>>)

\* The operations on the blocks of a file (BFile.v) keep the invariant.
LEMMA BlockSteps ==
  GrowInv /\ ResetInv /\ TruncateInv /\ SetBytesInv /\ LogWriteInv
\* Growth takes a block from the allocator in use, so that it stays with one owner.
<1>GrowOwns. ASSUME NEW I, NEW J, NEW i \in Inum, NEW x \in Block, NEW m \in Nat, Grown(I, J, i, x, m),
             NEW F \in FreeType, NEW A \in AlType, x \in F[A], Once(I), Pooled(I, F, A)
      PROVE  Once(J) /\ Pooled(J, SetAt(F, A, F[A] \ {x}), A)
  <2> USE <1>GrowOwns
  <2>1. \A a \in Inum, j \in Nat : ~At(I, x, a, j) BY DEF Pooled, Owned
  <2>2. Once(J)
    <3> SUFFICES ASSUME NEW a \in Inum, NEW c \in Inum, NEW b \in Block, NEW j \in Nat, NEW k \in Nat,
                        At(J, b, a, j), At(J, b, c, k)
                 PROVE  a = c /\ j = k
      BY SMT DEF Once
    <3>1. At(I, b, a, j) \/ (a = i /\ b = x /\ j = m) BY DEF Grown
    <3>2. At(I, b, c, k) \/ (c = i /\ b = x /\ k = m) BY DEF Grown
    <3>3. At(I, b, a, j) /\ At(I, b, c, k) => a = c /\ j = k BY SMT DEF Once
    <3> QED BY <3>1, <3>2, <3>3, <2>1
  <2>3. PICK G : G = SetAt(F, A, F[A] \ {x}) OBVIOUS
  <2>4. G[A] = F[A] \ {x} /\ G[Other(A)] = F[Other(A)] BY <2>3, OtherIs DEF SetAt, FreeType
  <2>5. ASSUME NEW b \in Block PROVE Owned(J, b) <=> Owned(I, b) \/ b = x
    BY DEF Owned, Grown
  <2>6. Pooled(J, G, A)
    <3> SUFFICES ASSUME NEW b \in Block
                 PROVE  /\ b \in G[A] => b \notin G[Other(A)]
                        /\ Owned(J, b) <=> b \notin G[A] /\ b \notin G[Other(A)]
      BY DEF Pooled
    <3>1. /\ b \in F[A] => b \notin F[Other(A)]
          /\ Owned(I, b) <=> b \notin F[A] /\ b \notin F[Other(A)]
      BY DEF Pooled
    <3> QED BY <3>1, <2>4, <2>5
  <2> QED BY <2>2, <2>3, <2>6
\* Growth reaches no block of another file in any disk of the set.
<1>GrowSafe. ASSUME NEW I, NEW J, NEW i \in Inum, NEW x \in Block, NEW m \in Nat, Grown(I, J, i, x, m),
             NEW F \in FreeType, NEW A \in AlType, x \in F[A], NEW ds, Safe(ds, A, I, F)
      PROVE  Safe(ds, A, J, SetAt(F, A, F[A] \ {x}))
  <2> USE <1>GrowSafe
  <2>1. PICK G : G = SetAt(F, A, F[A] \ {x}) OBVIOUS
  <2>2. G[A] = F[A] \ {x} BY <2>1, OtherIs DEF SetAt, FreeType
  <2>3. ASSUME NEW n \in DOMAIN ds PROVE SafeOne(ds[n], A, J, G)
    <3>1. SafeOne(ds[n], A, I, F) BY DEF Safe
    <3> QED BY <3>1, <2>2 DEF SafeOne, Grown
  <2> QED BY <2>1, <2>3 DEF Safe
\* The new block is zero and marked dirty.
<1>GrowData. ASSUME NEW I, NEW J, NEW i \in Inum, NEW x \in Block, NEW m \in Nat, Grown(I, J, i, x, m),
             NEW V \in DataType, NEW B \in DirtyType, Clean(I, B, V), Shows(I, V), ~Owned(I, x)
      PROVE  /\ Clean(J, SetAt(B, i, B[i] \cup {x}), SetAt(V, x, Settled(Zero)))
             /\ Shows(J, SetAt(V, x, Settled(Zero)))
  <2> USE <1>GrowData
  <2>1. PICK C, W : C = SetAt(B, i, B[i] \cup {x}) /\ W = SetAt(V, x, Settled(Zero)) OBVIOUS
  <2>2. C[i] = B[i] \cup {x} /\ \A a \in Inum : a # i => C[a] = B[a] BY <2>1 DEF SetAt, DirtyType
  <2>3. W[x] = Settled(Zero) /\ \A b \in Block : b # x => W[b] = V[b] BY <2>1 DEF SetAt, DataType
  <2>4. Merge(W[x]) \subseteq {Zero} /\ W[x].old = {} BY <2>3, SettledIs
  <2>5. \A a \in Inum, j \in Nat : ~At(I, x, a, j) BY DEF Owned
  <2>6. ASSUME NEW a \in Inum, NEW b \in Block, NEW j \in Nat, At(J, b, a, j)
        PROVE  (b \notin C[a] => W[b].old = {}) /\ Merge(W[b]) \subseteq {Zero, a}
    <3>1. CASE b = x BY <3>1, <2>4
    <3>2. CASE b # x
      <4>1. At(I, b, a, j) BY <3>2, <2>6 DEF Grown
      <4>2. b \notin C[a] => b \notin B[a] BY <2>2
      <4> QED BY <3>2, <4>1, <4>2, <2>3 DEF Clean, Shows
    <3> QED BY <3>1, <3>2
  <2> QED BY <2>1, <2>6 DEF Clean, Shows
\* What is cut off goes to the allocator that is not in use.
<1>CutOwns. ASSUME NEW I, NEW J, NEW i \in Inum, NEW m \in Nat, Cut(I, J, i, m),
             NEW F \in FreeType, NEW A \in AlType, Once(I), Pooled(I, F, A),
             NEW G, \A b \in Block : b \in G <=> \E j \in Nat : At(I, b, i, j) /\ ~(j <= m)
      PROVE  Once(J) /\ Pooled(J, SetAt(F, Other(A), F[Other(A)] \cup G), A)
  <2> USE <1>CutOwns
  <2>1. Once(J)
    <3> SUFFICES ASSUME NEW a \in Inum, NEW c \in Inum, NEW b \in Block, NEW j \in Nat, NEW k \in Nat,
                        At(J, b, a, j), At(J, b, c, k)
                 PROVE  a = c /\ j = k
      BY SMT DEF Once
    <3>1. At(I, b, a, j) /\ At(I, b, c, k) BY DEF Cut
    <3> QED BY <3>1 DEF Once
  <2>2. PICK H : H = SetAt(F, Other(A), F[Other(A)] \cup G) OBVIOUS
  <2>3. H[A] = F[A] /\ H[Other(A)] = F[Other(A)] \cup G BY <2>2, OtherIs DEF SetAt, FreeType
  <2>4. ASSUME NEW b \in Block PROVE Owned(J, b) <=> Owned(I, b) /\ b \notin G
    <3>1. ASSUME Owned(J, b) PROVE Owned(I, b) /\ b \notin G
      <4>1. PICK a \in Inum, j \in Nat : At(J, b, a, j) BY <3>1 DEF Owned
      <4>2. At(I, b, a, j) /\ (a = i => j <= m) BY <4>1 DEF Cut
      <4>3. \A k \in Nat : At(I, b, i, k) => a = i /\ j = k BY <4>2 DEF Once
      <4> QED BY <4>2, <4>3 DEF Owned
    <3>2. ASSUME Owned(I, b), b \notin G PROVE Owned(J, b)
      <4>1. PICK a \in Inum, j \in Nat : At(I, b, a, j) BY <3>2 DEF Owned
      <4>2. a = i => j <= m BY <4>1, <3>2
      <4> QED BY <4>1, <4>2 DEF Owned, Cut
    <3> QED BY <3>1, <3>2
  <2>5. ASSUME NEW b \in Block, b \in G PROVE Owned(I, b) BY <2>5 DEF Owned
  <2>6. Pooled(J, H, A)
    <3> SUFFICES ASSUME NEW b \in Block
                 PROVE  /\ b \in H[A] => b \notin H[Other(A)]
                        /\ Owned(J, b) <=> b \notin H[A] /\ b \notin H[Other(A)]
      BY DEF Pooled
    <3>1. /\ b \in F[A] => b \notin F[Other(A)]
          /\ Owned(I, b) <=> b \notin F[A] /\ b \notin F[Other(A)]
      BY DEF Pooled
    <3> QED BY <3>1, <2>3, <2>4, <2>5
  <2> QED BY <2>1, <2>2, <2>6
\* The allocator in use is not touched.
<1>CutSafe. ASSUME NEW I, NEW J, NEW i \in Inum, NEW m \in Nat, Cut(I, J, i, m),
             NEW F \in FreeType, NEW A \in AlType, NEW G, NEW ds, Safe(ds, A, I, F)
      PROVE  Safe(ds, A, J, SetAt(F, Other(A), F[Other(A)] \cup G))
  <2> USE <1>CutSafe
  <2>1. PICK H : H = SetAt(F, Other(A), F[Other(A)] \cup G) OBVIOUS
  <2>2. H[A] = F[A] BY <2>1, OtherIs DEF SetAt, FreeType
  <2>3. ASSUME NEW n \in DOMAIN ds PROVE SafeOne(ds[n], A, J, H)
    <3>1. SafeOne(ds[n], A, I, F) BY DEF Safe
    <3> QED BY <3>1, <2>2 DEF SafeOne, Cut
  <2> QED BY <2>1, <2>3 DEF Safe
\* The blocks that stay are as dirty as they were.
<1>CutData. ASSUME NEW I, NEW J, NEW i \in Inum, NEW m \in Nat, Cut(I, J, i, m),
             NEW V, NEW B \in DirtyType, Clean(I, B, V), Shows(I, V),
             NEW X, \A b \in Block, j \in Nat : At(J, b, i, j) /\ b \in B[i] => b \in X
      PROVE  Clean(J, SetAt(B, i, X), V) /\ Shows(J, V)
  <2> USE <1>CutData
  <2>1. PICK C : C = SetAt(B, i, X) OBVIOUS
  <2>2. C[i] = X /\ \A a \in Inum : a # i => C[a] = B[a] BY <2>1 DEF SetAt, DirtyType
  <2>3. Shows(J, V) BY SMT DEF Shows, Cut
  <2>4. ASSUME NEW a \in Inum, NEW b \in Block, NEW j \in Nat, At(J, b, a, j), b \notin C[a] PROVE V[b].old = {}
    <3>1. At(I, b, a, j) BY <2>4 DEF Cut
    <3>2. b \notin B[a]
      <4>1. CASE a = i BY <4>1, <2>2, <2>4
      <4>2. CASE a # i BY <4>2, <2>2, <2>4
      <4> QED BY <4>1, <4>2
    <3> QED BY <3>1, <3>2 DEF Clean
  <2> QED BY <2>1, <2>3, <2>4 DEF Clean
\* Writing a block of a file through the log.
<1>WriteData. ASSUME NEW I, NEW i \in Inum, NEW x \in Block, NEW j \in Nat, At(I, x, i, j), Once(I),
             NEW V \in DataType, NEW B, Clean(I, B, V), Shows(I, V)
      PROVE  /\ Clean(I, B, SetAt(V, x, Settled(i)))
             /\ Shows(I, SetAt(V, x, Settled(i)))
  <2> USE <1>WriteData
  <2>1. PICK W : W = SetAt(V, x, Settled(i)) OBVIOUS
  <2>2. W[x] = Settled(i) /\ \A b \in Block : b # x => W[b] = V[b] BY <2>1 DEF SetAt, DataType
  <2>3. Merge(W[x]) = {i} /\ W[x].old = {} BY <2>2, SettledIs
  <2>4. \A a \in Inum, k \in Nat : At(I, x, a, k) => a = i BY DEF Once
  <2>5. ASSUME NEW a \in Inum, NEW b \in Block, NEW k \in Nat, At(I, b, a, k)
        PROVE  (b \notin B[a] => W[b].old = {}) /\ Merge(W[b]) \subseteq {Zero, a}
    <3>1. CASE b = x
      <4>1. a = i BY <3>1, <2>4, <2>5
      <4> QED BY <3>1, <4>1, <2>3
    <3>2. CASE b # x BY <3>2, <2>2, <2>5 DEF Clean, Shows
    <3> QED BY <3>1, <3>2
  <2> QED BY <2>1, <2>5 DEF Clean, Shows
\* Appending a block to an inode, and keeping the first m blocks of one.
<1>AppendAt. ASSUME NEW I \in InoType, NEW i \in Inum, NEW x \in Block, NEW J \in InoType,
             J[i].blocks = Append(I[i].blocks, x), \A a \in Inum : a # i => J[a].blocks = I[a].blocks
      PROVE  Grown(I, J, i, x, Len(I[i].blocks) + 1) /\ Len(J[i].blocks) = Len(I[i].blocks) + 1
  <2> USE <1>AppendAt
  <2>1. I[i].blocks \in Seq(Block) BY DEF InoType, InoRec, BlockSeq
  <2>2. PICK s \in Seq(Block) : s = I[i].blocks BY <2>1
  <2>3. /\ Len(Append(s, x)) = Len(s) + 1 /\ Len(s) \in Nat
        /\ \A j \in 1 .. Len(s) + 1 : Append(s, x)[j] = IF j = Len(s) + 1 THEN x ELSE s[j]
    BY SMT
  <2>4. ASSUME NEW b, NEW j \in Nat
        PROVE  At(J, b, i, j) <=> At(I, b, i, j) \/ (b = x /\ j = Len(s) + 1)
    BY <2>2, <2>3, SMT DEF At
  <2>5. ASSUME NEW a \in Inum, NEW b, NEW j \in Nat, a # i PROVE At(J, b, a, j) <=> At(I, b, a, j)
    BY <2>5 DEF At
  <2>6. Grown(I, J, i, x, Len(s) + 1)
    <3> SUFFICES ASSUME NEW a \in Inum, NEW b \in Block, NEW j \in Nat
                 PROVE  At(J, b, a, j) <=> At(I, b, a, j) \/ (a = i /\ b = x /\ j = Len(s) + 1)
      BY DEF Grown
    <3> QED BY <2>4, <2>5
  <2> QED BY <2>2, <2>3, <2>6
<1>PrefixAt. ASSUME NEW I \in InoType, NEW i \in Inum, NEW J \in InoType, NEW m, Prefixed(I, J, i, m)
      PROVE  Cut(I, J, i, m) /\ Len(J[i].blocks) = m
  <2> USE <1>PrefixAt
  <2> USE DEF Prefixed
  <2>1. I[i].blocks \in Seq(Block) BY DEF InoType, InoRec, BlockSeq
  <2>2. PICK s \in Seq(Block) : s = I[i].blocks BY <2>1
  <2>3. m \in 0 .. Len(s) BY <2>2
  <2>4. Len(SubSeq(s, 1, m)) = m /\ \A j \in 1 .. m : SubSeq(s, 1, m)[j] = s[j] BY <2>3, SMT
  <2>5. ASSUME NEW b, NEW j \in Nat PROVE At(J, b, i, j) <=> At(I, b, i, j) /\ j <= m
    BY <2>2, <2>3, <2>4, SMT DEF At
  <2>6. ASSUME NEW a \in Inum, NEW b, NEW j \in Nat, a # i PROVE At(J, b, a, j) <=> At(I, b, a, j)
    BY <2>6 DEF At
  <2> QED BY <2>2, <2>4, <2>5, <2>6 DEF Cut
<1>SuffixIs. ASSUME NEW I \in InoType, Once(I), NEW i \in Inum, NEW m \in 0 .. Len(I[i].blocks)
      PROVE  Suffix(I, i, m, SubSeq(I[i].blocks, m + 1, Len(I[i].blocks)))
  <2> USE <1>SuffixIs
  <2>0. PICK g : g = SubSeq(I[i].blocks, m + 1, Len(I[i].blocks)) OBVIOUS
  <2> SUFFICES Suffix(I, i, m, g) BY <2>0
  <2>1. I[i].blocks \in Seq(Block) BY DEF InoType, InoRec, BlockSeq
  <2>2. PICK s \in Seq(Block) : s = I[i].blocks BY <2>1
  <2>3. m \in 0 .. Len(s) /\ g = SubSeq(s, m + 1, Len(s)) /\ Len(s) \in Nat BY <2>0, <2>2, SMT
  <2>4. g \in Seq(Block) /\ Len(g) = Len(s) - m /\ \A j \in 1 .. Len(s) - m : g[j] = s[m + j] BY <2>3, SMT
  <2>5. ASSUME NEW j \in 1 .. Len(g) PROVE At(I, g[j], i, m + j) /\ m + j \in Nat /\ ~(m + j <= m) /\ g[j] \in Block
    BY <2>2, <2>3, <2>4, SMT DEF At
  <2>6. ASSUME NEW j \in 1 .. Len(g), NEW k \in 1 .. Len(g), g[j] = g[k] PROVE j = k
    <3>1. m + j = m + k BY <2>5, <2>6 DEF Once
    <3> QED BY <3>1, <2>3, SMT
  <2>7. ASSUME NEW b, NEW j \in Nat, At(I, b, i, j), ~(j <= m) PROVE \E k \in 1 .. Len(g) : g[k] = b
    <3>1. j \in 1 .. Len(s) /\ s[j] = b BY <2>7, <2>2, SMT DEF At
    <3>2. j - m \in 1 .. Len(s) - m /\ m + (j - m) = j BY <3>1, <2>3, <2>7, SMT
    <3> QED BY <3>1, <3>2, <2>4
  <2>8. DOMAIN g = 1 .. Len(g) BY <2>4, SMT
  <2>9. \A b : b \in Range(g) <=> \E k \in 1 .. Len(g) : g[k] = b BY <2>8 DEF Range
  <2>10. \A j \in 1 .. Len(g) : Owned(I, g[j]) BY <2>5 DEF Owned
  <2>11. ASSUME NEW b PROVE b \in Range(g) <=> \E j \in Nat : At(I, b, i, j) /\ ~(j <= m)
    <3>1. ASSUME b \in Range(g) PROVE \E j \in Nat : At(I, b, i, j) /\ ~(j <= m)
      <4>1. PICK k \in 1 .. Len(g) : g[k] = b BY <3>1, <2>9
      <4> QED BY <4>1, <2>5
    <3> QED BY <3>1, <2>7, <2>9
  <2> QED BY <2>4, <2>6, <2>10, <2>11 DEF Suffix
\* The blocks of one inode.
<1>PutIno. ASSUME NEW t \in Txn, NEW i \in Inum, NEW s \in BlockSeq, NEW u, u = SetIno(t, i, s)
      PROVE  /\ u \in Txn /\ u.ms = t.ms /\ u.w = t.w /\ u.err = t.err
             /\ u.d.dir = t.d.dir /\ u.d.free = t.d.free /\ u.d.data = t.d.data
             /\ u.d.ino[i].blocks = s /\ \A a \in Inum : a # i => u.d.ino[a] = t.d.ino[a]
  BY <1>PutIno DEF SetIno, Txn, Disk, InoType, InoRec
\* One data block.
<1>PutData. ASSUME NEW t \in Txn, NEW x \in Block, NEW v \in Valus, NEW u, u = SetData(t, x, v)
      PROVE  /\ u \in Txn /\ u.ms = t.ms /\ u.w = t.w /\ u.err = t.err
             /\ u.d.dir = t.d.dir /\ u.d.free = t.d.free /\ u.d.ino = t.d.ino
             /\ u.d.data = SetAt(t.d.data, x, v)
  BY <1>PutData DEF SetData, Txn, Disk, DataType, SetAt
\* The dirty blocks of one inode.
<1>PutDirty. ASSUME NEW t \in Txn, NEW i \in Inum, NEW D \in BlockSet, NEW u, u = SetDirty(t, i, D)
      PROVE  /\ u \in Txn /\ u.d = t.d /\ u.w = t.w /\ u.err = t.err
             /\ u.ms.al = t.ms.al /\ u.ms.dcache = t.ms.dcache /\ u.ms.list = t.ms.list
             /\ u.ms.dblocks = SetAt(t.ms.dblocks, i, D)
  BY <1>PutDirty DEF SetDirty, Txn, Mem, DirtyType, SetAt
<1>PutBlocks. ASSUME NEW t \in Txn, NEW i \in Inum, NEW s \in BlockSeq, NEW x \in Block, NEW v \in Valus,
             NEW D \in BlockSet, NEW W \in Written, NEW u, u = WithBlocks(t, i, s, x, v, D, W)
      PROVE  /\ u \in Txn /\ u.err = t.err
             /\ u.d.ino[i].blocks = s /\ \A a \in Inum : a # i => u.d.ino[a].blocks = t.d.ino[a].blocks
             /\ u.d.dir = t.d.dir /\ u.d.free = t.d.free /\ u.d.data = SetAt(t.d.data, x, v)
             /\ u.ms.al = t.ms.al /\ u.ms.dcache = t.ms.dcache /\ u.ms.list = t.ms.list
             /\ u.ms.dblocks = SetAt(t.ms.dblocks, i, D) /\ u.w = W
  <2> USE <1>PutBlocks
  <2>1. PICK a : a = SetIno(t, i, s) OBVIOUS
  <2>2. PICK b : b = SetData(a, x, v) OBVIOUS
  <2>3. PICK c : c = SetDirty(b, i, D) OBVIOUS
  <2>4. u = SetW(c, W) BY <2>1, <2>2, <2>3 DEF WithBlocks
  <2>5. /\ a \in Txn /\ a.ms = t.ms /\ a.err = t.err
        /\ a.d.dir = t.d.dir /\ a.d.free = t.d.free /\ a.d.data = t.d.data
        /\ a.d.ino[i].blocks = s /\ \A j \in Inum : j # i => a.d.ino[j] = t.d.ino[j]
    BY <2>1, <1>PutIno, SMT
  <2>6. /\ b \in Txn /\ b.ms = a.ms /\ b.err = a.err
        /\ b.d.dir = a.d.dir /\ b.d.free = a.d.free /\ b.d.ino = a.d.ino
        /\ b.d.data = SetAt(a.d.data, x, v)
    BY <2>2, <2>5, <1>PutData, SMT
  <2>7. /\ c \in Txn /\ c.d = b.d /\ c.err = b.err
        /\ c.ms.al = b.ms.al /\ c.ms.dcache = b.ms.dcache /\ c.ms.list = b.ms.list
        /\ c.ms.dblocks = SetAt(b.ms.dblocks, i, D)
    BY <2>3, <2>6, <1>PutDirty, SMT
  <2>8. u \in Txn /\ u.d = c.d /\ u.ms = c.ms /\ u.w = W /\ u.err = c.err
    BY <2>4, <2>7, PutW, SMT
  <2> QED BY <2>5, <2>6, <2>7, <2>8, SMT
\* Lengths after growth.
<1>GrowShort. ASSUME NEW I, NEW J, NEW i \in Inum, Short(I), NEW m, m < NBlocks, m \in Nat, Len(J[i].blocks) = m + 1,
             \A a \in Inum : a # i => J[a].blocks = I[a].blocks
      PROVE  Short(J)
  <2> USE <1>GrowShort
  <2>1. m + 1 <= NBlocks BY Constants, SMT
  <2> QED BY <2>1 DEF Short
<1>GrowOK. ASSUME Known, NEW ds, NEW t, TInv(ds, t), t.err = "OK", NEW i \in Inum, ~TooBig(Len(t.d.ino[i].blocks)),
             FreeList(t, t.ms.al) # <<>>
      PROVE  Grows(ds, t, Grow(t, i, Zero))
  <2> USE <1>GrowOK
  <2>g. PICK g : g = Grow(t, i, Zero) OBVIOUS
  <2> SUFFICES Grows(ds, t, g) BY <2>g
  <2>1. t \in Txn /\ Lists(t.d.free, t.ms.list) /\ Blocks(ds, t) /\ Cached(t.ms.dcache, t.d.dir) BY DEF TInv
  <2>0. PICK A, I, F, l, u : A = t.ms.al /\ I = t.d.ino /\ F = t.d.free /\ l = FreeList(t, A) /\ u = Alloc(t, A)
    OBVIOUS
  <2>2. A \in AlType /\ A \in Allocator /\ A # "inode" /\ I \in InoType /\ F \in FreeType /\ t.d.data \in DataType
        /\ t.ms.dblocks \in DirtyType
    BY <2>0, <2>1, Parts, OtherIs
  <2>3. /\ u \in Txn /\ u.err = t.err /\ Head(l) \in F[A]
        /\ u.d.ino = I /\ u.d.dir = t.d.dir /\ u.d.data = t.d.data
        /\ u.d.free = SetAt(F, A, F[A] \ {Head(l)})
        /\ u.ms.al = A /\ u.ms.dcache = t.ms.dcache /\ u.ms.dblocks = t.ms.dblocks
        /\ Lists(u.d.free, u.ms.list) /\ u.w = t.w \cup {<<A, 0>>}
    <3>1. FreeList(t, A) # <<>> BY <2>0
    <3>2. Takes(t, A, Head(FreeList(t, A)), Alloc(t, A)) BY <3>1, <2>1, <2>2, Allocators
                                             DEF AllocIs
    <3>3. Takes(t, A, Head(l), u) BY <3>2, <2>0
    <3> QED BY <3>3, <2>0 DEF Takes
  <2>4. PICK x : x = Head(l) OBVIOUS
  <2>5. Grow(t, i, Zero) = IF TooBig(Len(t.d.ino[i].blocks)) THEN Fail(t, "EFBIG")
            ELSE IF Alloc(t, t.ms.al).err # "OK" THEN Alloc(t, t.ms.al)
            ELSE GrowBy(Alloc(t, t.ms.al), i, Head(FreeList(t, t.ms.al)), Zero)
    BY DEF Grow, GrowBy
  <2>6. g = GrowBy(u, i, x, Zero) BY <2>g, <2>0, <2>3, <2>4, <2>5
  <2>7. x \in Block
    <3>1. Kinds(F) BY <2>0, <2>1 DEF Blocks
    <3>2. A = "data1" \/ A = "data2" BY <2>2 DEF AlType
    <3>3. F[A] \subseteq Block BY <3>1, <3>2 DEF Kinds
    <3> QED BY <3>3, <2>3, <2>4
  <2>8. PICK s, v, D, W : /\ s = Append(I[i].blocks, x) /\ v = Settled(Zero) /\ D = t.ms.dblocks[i] \cup {x}
                          /\ W = u.w \cup {<<"ino", 0>>, <<"data", x>>}
    OBVIOUS
  <2>9. /\ u.d.ino[i].blocks = I[i].blocks /\ u.ms.dblocks[i] = t.ms.dblocks[i] BY <2>3
  <2>10. GrowBy(u, i, x, Zero) = WithBlocks(u, i, s, x, v, D, W)
    <3>1. s = Append(u.d.ino[i].blocks, x) /\ D = u.ms.dblocks[i] \cup {x} BY <2>8, <2>9
    <3> QED BY <3>1, <2>8, SMT DEF GrowBy, WithBlocks, SetIno, SetData, SetDirty, SetW
  <2>11. s \in BlockSeq /\ v \in Valus /\ D \in BlockSet /\ W \in Written
    <3>1. I[i].blocks \in Seq(Block) BY <2>2 DEF InoType, InoRec, BlockSeq
    <3>2. s \in BlockSeq BY <3>1, <2>7, <2>8, SMT DEF BlockSeq
    <3>3. v \in Valus
      <4>1. Zero \in Val BY DEF Known
      <4> QED BY <4>1, <2>8, SMT DEF Settled, ValuSet, Valus
    <3>4. D \in BlockSet BY <2>2, <2>7, <2>8 DEF DirtyType, BlockSet
    <3>5. W \in Written
      <4>1. u.w \in Written BY <2>3, Parts
      <4>2. <<"ino", 0>> \in Areas \X Nat /\ <<"data", x>> \in Areas \X Nat BY <2>7, WrittenIs, ZenonT(40)
      <4> QED BY <4>1, <4>2, <2>8 DEF Written
    <3> QED BY <3>2, <3>3, <3>4, <3>5
  <2>12. /\ g \in Txn /\ g.err = u.err
         /\ g.d.ino[i].blocks = s /\ \A a \in Inum : a # i => g.d.ino[a].blocks = u.d.ino[a].blocks
         /\ g.d.dir = u.d.dir /\ g.d.free = u.d.free /\ g.d.data = SetAt(u.d.data, x, v)
         /\ g.ms.al = u.ms.al /\ g.ms.dcache = u.ms.dcache /\ g.ms.list = u.ms.list
         /\ g.ms.dblocks = SetAt(u.ms.dblocks, i, D) /\ g.w = W
    <3>1. g = WithBlocks(u, i, s, x, v, D, W) BY <2>6, <2>10
    <3> QED BY <3>1, <2>3, <2>7, <2>11, <1>PutBlocks, SMT
  <2> DEFINE m == Len(I[i].blocks)
  <2>13. PICK J \in InoType : J = g.d.ino BY <2>12, Parts
  <2>14. Grown(I, J, i, x, m + 1) /\ Len(J[i].blocks) = m + 1
    <3>1. J[i].blocks = Append(I[i].blocks, x) /\ \A a \in Inum : a # i => J[a].blocks = I[a].blocks
      BY <2>3, <2>8, <2>12, <2>13
    <3> QED BY <3>1, <2>2, <2>7, <1>AppendAt
  <2>15. m \in Nat /\ m < NBlocks /\ m + 1 \in Nat
    <3>1. I[i].blocks \in Seq(Block) BY <2>2 DEF InoType, InoRec, BlockSeq
    <3>2. ~TooBig(m) BY <2>0
    <3> QED BY <3>1, <3>2, Constants, SMT DEF TooBig
  <2> HIDE DEF m
  <2>x. x \in F[A] BY <2>3, <2>4
  <2>16. Once(J) /\ Pooled(J, SetAt(F, A, F[A] \ {x}), A)
    <3>1. Once(I) /\ Pooled(I, F, A) BY <2>1, <2>0 DEF Blocks
    <3> QED BY <3>1, <2>2, <2>x, <2>7, <2>14, <2>15, <1>GrowOwns
  <2>17. Safe(ds, A, J, SetAt(F, A, F[A] \ {x}))
    <3>1. Safe(ds, A, I, F) BY <2>1, <2>0 DEF Blocks
    <3> QED BY <3>1, <2>2, <2>x, <2>7, <2>14, <2>15, <1>GrowSafe
  <2>18. /\ Clean(J, SetAt(t.ms.dblocks, i, D), SetAt(t.d.data, x, v))
         /\ Shows(J, SetAt(t.d.data, x, v))
    <3>1. Clean(I, t.ms.dblocks, t.d.data) /\ Shows(I, t.d.data) BY <2>1, <2>0 DEF Blocks
    <3>2. ~Owned(I, x)
      <4>1. Pooled(I, F, A) BY <2>1, <2>0 DEF Blocks
      <4> QED BY <4>1, <2>x, <2>7 DEF Pooled
    <3> QED BY <3>1, <3>2, <2>2, <2>7, <2>8, <2>14, <2>15, <1>GrowData
  <2>19. Short(J)
    <3>1. Short(I) BY <2>1, <2>0 DEF Blocks
    <3>2. \A a \in Inum : a # i => J[a].blocks = I[a].blocks BY <2>3, <2>12, <2>13
    <3> QED BY <3>1, <3>2, <2>14, <2>15, <1>GrowShort
  <2>20. g.d.free = SetAt(F, A, F[A] \ {x}) BY <2>3, <2>4, <2>12
  <2>21. Kinds(g.d.free) /\ g.d.free["inode"] = F["inode"]
    <3>1. Kinds(F) BY <2>1, <2>0 DEF Blocks
    <3>2. /\ g.d.free[A] = F[A] \ {x} /\ \A k \in Allocator : k # A => g.d.free[k] = F[k]
      BY <2>2, <2>20 DEF SetAt, FreeType
    <3>3. {"data1", "data2", "inode"} = Allocator BY SMT DEF Allocator
    <3>4. \A k \in Allocator : g.d.free[k] \subseteq F[k] BY <3>2
    <3>5. g.d.free["data1"] \subseteq F["data1"] /\ g.d.free["data2"] \subseteq F["data2"]
      BY <3>3, <3>4
    <3>6. g.d.free["inode"] = F["inode"] BY <3>2, <3>3, <2>2
    <3> QED BY <3>1, <3>5, <3>6 DEF Kinds
  <2>22. Blocks(ds, g)
    <3>1. g.ms.al = A /\ g.d.data = SetAt(t.d.data, x, v) /\ g.ms.dblocks = SetAt(t.ms.dblocks, i, D)
      BY <2>3, <2>12
    <3> QED BY <3>1, <2>16, <2>17, <2>18, <2>19, <2>20, <2>21, <2>13 DEF Blocks
  <2>23. TInv(ds, g) BY <2>1, <2>3, <2>12, <2>22 DEF TInv
  <2>24. SameTree(t, g) BY <2>3, <2>12, <2>21, <2>0 DEF SameTree
  <2>25. g.w = t.w \cup {<<A, 0>>, <<"ino", 0>>, <<"data", x>>} BY <2>3, <2>8, <2>12
  <2> QED BY <2>3, <2>7, <2>12, <2>23, <2>24, <2>25, <2>0 DEF Grows
<1>GrowInv. ASSUME Known, NEW ds, NEW t, TInv(ds, t), t.err = "OK", NEW i \in Inum
      PROVE  GrowsTo(ds, t, Grow(t, i, Zero))
  <2> USE <1>GrowInv
  <2>0. PICK g : g = Grow(t, i, Zero) OBVIOUS
  <2>1. Grow(t, i, Zero) = IF TooBig(Len(t.d.ino[i].blocks)) THEN Fail(t, "EFBIG")
            ELSE IF Alloc(t, t.ms.al).err # "OK" THEN Alloc(t, t.ms.al)
            ELSE GrowBy(Alloc(t, t.ms.al), i, Head(FreeList(t, t.ms.al)), Zero)
    BY DEF Grow, GrowBy
  <2>2. t \in Txn /\ Lists(t.d.free, t.ms.list) /\ t.ms.al \in AlType /\ t.ms.al \in Allocator
    BY Parts, OtherIs DEF TInv
  <2>3. "EFBIG" \in Answers /\ "EFBIG" # "OK" /\ "ENOSPC" # "OK" BY SMT DEF Answers
  <2>4. CASE TooBig(Len(t.d.ino[i].blocks))
    <3>1. g = Fail(t, "EFBIG") BY <2>0, <2>1, <2>4
    <3>2. TInv(ds, g) /\ SameTree(t, g) /\ SameBlocks(t, g) BY <3>1, <2>3, FailInv
    <3>3. g.err = "EFBIG" /\ g.ms = t.ms BY <3>1, <2>2, <2>3, FailIs
    <3> QED BY <3>2, <3>3, <2>0, <2>3 DEF GrowsTo
  <2>5. CASE ~TooBig(Len(t.d.ino[i].blocks)) /\ FreeList(t, t.ms.al) = <<>>
    <3>0. Refuses(ds, t, Alloc(t, t.ms.al)) BY <2>2, <2>5, Allocators DEF AllocFails
    <3>1. PICK u : u = Alloc(t, t.ms.al) OBVIOUS
    <3>2. Refuses(ds, t, u) BY <3>0, <3>1
    <3>3. g = u BY <3>1, <3>2, <2>0, <2>1, <2>3, <2>5 DEF Refuses
    <3> QED BY <3>2, <3>3, <2>0, <2>3 DEF GrowsTo, SameTree, SameBlocks, Refuses
  <2>6. CASE ~TooBig(Len(t.d.ino[i].blocks)) /\ FreeList(t, t.ms.al) # <<>>
    <3>1. Grows(ds, t, Grow(t, i, Zero)) BY <2>6, <1>GrowOK
    <3>2. Grows(ds, t, g) BY <3>1, <2>0
    <3> QED BY <3>2, <2>0 DEF GrowsTo, Grows
  <2> QED BY <2>4, <2>5, <2>6
\* They are in use, so that freevec may take them.
<1>BehindGives. ASSUME Known, NEW ds, NEW t, TInv(ds, t), NEW i \in Inum, NEW m \in 0 .. Len(t.d.ino[i].blocks)
      PROVE  /\ Gives(t, Other(t.ms.al), Behind(t, i, m), FreeVec(t, Other(t.ms.al), Behind(t, i, m)))
             /\ Behind(t, i, m) \in Seq(Block)
             /\ \A b : b \in Range(Behind(t, i, m)) <=> \E j \in Nat : At(t.d.ino, b, i, j) /\ ~(j <= m)
  <2> USE <1>BehindGives
  <2>1. t \in Txn /\ Lists(t.d.free, t.ms.list) /\ Once(t.d.ino) /\ Pooled(t.d.ino, t.d.free, t.ms.al)
    BY DEF TInv, Blocks
  <2>2. PICK g, A, I : g = Behind(t, i, m) /\ A = t.ms.al /\ I = t.d.ino OBVIOUS
  <2>3. A \in AlType /\ Other(A) \in Allocator /\ I \in InoType BY <2>1, <2>2, Parts, OtherIs
  <2>4. /\ g \in Seq(Block) /\ \A j, k \in 1 .. Len(g) : g[j] = g[k] => j = k
        /\ \A j \in 1 .. Len(g) : Owned(I, g[j])
        /\ \A b : b \in Range(g) <=> \E j \in Nat : At(I, b, i, j) /\ ~(j <= m)
    <3>1. Suffix(t.d.ino, i, m, SubSeq(t.d.ino[i].blocks, m + 1, Len(t.d.ino[i].blocks)))
      BY <2>1, Parts, <1>SuffixIs
    <3> QED BY <3>1, <2>2 DEF Behind, Suffix
  <2>5. g \in Seq(Item) /\ \A j \in 1 .. Len(g) : g[j] \in Block
    <3>1. Block \subseteq Item BY DEF Item
    <3> QED BY <3>1, <2>4, SMT
  <2>6. \A j \in 1 .. Len(g) : g[j] \notin t.d.free[Other(A)]
    <3>1. \A b \in Block : Owned(I, b) => b \notin t.d.free[Other(A)] BY <2>1, <2>2 DEF Pooled
    <3> QED BY <3>1, <2>4, <2>5
  <2>7. Gives(t, Other(A), g, FreeVec(t, Other(A), g)) BY <2>1, <2>3, <2>4, <2>5, <2>6, Allocators
                                             DEF FreeVecIs
  <2> QED BY <2>2, <2>4, <2>7
\* Cutting an inode keeps the invariant of the blocks.
<1>CutInv. ASSUME Known, NEW ds, NEW t, TInv(ds, t), NEW i \in Inum, NEW m \in 0 .. Len(t.d.ino[i].blocks),
             NEW D, StillDirty(t, i, m, D),
             NEW v, CutTo(t, i, m, Behind(t, i, m), D, v)
      PROVE  BlocksKept(ds, t, v)
  <2> USE <1>CutInv
  <2>1. t \in Txn /\ Lists(t.d.free, t.ms.list) /\ Blocks(ds, t) BY DEF TInv
  <2>2. PICK g, A, I, F : g = Behind(t, i, m) /\ A = t.ms.al /\ I = t.d.ino /\ F = t.d.free OBVIOUS
  <2>3. /\ I \in InoType /\ F \in FreeType /\ A \in AlType /\ A \in Allocator /\ Other(A) \in AlType /\ Other(A) \in Allocator /\ Other(A) # "inode"
    BY <2>1, <2>2, Parts, OtherIs
  <2>4. PICK J \in InoType : J = v.d.ino BY Parts DEF CutTo
  <2>5. m \in Nat BY SMT DEF Behind
  <2>6. Cut(I, J, i, m) /\ Len(J[i].blocks) = m
    <3>1. Prefixed(I, J, i, m) BY <2>2, <2>4 DEF CutTo, Prefixed
    <3> QED BY <3>1, <2>3, <1>PrefixAt
  <2>7. \A b \in Block : b \in Range(g) <=> \E j \in Nat : At(I, b, i, j) /\ ~(j <= m)
    BY <2>2, <1>BehindGives
  <2>8. Once(I) /\ Pooled(I, F, A) /\ Safe(ds, A, I, F) BY <2>1, <2>2 DEF Blocks
  <2>9. Once(J) /\ Pooled(J, SetAt(F, Other(A), F[Other(A)] \cup Range(g)), A)
    BY <2>3, <2>5, <2>6, <2>7, <2>8, <1>CutOwns
  <2>10. Safe(ds, A, J, SetAt(F, Other(A), F[Other(A)] \cup Range(g)))
    BY <2>3, <2>5, <2>6, <2>8, <1>CutSafe
  <2>11. Clean(J, SetAt(t.ms.dblocks, i, D), t.d.data) /\ Shows(J, t.d.data)
    <3>1. Clean(I, t.ms.dblocks, t.d.data) /\ Shows(I, t.d.data) /\ t.ms.dblocks \in DirtyType
      BY <2>1, <2>2, Parts DEF Blocks
    <3>2. ASSUME NEW b \in Block, NEW j \in Nat, At(J, b, i, j), b \in t.ms.dblocks[i] PROVE b \in D
      <4>1. At(I, b, i, j) /\ j <= m BY <3>2, <2>6 DEF Cut
      <4>2. ASSUME NEW k \in Nat, At(I, b, i, k) PROVE k = j BY <4>1, <4>2, <2>8 DEF Once
      <4>3. b \notin Range(g) BY <4>1, <4>2, <2>7
      <4>4. m # 0 BY <3>2, <2>6, SMT DEF At
      <4> QED BY <4>3, <4>4, <3>2, <2>2 DEF StillDirty
    <3> QED BY <3>1, <3>2, <2>5, <2>6, <1>CutData
  <2>12. Short(J)
    <3>1. Short(I) BY <2>1, <2>2 DEF Blocks
    <3>2. m <= NBlocks
      <4>1. I[i].blocks \in Seq(Block) /\ m \in 0 .. Len(I[i].blocks) BY <2>2, <2>3 DEF InoType, InoRec, BlockSeq
      <4>2. PICK s \in Seq(Block) : s = I[i].blocks BY <4>1
      <4>3. Len(s) <= NBlocks /\ m \in 0 .. Len(s) BY <3>1, <4>1, <4>2 DEF Short
      <4> QED BY <4>3, Constants, SMT
    <3>3. \A a \in Inum : a # i => J[a].blocks = I[a].blocks BY <2>2, <2>4 DEF CutTo
    <3> QED BY <3>1, <3>2, <3>3, <2>6 DEF Short
  <2>13. v.d.free = SetAt(F, Other(A), F[Other(A)] \cup Range(g)) BY <2>2 DEF CutTo
  <2>14. Kinds(v.d.free) /\ v.d.free["inode"] = F["inode"]
    <3>1. Kinds(F) BY <2>1, <2>2 DEF Blocks
    <3>2. g \in Seq(Block) BY <2>2, <1>BehindGives
    <3>3. DOMAIN g = 1 .. Len(g) /\ \A j \in 1 .. Len(g) : g[j] \in Block BY <3>2, SMT
    <3>4. Range(g) \subseteq Block BY <3>3 DEF Range
    <3>5. /\ v.d.free[Other(A)] = F[Other(A)] \cup Range(g)
          /\ \A k \in Allocator : k # Other(A) => v.d.free[k] = F[k]
      BY <2>3, <2>13 DEF SetAt, FreeType
    <3>6. {"data1", "data2", "inode"} = Allocator BY SMT DEF Allocator
    <3>7. \A k \in Allocator : v.d.free[k] \subseteq F[k] \cup Block BY <3>4, <3>5
    <3>8. v.d.free["data1"] \subseteq F["data1"] \cup Block /\ v.d.free["data2"] \subseteq F["data2"] \cup Block
      BY <3>6, <3>7
    <3>9. v.d.free["inode"] = F["inode"] BY <3>5, <3>6, <2>3
    <3> QED BY <3>1, <3>8, <3>9 DEF Kinds
  <2>15. Blocks(ds, v)
    <3>1. v.ms.al = A /\ v.d.data = t.d.data /\ v.ms.dblocks = SetAt(t.ms.dblocks, i, D) BY <2>2 DEF CutTo
    <3> QED BY <3>1, <2>4, <2>9, <2>10, <2>11, <2>12, <2>13, <2>14 DEF Blocks
  <2> QED BY <2>2, <2>14, <2>15 DEF BlocksKept
\* shrink cuts n blocks off.
<1>ShrinkInv. ASSUME Known, NEW ds, NEW t, TInv(ds, t), NEW i \in Inum, NEW n, NEW m \in 0 .. Len(t.d.ino[i].blocks),
             Len(t.d.ino[i].blocks) - n = m
      PROVE  Keeps(ds, t, Shrink(t, i, n))
  <2> USE <1>ShrinkInv
  <2>0. PICK v, g, A, u, s, D, W :
          /\ v = Shrink(t, i, n) /\ g = Behind(t, i, m) /\ A = t.ms.al /\ u = FreeVec(t, Other(A), g)
          /\ s = SubSeq(t.d.ino[i].blocks, 1, m) /\ D = u.ms.dblocks[i] \ Range(g) /\ W = u.w \cup {<<"ino", 0>>}
    OBVIOUS
  <2>1. t \in Txn BY DEF TInv
  <2>2. Gives(t, Other(A), g, u) /\ g \in Seq(Block) BY <2>0, <1>BehindGives
  <2>3. u \in Txn /\ u.ms.dblocks = t.ms.dblocks BY <2>2 DEF Gives
  <2>4. s \in BlockSeq /\ D \in BlockSet /\ W \in Written
    <3>1. t.d.ino[i].blocks \in Seq(Block) BY <2>1, Parts DEF InoType, InoRec, BlockSeq
    <3>2. PICK q \in Seq(Block) : q = t.d.ino[i].blocks BY <3>1
    <3>3. m \in 0 .. Len(q) /\ s = SubSeq(q, 1, m) BY <3>2, <2>0
    <3>4. s \in BlockSeq BY <3>3, SMT DEF BlockSeq
    <3>5. u.ms.dblocks[i] \in BlockSet BY <2>3, Parts DEF DirtyType
    <3> QED BY <3>4, <3>5, <2>0, <2>3, Parts, WrittenIs DEF BlockSet, Written
  <2>5. PICK a, b : a = SetIno(u, i, s) /\ b = SetDirty(a, i, D) OBVIOUS
  <2>6. v = SetW(b, W)
    <3>1. Shrink(t, i, n) = [u EXCEPT !.d.ino[i].blocks = SubSeq(t.d.ino[i].blocks, 1, m),
                                      !.ms.dblocks[i] = @ \ Range(g), !.w = @ \cup {<<"ino", 0>>}]
      BY <2>0 DEF Shrink, FreesTo, Behind
    <3> QED BY <3>1, <2>0, <2>5 DEF SetW, SetDirty, SetIno
  <2>7. /\ a \in Txn /\ a.ms = u.ms /\ a.err = u.err
        /\ a.d.dir = u.d.dir /\ a.d.free = u.d.free /\ a.d.data = u.d.data
        /\ a.d.ino[i].blocks = s /\ \A j \in Inum : j # i => a.d.ino[j] = u.d.ino[j]
    BY <2>3, <2>4, <2>5, <1>PutIno, SMT
  <2>8. /\ b \in Txn /\ b.d = a.d /\ b.err = a.err
        /\ b.ms.al = a.ms.al /\ b.ms.dcache = a.ms.dcache /\ b.ms.list = a.ms.list
        /\ b.ms.dblocks = SetAt(a.ms.dblocks, i, D)
    BY <2>4, <2>5, <2>7, <1>PutDirty, SMT
  <2>9. v \in Txn /\ v.d = b.d /\ v.ms = b.ms /\ v.err = b.err BY <2>4, <2>6, <2>8, PutW, SMT
  <2>10. /\ v.d.dir = t.d.dir /\ v.d.free = u.d.free /\ v.d.data = t.d.data
         /\ v.ms.al = t.ms.al /\ v.ms.dcache = t.ms.dcache /\ v.ms.list = u.ms.list
         /\ v.ms.dblocks = SetAt(t.ms.dblocks, i, D) /\ v.err = t.err
    <3>1. /\ u.d.dir = t.d.dir /\ u.d.data = t.d.data /\ u.ms.al = t.ms.al /\ u.ms.dcache = t.ms.dcache
          /\ u.err = t.err
      BY <2>2 DEF Gives
    <3> QED BY <3>1, <2>3, <2>7, <2>8, <2>9, SMT
  <2>11. CutTo(t, i, m, g, D, v)
    <3>1. v.d.ino[i].blocks = s /\ \A j \in Inum : j # i => v.d.ino[j].blocks = t.d.ino[j].blocks
      <4>1. u.d.ino = t.d.ino BY <2>2 DEF Gives
      <4> QED BY <4>1, <2>7, <2>8, <2>9, SMT
    <3>2. u.d.free = SetAt(t.d.free, Other(A), t.d.free[Other(A)] \cup Range(g)) /\ Lists(u.d.free, u.ms.list)
      BY <2>2 DEF Gives
    <3> QED BY <3>1, <3>2, <2>0, <2>9, <2>10 DEF CutTo
  <2>12. Blocks(ds, v) /\ v.d.free["inode"] = t.d.free["inode"]
    <3>1. CutTo(t, i, m, Behind(t, i, m), D, v) /\ StillDirty(t, i, m, D)
      BY <2>0, <2>3, <2>11 DEF StillDirty
    <3>2. BlocksKept(ds, t, v) BY <3>1, <1>CutInv
    <3> QED BY <3>2 DEF BlocksKept
  <2>13. Cached(v.ms.dcache, v.d.dir) BY <2>10 DEF TInv
  <2>14. TInv(ds, v) BY <2>9, <2>11, <2>12, <2>13 DEF TInv, CutTo
  <2> QED BY <2>0, <2>10, <2>12, <2>14 DEF Keeps, SameTree
<1>PutInode. ASSUME NEW t \in Txn, NEW i \in Inum, NEW r \in InoRec, NEW u, u = SetInode(t, i, r)
      PROVE  /\ u \in Txn /\ u.ms = t.ms /\ u.w = t.w /\ u.err = t.err
             /\ u.d.dir = t.d.dir /\ u.d.free = t.d.free /\ u.d.data = t.d.data
             /\ u.d.ino[i] = r /\ \A a \in Inum : a # i => u.d.ino[a] = t.d.ino[a]
  BY <1>PutInode DEF SetInode, Txn, Disk, InoType
<1>ResetInv. ASSUME Known, NEW ds, NEW t, TInv(ds, t), NEW i \in Inum
      PROVE  Resets(ds, t, Reset(t, i))
  <2> USE <1>ResetInv
  <2>0. PICK v, g, A, u, C, W :
          /\ v = Reset(t, i) /\ g = t.d.ino[i].blocks /\ A = t.ms.al /\ u = FreeVec(t, Other(A), g)
          /\ C = [d \in DOMAIN t.ms.dcache \ {i} |-> u.ms.dcache[d]] /\ W = u.w \cup {<<"ino", 0>>}
    OBVIOUS
  <2>1. t \in Txn BY DEF TInv
  <2>2. g \in Seq(Block) /\ g = Behind(t, i, 0) /\ SubSeq(g, 1, 0) = <<>> /\ 0 \in 0 .. Len(t.d.ino[i].blocks)
    <3>1. g \in Seq(Block) BY <2>0, <2>1, Parts DEF InoType, InoRec, BlockSeq
    <3>2. SubSeq(g, 0 + 1, Len(g)) = g /\ SubSeq(g, 1, 0) = <<>> /\ 0 \in 0 .. Len(g) BY <3>1, SMT
    <3> QED BY <3>1, <3>2, <2>0 DEF Behind
  <2>3. Gives(t, Other(A), g, u) BY <2>0, <2>2, <1>BehindGives
  <2>4. /\ u \in Txn /\ u.ms.dblocks = t.ms.dblocks /\ u.ms.dcache = t.ms.dcache
    BY <2>3 DEF Gives
  <2>5. NoInode \in InoRec /\ NoInode.blocks = <<>> BY SMT DEF NoInode, InoRec, BlockSeq
  <2>6. C \in CacheType /\ Cached(C, t.d.dir)
    <3>1. t.ms.dcache \in CacheType /\ Cached(t.ms.dcache, t.d.dir) BY <2>1, Parts DEF TInv
    <3>2. PICK S \in SUBSET Inum : t.ms.dcache \in [S -> DirMap] BY <3>1 DEF CacheType, Maps
    <3>3. DOMAIN t.ms.dcache = S BY <3>2
    <3>4. C \in [S \ {i} -> DirMap] BY <3>2, <3>3, <2>0, <2>4
    <3>5. C \in CacheType BY <3>4 DEF CacheType, Maps
    <3>6. Cached(C, t.d.dir) BY <3>1, <3>3, <2>0, <2>4 DEF Cached
    <3> QED BY <3>5, <3>6
  <2>7. PICK D : D = {} OBVIOUS
  <2>8. D \in BlockSet /\ W \in Written BY <2>0, <2>4, <2>7, Parts, WrittenIs DEF BlockSet, Written
  <2>9. PICK a, b, c : a = SetInode(u, i, NoInode) /\ b = SetDirty(a, i, D) /\ c = SetCache(b, C) OBVIOUS
  <2>10. v = SetW(c, W)
    <3>1. Reset(t, i) = [u EXCEPT !.d.ino[i] = NoInode, !.ms.dblocks[i] = {},
                                  !.ms.dcache = [d \in DOMAIN t.ms.dcache \ {i} |-> @[d]],
                                  !.w = @ \cup {<<"ino", 0>>}]
      BY <2>0 DEF Reset, FreesTo
    <3> QED BY <3>1, <2>0, <2>7, <2>9 DEF SetW, SetDirty, SetInode, SetCache
  <2>11. /\ a \in Txn /\ a.ms = u.ms /\ a.err = u.err
         /\ a.d.dir = u.d.dir /\ a.d.free = u.d.free /\ a.d.data = u.d.data
         /\ a.d.ino[i] = NoInode /\ \A j \in Inum : j # i => a.d.ino[j] = u.d.ino[j]
    BY <2>4, <2>5, <2>9, <1>PutInode, SMT
  <2>12. /\ b \in Txn /\ b.d = a.d /\ b.err = a.err
         /\ b.ms.al = a.ms.al /\ b.ms.list = a.ms.list
         /\ b.ms.dblocks = SetAt(a.ms.dblocks, i, D)
    BY <2>8, <2>9, <2>11, <1>PutDirty, SMT
  <2>13. /\ c \in Txn /\ c.d = b.d /\ c.err = b.err
         /\ c.ms.al = b.ms.al /\ c.ms.list = b.ms.list /\ c.ms.dblocks = b.ms.dblocks /\ c.ms.dcache = C
    BY <2>6, <2>9, <2>12, PutCache, SMT
  <2>14. v \in Txn /\ v.d = c.d /\ v.ms = c.ms /\ v.err = c.err BY <2>8, <2>10, <2>13, PutW, SMT
  <2>15. /\ v.d.dir = t.d.dir /\ v.d.free = u.d.free /\ v.d.data = t.d.data
         /\ v.ms.al = t.ms.al /\ v.ms.dcache = C /\ v.ms.list = u.ms.list
         /\ v.ms.dblocks = SetAt(t.ms.dblocks, i, D) /\ v.err = t.err
    <3>1. /\ u.d.dir = t.d.dir /\ u.d.data = t.d.data /\ u.ms.al = t.ms.al /\ u.err = t.err
      BY <2>3 DEF Gives
    <3> QED BY <3>1, <2>4, <2>11, <2>12, <2>13, <2>14, SMT
  <2>16. CutTo(t, i, 0, g, D, v)
    <3>1. v.d.ino[i].blocks = <<>> /\ \A j \in Inum : j # i => v.d.ino[j].blocks = t.d.ino[j].blocks
      BY <2>3, <2>5, <2>11, <2>12, <2>13, <2>14, SMT DEF Gives
    <3>2. u.d.free = SetAt(t.d.free, Other(A), t.d.free[Other(A)] \cup Range(g)) /\ Lists(u.d.free, u.ms.list)
      BY <2>3 DEF Gives
    <3> QED BY <3>1, <3>2, <2>0, <2>2, <2>14, <2>15 DEF CutTo
  <2>17. Blocks(ds, v) /\ v.d.free["inode"] = t.d.free["inode"]
    <3>1. CutTo(t, i, 0, Behind(t, i, 0), D, v) /\ StillDirty(t, i, 0, D)
      BY <2>2, <2>7, <2>16 DEF StillDirty
    <3>2. BlocksKept(ds, t, v) BY <3>1, <2>2, <1>CutInv
    <3> QED BY <3>2 DEF BlocksKept
  <2>18. TInv(ds, v) BY <2>6, <2>14, <2>15, <2>16, <2>17 DEF TInv, CutTo
  <2> QED BY <2>0, <2>15, <2>17, <2>18 DEF Resets, SameTree
<1>TruncateInv. ASSUME Known, NEW ds, NEW t, TInv(ds, t), NEW i \in Inum, NEW n \in Nat
      PROVE  Trims(ds, t, Truncate(t, i, n))
  <2> USE <1>TruncateInv
  <2>1. t \in Txn /\ t.d.ino[i].blocks \in Seq(Block) BY Parts DEF TInv, InoType, InoRec, BlockSeq
  <2>2. PICK len \in Nat : len = Len(t.d.ino[i].blocks)
    <3>1. PICK s \in Seq(Block) : s = t.d.ino[i].blocks BY <2>1
    <3>2. Len(s) \in Nat BY SMT
    <3> QED BY <3>1, <3>2
  <2>3. CASE n < len
    <3>1. Truncate(t, i, n) = Shrink(t, i, len - n) BY <2>2, <2>3 DEF Truncate
    <3>2. n \in 0 .. len /\ len - (len - n) = n BY <2>3, SMT
    <3>3. Keeps(ds, t, Shrink(t, i, len - n))
      <4>1. n \in 0 .. Len(t.d.ino[i].blocks) /\ Len(t.d.ino[i].blocks) - (len - n) = n BY <3>2, <2>2
      <4> QED BY <4>1, <1>ShrinkInv
    <3> QED BY <3>1, <3>3 DEF Trims, Keeps
  <2>4. CASE ~(n < len)
    <3>1. PICK m \in Nat : m = n - len BY <2>4, SMT
    <3> DEFINE IsRun(g) == g = [k \in 0 .. m |-> IF k = 0 THEN t
                                  ELSE IF g[k - 1].err = "OK" THEN Grow(g[k - 1], i, Zero) ELSE g[k - 1]]
               h == CHOOSE g : IsRun(g)
    <3>2. Truncate(t, i, n) = h[m] BY <2>2, <2>4, <3>1 DEF Truncate
    <3>3. PICK X : X = {u \in Txn : Trims(ds, t, u)} OBVIOUS
    <3>4. t \in X BY <2>1, <3>3 DEF Trims, SameTree
    <3>5. ASSUME NEW u \in X PROVE (IF u.err = "OK" THEN Grow(u, i, Zero) ELSE u) \in X
      <4>1. CASE u.err = "OK"
        <5>0. TInv(ds, u) /\ SameTree(t, u) BY <3>3 DEF Trims
        <5>1. GrowsTo(ds, u, Grow(u, i, Zero)) BY <5>0, <4>1, <1>GrowInv
        <5>2. TInv(ds, Grow(u, i, Zero)) /\ SameTree(u, Grow(u, i, Zero)) BY <5>1 DEF GrowsTo
        <5>3. SameTree(t, Grow(u, i, Zero)) BY <5>0, <5>2 DEF SameTree
        <5>4. Grow(u, i, Zero) \in Txn BY <5>2 DEF TInv
        <5> QED BY <4>1, <5>2, <5>3, <5>4, <3>3 DEF Trims
      <4> QED BY <4>1
    <3>6. \E g : IsRun(g)
      <4>1. PICK F : F = [p \in X \X Nat |-> IF p[1].err = "OK" THEN Grow(p[1], i, Zero) ELSE p[1]] OBVIOUS
      <4>2. F \in [X \X Nat -> X] /\ \A u \in X, k \in Nat : F[<<u, k>>] = IF u.err = "OK" THEN Grow(u, i, Zero) ELSE u
        BY <4>1, <3>5, SMT
      <4>0. CanRun(X, F, t, m) BY <4>2, <3>4, Iterates
      <4>3. PICK g \in [0 .. m -> X] : g[0] = t /\ \A k \in 1 .. m : g[k] = F[<<g[k - 1], k>>]
        BY <4>0 DEF CanRun
      <4>4. ASSUME NEW k \in 0 .. m
            PROVE  g[k] = IF k = 0 THEN t ELSE IF g[k - 1].err = "OK" THEN Grow(g[k - 1], i, Zero) ELSE g[k - 1]
        <5>1. k # 0 => k \in 1 .. m /\ k - 1 \in 0 .. m /\ k \in Nat BY SMT
        <5>2. k # 0 => g[k - 1] \in X BY <5>1
        <5> QED BY <5>1, <5>2, <4>2, <4>3
      <4>5. g = [k \in 0 .. m |-> g[k]] OBVIOUS
      <4> QED BY <4>4, <4>5
    <3>7. IsRun(h)
      <4> HIDE DEF IsRun
      <4> QED BY <3>6
    <3>8. h[0] = t /\ \A k \in 1 .. m : h[k] = IF h[k - 1].err = "OK" THEN Grow(h[k - 1], i, Zero) ELSE h[k - 1]
      <4> HIDE DEF h
      <4>1. 0 \in 0 .. m /\ \A k \in 1 .. m : k \in 0 .. m /\ k # 0 BY SMT
      <4> QED BY <4>1, <3>7
    <3> HIDE DEF h, IsRun
    <3>9. \A k \in 1 .. m : h[k - 1] \in X => h[k] \in X BY <3>5, <3>8
    <3>10. \A k \in 0 .. m : h[k] \in X BY <3>4, <3>8, <3>9, Stays
    <3>11. m \in 0 .. m BY SMT
    <3> QED BY <3>2, <3>3, <3>10, <3>11
  <2> QED BY <2>3, <2>4
<1>SameAtBlocks. ASSUME NEW ds, NEW t, NEW u, Blocks(ds, t), SameAt(t.d.ino, u.d.ino), u.d.free = t.d.free,
             u.d.data = t.d.data, u.ms.al = t.ms.al, u.ms.dblocks = t.ms.dblocks
      PROVE  Blocks(ds, u)
  <2> USE <1>SameAtBlocks
  <2>1. PICK I, J : I = t.d.ino /\ J = u.d.ino OBVIOUS
  <2>2. \A b, j : \A i \in Inum : At(J, b, i, j) <=> At(I, b, i, j) BY <2>1 DEF At, SameAt
  <2>3. \A b : Owned(J, b) <=> Owned(I, b) BY <2>2 DEF Owned
  <2>4. Once(J)
    <3>1. Once(I) BY <2>1 DEF Blocks
    <3> QED BY <3>1, <2>2, SMT DEF Once
  <2>5. Pooled(J, t.d.free, t.ms.al) BY <2>1, <2>3 DEF Pooled, Blocks
  <2>6. Safe(ds, t.ms.al, J, t.d.free)
    <3> SUFFICES ASSUME NEW n \in DOMAIN ds PROVE SafeOne(ds[n], t.ms.al, J, t.d.free) BY DEF Safe
    <3>1. SafeOne(ds[n], t.ms.al, I, t.d.free) BY <2>1 DEF Safe, Blocks
    <3> QED BY <3>1, <2>2 DEF SafeOne
  <2>7. Clean(J, t.ms.dblocks, t.d.data) BY <2>1, <2>2 DEF Clean, Blocks
  <2>8. Shows(J, t.d.data) BY <2>1, <2>2 DEF Shows, Blocks
  <2>9. Short(J) BY <2>1 DEF Short, Blocks, SameAt
  <2>10. Kinds(t.d.free) BY DEF Blocks
  <2> QED BY <2>1, <2>4, <2>5, <2>6, <2>7, <2>8, <2>9, <2>10 DEF Blocks
<1>PutBytes. ASSUME NEW t \in Txn, NEW i \in Inum, NEW sz \in Nat, NEW u, u = SetBytesOf(t, i, sz)
      PROVE  /\ u \in Txn /\ u.ms = t.ms /\ u.w = t.w /\ u.err = t.err
             /\ u.d.dir = t.d.dir /\ u.d.free = t.d.free /\ u.d.data = t.d.data /\ SameAt(t.d.ino, u.d.ino)
  BY <1>PutBytes DEF SetBytesOf, Txn, Disk, InoType, InoRec, SameAt
<1>SetBytesInv. ASSUME Known, NEW ds, NEW t, TInv(ds, t), NEW i \in Inum, NEW sz \in Nat
      PROVE  Writes(ds, t, SetBytes(t, i, sz), <<"ino", 0>>)
  <2> USE <1>SetBytesInv
  <2>0. PICK v, a, W : v = SetBytes(t, i, sz) /\ a = SetBytesOf(t, i, sz) /\ W = t.w \cup {<<"ino", 0>>} OBVIOUS
  <2>1. t \in Txn BY DEF TInv
  <2>2. v = SetW(a, W) BY <2>0, SMT DEF SetBytes, SetBytesOf, SetW
  <2>3. W \in Written BY <2>0, <2>1, Parts, WrittenIs DEF Written
  <2>4. /\ a \in Txn /\ a.ms = t.ms /\ a.w = t.w /\ a.err = t.err
        /\ a.d.dir = t.d.dir /\ a.d.free = t.d.free /\ a.d.data = t.d.data /\ SameAt(t.d.ino, a.d.ino)
    BY <2>0, <2>1, <1>PutBytes, SMT
  <2>5. v \in Txn /\ v.d = a.d /\ v.ms = a.ms /\ v.w = W /\ v.err = a.err BY <2>2, <2>3, <2>4, PutW, SMT
  <2>6. Blocks(ds, v)
    <3>1. /\ Blocks(ds, t) /\ SameAt(t.d.ino, v.d.ino) /\ v.d.free = t.d.free /\ v.d.data = t.d.data
          /\ v.ms.al = t.ms.al /\ v.ms.dblocks = t.ms.dblocks
      BY <2>4, <2>5 DEF TInv
    <3> QED BY <3>1, <1>SameAtBlocks
  <2>7. TInv(ds, v) BY <2>4, <2>5, <2>6 DEF TInv
  <2> QED BY <2>0, <2>4, <2>5, <2>7 DEF Writes, Keeps, SameTree
\* update_fblock through the log: a block of file i gets the value of file i.
<1>LogWriteInv. ASSUME Known, NEW ds, NEW t, TInv(ds, t), NEW i \in Inum, NEW off \in Nat, off < Len(t.d.ino[i].blocks)
      PROVE  \E x \in Block : Writes(ds, t, LogWrite(t, i, off, i), <<"data", x>>)
  <2> USE <1>LogWriteInv
  <2>1. t \in Txn /\ Blocks(ds, t) BY DEF TInv
  <2>2. PICK I, j, x, v : I = t.d.ino /\ j = off + 1 /\ x = I[i].blocks[j] /\ v = Settled(i) OBVIOUS
  <2>3. PICK s \in Seq(Block) : s = t.d.ino[i].blocks BY <2>1, Parts DEF InoType, InoRec, BlockSeq
  <2>4. j \in Nat /\ j \in 1 .. Len(s) BY <2>2, <2>3, SMT
  <2>5. x \in Block /\ At(I, x, i, j) BY <2>2, <2>3, <2>4, SMT DEF At
  <2>6. v \in Valus
    <3>1. i \in Val BY DEF Known
    <3> QED BY <3>1, <2>2, SMT DEF Settled, ValuSet, Valus
  <2>7. PICK u, a, W : u = LogWrite(t, i, off, i) /\ a = SetData(t, x, v) /\ W = t.w \cup {<<"data", x>>}
    OBVIOUS
  <2>8. u = SetW(a, W)
    <3>1. u = [t EXCEPT !.d.data[x] = v, !.w = @ \cup {<<"data", x>>}] BY <2>2, <2>7 DEF LogWrite
    <3> QED BY <3>1, <2>7, SMT DEF SetData, SetW
  <2>9. W \in Written BY <2>1, <2>5, <2>7, Parts, WrittenIs DEF Written
  <2>10. /\ a \in Txn /\ a.ms = t.ms /\ a.w = t.w /\ a.err = t.err
         /\ a.d.dir = t.d.dir /\ a.d.free = t.d.free /\ a.d.ino = t.d.ino /\ a.d.data = SetAt(t.d.data, x, v)
    BY <2>1, <2>5, <2>6, <2>7, <1>PutData, SMT
  <2>11. u \in Txn /\ u.d = a.d /\ u.ms = a.ms /\ u.w = W /\ u.err = a.err BY <2>8, <2>9, <2>10, PutW, SMT
  <2>12. /\ Clean(I, t.ms.dblocks, SetAt(t.d.data, x, v)) /\ Shows(I, SetAt(t.d.data, x, v))
    <3>1. /\ Once(I) /\ Clean(I, t.ms.dblocks, t.d.data) /\ Shows(I, t.d.data) /\ t.d.data \in DataType
      BY <2>1, <2>2, Parts DEF Blocks
    <3> QED BY <3>1, <2>2, <2>4, <2>5, <1>WriteData
  <2>13. Blocks(ds, u) BY <2>1, <2>2, <2>10, <2>11, <2>12 DEF Blocks
  <2>14. TInv(ds, u) BY <2>10, <2>11, <2>13 DEF TInv
  <2>15. Writes(ds, t, u, <<"data", x>>) BY <2>7, <2>10, <2>11, <2>14 DEF Writes, Keeps, SameTree
  <2> QED BY <2>5, <2>7, <2>15
<1> QED BY <1>GrowInv, <1>ResetInv, <1>TruncateInv, <1>SetBytesInv, <1>LogWriteInv
      DEF GrowInv, ResetInv, TruncateInv, SetBytesInv, LogWriteInv

\* A change of the free inodes and of directories does not touch the blocks.
LEMMA SameBlocksInv ==
  ASSUME NEW ds, NEW t \in Txn, NEW u, Blocks(ds, t), SameBlocks(t, u), u.d.free["inode"] \subseteq Inum
  PROVE  Blocks(ds, u)
<1>1. PICK A, F, G : A = t.ms.al /\ F = t.d.free /\ G = u.d.free OBVIOUS
<1>2. A \in AlType /\ Other(A) \in AlType BY <1>1, Parts, OtherIs
<1>3. G["data1"] = F["data1"] /\ G["data2"] = F["data2"] BY <1>1 DEF SameBlocks
<1>4. G[A] = F[A] /\ G[Other(A)] = F[Other(A)] BY <1>2, <1>3 DEF AlType
<1>5. Pooled(t.d.ino, G, A)
  <2>1. Pooled(t.d.ino, F, A) BY <1>1 DEF Blocks
  <2> QED BY <2>1, <1>4 DEF Pooled
<1>6. Safe(ds, A, t.d.ino, G)
  <2> SUFFICES ASSUME NEW n \in DOMAIN ds PROVE SafeOne(ds[n], A, t.d.ino, G) BY DEF Safe
  <2>1. SafeOne(ds[n], A, t.d.ino, F) BY <1>1 DEF Safe, Blocks
  <2> QED BY <2>1, <1>4 DEF SafeOne
<1>7. Kinds(G)
  <2>1. Kinds(F) BY <1>1 DEF Blocks
  <2> QED BY <2>1, <1>1, <1>3 DEF Kinds
<1> QED BY <1>1, <1>5, <1>6, <1>7 DEF Blocks, SameBlocks

-----------------------------------------------------------------------------
\* Directories.
\* get_dcache: a directory in the cache is the one on the disk.
Reads(ds, t, d, u) ==
  /\ TInv(ds, u) /\ u.d = t.d /\ u.err = t.err /\ u.w = t.w /\ SameBlocks(t, u) /\ u.ms.list = t.ms.list
  /\ d \in DOMAIN u.ms.dcache /\ u.ms.dcache[d] = t.d.dir[d]

-----------------------------------------------------------------------------

Entering(M, n, e, L) ==
  /\ L \in DirMap /\ DOMAIN L = DOMAIN M \cup {n}
  /\ L[n] = e /\ \A m \in DOMAIN M : m # n => L[m] = M[m]

\* Directory d gets the entries M, on the disk and in the cache.
SetDir(t, d, M) == [t EXCEPT !.d.dir[d] = M]

DirSet(ds, t, d, M, W, u) ==
  /\ TInv(ds, u) /\ u.d.dir = SetAt(t.d.dir, d, M) /\ u.d.free = t.d.free /\ SameBlocks(t, u)
  /\ u.ms.list = t.ms.list /\ u.err = t.err /\ u.w = W

\* unlink drops the entry from the disk and from the cache.
Unlinks(ds, t, d, n, u) ==
  TInv(ds, u) /\ u.d.dir = SetAt(t.d.dir, d, Drop(t.d.dir[d], n)) /\ u.d.free = t.d.free /\ u.err = t.err

\* The blocks that a link may write, besides those written before.
AddsFew(W, X) == \E y, z : X \subseteq W \cup {<<"ino", 0>>, y, z}

\* An invalid slot, or one more block.
Slots(ds, t, u) ==
  /\ TInv(ds, u) /\ SameTree(t, u) /\ u.ms.dcache = t.ms.dcache
  /\ (u.err = "OK" /\ AddsFew(t.w, u.w)) \/ (u.err # "OK" /\ SameBlocks(t, u))

\* link enters the name, or fails before it changes a directory.
LinkedTo(t, d, n, i, s, v) ==
  /\ v.err = "OK" /\ n \notin DOMAIN t.d.dir[d]
  /\ v.d.dir = SetAt(t.d.dir, d, Enter(t.d.dir[d], n, [inum |-> i, isdir |-> s])) /\ AddsFew(t.w, v.w)
Links(ds, t, d, n, i, s, v) ==
  /\ TInv(ds, v) /\ v.d.free["inode"] = t.d.free["inode"]
  /\ LinkedTo(t, d, n, i, s, v) \/ (v.err # "OK" /\ v.d.dir = t.d.dir /\ SameBlocks(t, v))

\* The other bitmaps when that of the inodes changes.
InodesOnly(F, S, G) == G["inode"] = S /\ G["data1"] = F["data1"] /\ G["data2"] = F["data2"]

\* mkfile and mkdir take an inode and link it; when they fail, only the cached
\* list of inodes may have lost one.
Made(t, d, n, s, v) ==
  /\ v.err = "OK" /\ n \notin DOMAIN t.d.dir[d]
  /\ \E i \in t.d.free["inode"] :
       /\ v.d.free["inode"] = t.d.free["inode"] \ {i}
       /\ v.d.dir = SetAt(t.d.dir, d, Enter(t.d.dir[d], n, [inum |-> i, isdir |-> s]))
  /\ AddsFew(t.w \cup {<<"inode", 0>>}, v.w)
Makes(ds, t, d, n, s, v) ==
  /\ TInv(ds, v)
  /\ \/ Made(t, d, n, s, v)
     \/ v.err # "OK" /\ v.d.dir = t.d.dir /\ SameBlocks(t, v) /\ v.d.free["inode"] \subseteq t.d.free["inode"]

\* delete, when it succeeds, frees the inode and keeps the rest of the tree.
Deletes(ds, t, d, x, s, v) ==
  /\ TInv(ds, v) /\ Tree(v.d.dir, v.d.free["inode"], x, s)
  /\ (Reach(t.d.dir, d) => Reach(v.d.dir, d)) /\ (DirAt(t.d.dir, d) => DirAt(v.d.dir, d))

-----------------------------------------------------------------------------
\* namei: the disk stays, and a directory that is found is a directory that can
\* be reached from the root.
WalkRec == [t : Txn, inum : Inum, isdir : BOOLEAN]
Walked(ds, t, r) ==
  /\ r \in WalkRec /\ TInv(ds, r.t) /\ r.t.d = t.d /\ SameBlocks(t, r.t)
  /\ Reach(t.d.dir, r.inum) /\ (r.isdir = TRUE => DirAt(t.d.dir, r.inum))
SetT(r, u) == [r EXCEPT !.t = u]

\* rename, when it succeeds, leaves a tree: the target directory is looked up
\* without the subtree that moves.
Renames(ds, v) == TInv(ds, v) /\ Tree(v.d.dir, v.d.free["inode"], 0, FALSE)

EnterLinks ==
  \A E \in DirType, d, i \in Inum, n \in Name, s \in BOOLEAN :
     n \notin DOMAIN E[d]
     => Linked(E, SetAt(E, d, Enter(E[d], n, [inum |-> i, isdir |-> s])), d, n, i, s)

MakeInv ==
  \A ds, t : \A d \in Inum, n \in Name, s \in BOOLEAN :
     Known /\ TInv(ds, t) /\ t.err = "OK"
     => Makes(ds, t, d, n, s, Make(t, d, n, s))

DeleteInv ==
  \A ds, t, x, s : \A d \in Inum, n \in Name :
     Known /\ TInv(ds, t) /\ Tree(t.d.dir, t.d.free["inode"], x, s) /\
     Delete(t, d, n).err = "OK"
     => Deletes(ds, t, d, x, s, Delete(t, d, n))

NameiInv ==
  \A ds, t : \A p \in Seq(Name) :
     Known /\ TInv(ds, t)
     => Walked(ds, t, Namei(t, p))

RenameInv ==
  \A ds, t : \A sp, dp \in Seq(Name), sn, dn \in Name :
     Known /\ TInv(ds, t) /\ Tree(t.d.dir, t.d.free["inode"], 0, FALSE) /\
     Rename(t, sp, sn, dp, dn).err = "OK"
     => Renames(ds, Rename(t, sp, sn, dp, dn))

\* The operations on directories (DirCache.v, DirTree.v) keep the invariant.
LEMMA DirSteps ==
  EnterLinks /\ MakeInv /\ DeleteInv /\ NameiInv /\ RenameInv
<1>GetDcacheIs. ASSUME NEW ds, NEW t, TInv(ds, t), NEW d \in Inum
      PROVE  Reads(ds, t, d, GetDcache(t, d))
  <2> USE <1>GetDcacheIs
  <2>1. t \in Txn /\ Cached(t.ms.dcache, t.d.dir) /\ t.ms.dcache \in CacheType /\ t.d.dir[d] \in DirMap
    BY Parts DEF TInv, DirType
  <2>2. CASE d \in DOMAIN t.ms.dcache
    <3>1. GetDcache(t, d) = t BY <2>2 DEF GetDcache
    <3>2. t.ms.dcache[d] = t.d.dir[d] BY <2>1, <2>2 DEF Cached
    <3> QED BY <3>1, <3>2, <2>2 DEF Reads, SameBlocks
  <2>3. CASE d \notin DOMAIN t.ms.dcache
    <3>1. PICK C : C = AddAll(t.ms.dcache, [x \in {d} |-> t.d.dir[d]]) OBVIOUS
    <3>2. PICK u : u = GetDcache(t, d) OBVIOUS
    <3>3. u = SetCache(t, C) BY <2>3, <3>1, <3>2 DEF GetDcache, SetCache
    <3>4. PICK S \in SUBSET Inum : t.ms.dcache \in [S -> DirMap] BY <2>1 DEF CacheType, Maps
    <3>5. C = [a \in S \cup {d} |-> IF a \in {d} THEN t.d.dir[d] ELSE t.ms.dcache[a]]
      <4>1. DOMAIN t.ms.dcache = S /\ DOMAIN [x \in {d} |-> t.d.dir[d]] = {d} BY <3>4
      <4>2. \A a \in {d} : [x \in {d} |-> t.d.dir[d]][a] = t.d.dir[d] OBVIOUS
      <4> QED BY <4>1, <4>2, <3>1, SMT DEF AddAll
    <3>6. C \in [S \cup {d} -> DirMap] BY <3>4, <3>5, <2>1
    <3>7. C \in CacheType
      <4>1. S \cup {d} \in SUBSET Inum OBVIOUS
      <4> QED BY <4>1, <3>6 DEF CacheType, Maps
    <3>8. C[d] = t.d.dir[d] /\ DOMAIN C = S \cup {d} BY <3>5
    <3>9. Cached(C, t.d.dir)
      <4>1. \A a \in S : t.ms.dcache[a] = t.d.dir[a] BY <2>1, <3>4 DEF Cached
      <4> QED BY <4>1, <3>5, <3>8 DEF Cached
    <3>10. /\ u \in Txn /\ u.d = t.d /\ u.w = t.w /\ u.err = t.err
           /\ u.ms.al = t.ms.al /\ u.ms.dblocks = t.ms.dblocks /\ u.ms.list = t.ms.list /\ u.ms.dcache = C
      BY <2>1, <3>3, <3>7, PutCache, SMT
    <3>11. TInv(ds, u) BY <3>9, <3>10 DEF TInv, Blocks
    <3> QED BY <3>2, <3>8, <3>10, <3>11 DEF Reads, SameBlocks
  <2> QED BY <2>2, <2>3
\* What lookup finds is what the disk has.
<1>LookupIs. ASSUME NEW ds, NEW t, TInv(ds, t), NEW d \in Inum, NEW n
      PROVE  (Has(t, d, n) <=> n \in DOMAIN t.d.dir[d]) /\ Find(t, d, n) = t.d.dir[d][n]
  <2> USE <1>LookupIs
  <2>1. Reads(ds, t, d, GetDcache(t, d)) BY <1>GetDcacheIs
  <2> QED BY <2>1 DEF Reads, Has, Find
\* The entries of a directory after one was dropped or entered.
<1>DropIs. ASSUME NEW M \in DirMap, NEW n
      PROVE  /\ Drop(M, n) \in DirMap /\ DOMAIN Drop(M, n) = DOMAIN M \ {n}
             /\ \A m \in DOMAIN M \ {n} : Drop(M, n)[m] = M[m]
  <2> USE <1>DropIs
  <2>1. PICK S \in SUBSET Name : M \in [S -> Entry] BY DEF DirMap, Maps
  <2>2. DOMAIN M = S BY <2>1
  <2>3. Drop(M, n) = [x \in S \ {n} |-> M[x]] BY <2>2 DEF Drop
  <2>4. Drop(M, n) \in [S \ {n} -> Entry] /\ S \ {n} \in SUBSET Name BY <2>1, <2>3
  <2>5. Drop(M, n) \in DirMap BY <2>4 DEF DirMap, Maps
  <2> QED BY <2>2, <2>3, <2>5
<1>EnterIs. ASSUME NEW M \in DirMap, NEW n \in Name, NEW e \in Entry
      PROVE  Entering(M, n, e, Enter(M, n, e))
  <2> USE <1>EnterIs
  <2>1. PICK S \in SUBSET Name : M \in [S -> Entry] BY DEF DirMap, Maps
  <2>2. DOMAIN M = S BY <2>1
  <2>3. Enter(M, n, e) = [a \in S \cup {n} |-> IF a \in {n} THEN e ELSE M[a]]
    <3>1. DOMAIN [x \in {n} |-> e] = {n} /\ \A a \in {n} : [x \in {n} |-> e][a] = e OBVIOUS
    <3> QED BY <3>1, <2>2, SMT DEF Enter, AddAll
  <2>4. Enter(M, n, e) \in [S \cup {n} -> Entry] /\ S \cup {n} \in SUBSET Name BY <2>1, <2>3
  <2>5. Enter(M, n, e) \in DirMap BY <2>4 DEF DirMap, Maps
  <2> QED BY <2>2, <2>3, <2>5 DEF Entering
<1>DropUnlinks. ASSUME NEW E \in DirType, NEW d \in Inum, NEW n \in Name
      PROVE  Unlinked(E, SetAt(E, d, Drop(E[d], n)), d, n)
  <2> USE <1>DropUnlinks
  <2>1. PICK G, M : M = Drop(E[d], n) /\ G = SetAt(E, d, M) OBVIOUS
  <2>2. E[d] \in DirMap BY DEF DirType
  <2>3. DOMAIN M = DOMAIN E[d] \ {n} /\ \A m \in DOMAIN E[d] \ {n} : M[m] = E[d][m] BY <2>1, <2>2,
                                             <1>DropIs
  <2>4. G[d] = M /\ \A c \in Inum : c # d => G[c] = E[c] BY <2>1 DEF SetAt, DirType
  <2>5. ASSUME NEW c \in Inum, NEW m \in Name, NEW j \in Inum
        PROVE  /\ Ent(G, c, m, j) <=> Ent(E, c, m, j) /\ ~(c = d /\ m = n)
               /\ Sub(G, c, m, j) <=> Sub(E, c, m, j) /\ ~(c = d /\ m = n)
    <3>1. CASE c # d BY <3>1, <2>4 DEF Ent, Sub
    <3>2. CASE c = d
      <4>1. CASE m = n BY <3>2, <4>1, <2>3, <2>4 DEF Ent, Sub
      <4>2. CASE m # n
        <5>1. m \in DOMAIN M <=> m \in DOMAIN E[d] BY <4>2, <2>3
        <5>2. m \in DOMAIN E[d] => M[m] = E[d][m] BY <4>2, <2>3
        <5> QED BY <3>2, <4>2, <5>1, <5>2, <2>4 DEF Ent, Sub
      <4> QED BY <4>1, <4>2
    <3> QED BY <3>1, <3>2
  <2> QED BY <2>1, <2>5 DEF Unlinked
<1>EnterLinks. ASSUME NEW E \in DirType, NEW d \in Inum, NEW n \in Name, n \notin DOMAIN E[d], NEW i \in Inum, NEW s \in BOOLEAN
      PROVE  Linked(E, SetAt(E, d, Enter(E[d], n, [inum |-> i, isdir |-> s])), d, n, i, s)
  <2> USE <1>EnterLinks
  <2>e. PICK e : e = [inum |-> i, isdir |-> s] OBVIOUS
  <2>0. e \in Entry /\ e = [inum |-> i, isdir |-> s] /\ e.inum = i /\ e.isdir = s BY <2>e, SMT DEF Entry
  <2>1. PICK G, M : M = Enter(E[d], n, e) /\ G = SetAt(E, d, M) OBVIOUS
  <2>2. E[d] \in DirMap BY DEF DirType
  <2>3. DOMAIN M = DOMAIN E[d] \cup {n} /\ M[n] = e /\ \A m \in DOMAIN E[d] : m # n => M[m] = E[d][m]
    <3>1. Entering(E[d], n, e, M) BY <2>0, <2>1, <2>2, <1>EnterIs
    <3> QED BY <3>1 DEF Entering
  <2>4. G[d] = M /\ \A c \in Inum : c # d => G[c] = E[c] BY <2>1 DEF SetAt, DirType
  <2>5. ASSUME NEW c \in Inum, NEW m \in Name, NEW j \in Inum
        PROVE  /\ Ent(G, c, m, j) <=> Ent(E, c, m, j) \/ (c = d /\ m = n /\ j = i)
               /\ Sub(G, c, m, j) <=> Sub(E, c, m, j) \/ (c = d /\ m = n /\ j = i /\ s = TRUE)
    <3>1. CASE c # d BY <3>1, <2>4 DEF Ent, Sub
    <3>2. CASE c = d /\ m = n
      <4>1. ~Ent(E, d, n, j) BY DEF Ent
      <4>2. n \in DOMAIN G[d] /\ G[d][n].inum = i /\ G[d][n].isdir = s BY <2>0, <2>3, <2>4
      <4> QED BY <3>2, <4>1, <4>2 DEF Ent, Sub
    <3>3. CASE c = d /\ m # n
      <4>1. m \in DOMAIN M <=> m \in DOMAIN E[d] BY <3>3, <2>3
      <4>2. m \in DOMAIN E[d] => M[m] = E[d][m] BY <3>3, <2>3
      <4> QED BY <3>3, <4>1, <4>2, <2>4 DEF Ent, Sub
    <3> QED BY <3>1, <3>2, <3>3
  <2> QED BY <2>0, <2>1, <2>5 DEF Linked
<1>PutDir. ASSUME NEW t \in Txn, NEW d \in Inum, NEW M \in DirMap, NEW u, u = SetDir(t, d, M)
      PROVE  /\ u \in Txn /\ u.ms = t.ms /\ u.w = t.w /\ u.err = t.err
             /\ u.d.ino = t.d.ino /\ u.d.free = t.d.free /\ u.d.data = t.d.data
             /\ u.d.dir = SetAt(t.d.dir, d, M)
  BY <1>PutDir DEF SetDir, Txn, Disk, DirType, SetAt
<1>SetDirInv. ASSUME NEW ds, NEW t, TInv(ds, t), NEW d \in Inum, d \in DOMAIN t.ms.dcache, NEW M \in DirMap, NEW W \in Written
      PROVE  DirSet(ds, t, d, M, W, SetW(SetCache(SetDir(t, d, M), SetAt(t.ms.dcache, d, M)), W))
  <2> USE <1>SetDirInv
  <2>0. PICK a, b, u, C : /\ a = SetDir(t, d, M) /\ C = SetAt(t.ms.dcache, d, M) /\ b = SetCache(a, C) /\ u = SetW(b, W)
    OBVIOUS
  <2>1. t \in Txn /\ t.ms.dcache \in CacheType /\ t.d.dir \in DirType BY Parts DEF TInv
  <2>2. PICK S \in SUBSET Inum : t.ms.dcache \in [S -> DirMap] BY <2>1 DEF CacheType, Maps
  <2>3. DOMAIN t.ms.dcache = S BY <2>2
  <2>4. C \in [S -> DirMap] /\ C[d] = M /\ \A c \in S : c # d => C[c] = t.ms.dcache[c] BY <2>0, <2>2, <2>3 DEF SetAt
  <2>5. C \in CacheType BY <2>4 DEF CacheType, Maps
  <2>6. /\ a \in Txn /\ a.ms = t.ms /\ a.err = t.err
        /\ a.d.ino = t.d.ino /\ a.d.free = t.d.free /\ a.d.data = t.d.data /\ a.d.dir = SetAt(t.d.dir, d, M)
    BY <2>0, <2>1, <1>PutDir, SMT
  <2>7. /\ b \in Txn /\ b.d = a.d /\ b.err = a.err
        /\ b.ms.al = a.ms.al /\ b.ms.dblocks = a.ms.dblocks /\ b.ms.list = a.ms.list /\ b.ms.dcache = C
    BY <2>0, <2>5, <2>6, PutCache, SMT
  <2>8. u \in Txn /\ u.d = b.d /\ u.ms = b.ms /\ u.w = W /\ u.err = b.err BY <2>0, <2>7, PutW, SMT
  <2>9. Cached(C, SetAt(t.d.dir, d, M))
    <3>1. \A c \in S : t.ms.dcache[c] = t.d.dir[c] BY <2>3 DEF TInv, Cached
    <3>2. PICK G : G = SetAt(t.d.dir, d, M) OBVIOUS
    <3>3. G[d] = M /\ \A c \in Inum : c # d => G[c] = t.d.dir[c] BY <2>1, <3>2 DEF SetAt, DirType
    <3>4. ASSUME NEW c \in S PROVE C[c] = G[c]
      <4>1. CASE c = d BY <4>1, <2>4, <3>3
      <4>2. CASE c # d BY <4>2, <2>4, <3>1, <3>3
      <4> QED BY <4>1, <4>2
    <3>5. DOMAIN C = S BY <2>4
    <3> QED BY <3>2, <3>4, <3>5 DEF Cached
  <2>10. /\ u.d.ino = t.d.ino /\ u.d.free = t.d.free /\ u.d.data = t.d.data /\ u.d.dir = SetAt(t.d.dir, d, M)
         /\ u.ms.al = t.ms.al /\ u.ms.dblocks = t.ms.dblocks /\ u.ms.list = t.ms.list /\ u.ms.dcache = C
         /\ u.err = t.err
    BY <2>6, <2>7, <2>8, SMT
  <2>11. TInv(ds, u) BY <2>8, <2>9, <2>10 DEF TInv, Blocks
  <2> QED BY <2>0, <2>8, <2>10, <2>11 DEF DirSet, SameBlocks
<1>UnlinkInv. ASSUME Known, NEW ds, NEW t, TInv(ds, t), NEW d \in Inum, NEW n \in Name, n \in DOMAIN t.d.dir[d]
      PROVE  Unlinks(ds, t, d, n, Unlink(t, d, n))
  <2> USE <1>UnlinkInv
  <2>1. PICK g : g = GetDcache(t, d) OBVIOUS
  <2>2. Reads(ds, t, d, g) BY <2>1, <1>GetDcacheIs
  <2>3. /\ TInv(ds, g) /\ g \in Txn /\ g.d = t.d /\ g.err = t.err /\ d \in DOMAIN g.ms.dcache
        /\ g.ms.dcache[d] = t.d.dir[d] /\ g.d.dir[d] = t.d.dir[d]
    BY <2>2 DEF Reads, TInv
  <2>4. PICK M, W : M = Drop(t.d.dir[d], n) /\ W = g.w \cup {<<"dir", d>>} OBVIOUS
  <2>5. t.d.dir[d] \in DirMap BY Parts DEF TInv, DirType
  <2>6. M \in DirMap /\ W \in Written BY <2>3, <2>4, <2>5, <1>DropIs, Parts, WrittenIs DEF Written
  <2>7. Unlink(t, d, n) = SetW(SetCache(SetDir(g, d, M), SetAt(g.ms.dcache, d, M)), W)
    <3>1. Has(t, d, n) BY <1>LookupIs
    <3>2. Unlink(t, d, n) = [g EXCEPT !.d.dir[d] = Drop(@, n), !.ms.dcache[d] = Drop(@, n),
                                      !.w = @ \cup {<<"dir", d>>}]
      BY <3>1, <2>1 DEF Unlink
    <3> QED BY <3>2, <2>3, <2>4, SMT DEF SetW, SetCache, SetDir, SetAt
  <2>8. DirSet(ds, g, d, M, W, Unlink(t, d, n)) BY <2>3, <2>6, <2>7, <1>SetDirInv
  <2> QED BY <2>3, <2>4, <2>8 DEF DirSet, Unlinks
<1>SlotInv. ASSUME Known, NEW ds, NEW t, TInv(ds, t), t.err = "OK", NEW d \in Inum
      PROVE  Slots(ds, t, Slot(t, d))
  <2> USE <1>SlotInv
  <2>1. CASE Cardinality(DOMAIN t.d.dir[d]) < DirItems * Len(t.d.ino[d].blocks)
    <3>1. PICK W : W = t.w \cup {<<"dir", d>>} OBVIOUS
    <3>2. PICK u : u = Slot(t, d) OBVIOUS
    <3>3. u = SetW(t, W) BY <2>1, <3>1, <3>2 DEF Slot, SetW
    <3>4. t \in Txn /\ W \in Written BY <3>1, Parts, WrittenIs DEF Written, TInv
    <3>5. u \in Txn /\ u.d = t.d /\ u.ms = t.ms /\ u.w = W /\ u.err = t.err BY <3>3, <3>4, PutW, SMT
    <3>6. TInv(ds, u) BY <3>5 DEF TInv, Blocks
    <3>7. AddsFew(t.w, u.w)
      <4>1. u.w \subseteq t.w \cup {<<"ino", 0>>, <<"dir", d>>, <<"dir", d>>} BY <3>1, <3>5
      <4> QED BY <4>1 DEF AddsFew
    <3> QED BY <3>2, <3>5, <3>6, <3>7 DEF Slots, SameTree
  <2>2. CASE ~(Cardinality(DOMAIN t.d.dir[d]) < DirItems * Len(t.d.ino[d].blocks))
    <3>1. PICK u : u = Grow(t, d, Zero) OBVIOUS
    <3>2. Slot(t, d) = u BY <2>2, <3>1 DEF Slot
    <3>3. GrowsTo(ds, t, u) BY <3>1, BlockSteps DEF GrowInv
    <3>4. ASSUME NEW x, u.w = t.w \cup {<<t.ms.al, 0>>, <<"ino", 0>>, <<"data", x>>} PROVE AddsFew(t.w, u.w)
      <4>1. u.w \subseteq t.w \cup {<<"ino", 0>>, <<t.ms.al, 0>>, <<"data", x>>} BY <3>4
      <4> QED BY <4>1 DEF AddsFew
    <3> QED BY <3>2, <3>3, <3>4 DEF GrowsTo, Slots
  <2> QED BY <2>1, <2>2
<1>LinkInv. ASSUME Known, NEW ds, NEW t, TInv(ds, t), t.err = "OK", NEW d \in Inum, NEW n \in Name, NEW i \in Inum, NEW s \in BOOLEAN
      PROVE  Links(ds, t, d, n, i, s, Link(t, d, n, i, s))
  <2> USE <1>LinkInv
  <2>1. PICK g, u, v, e : /\ g = GetDcache(t, d) /\ u = Slot(g, d) /\ v = Link(t, d, n, i, s)
                          /\ e = [inum |-> i, isdir |-> s]
    OBVIOUS
  <2>2. Reads(ds, t, d, g) BY <2>1, <1>GetDcacheIs
  <2>3. /\ TInv(ds, g) /\ g \in Txn /\ g.d = t.d /\ g.err = t.err /\ d \in DOMAIN g.ms.dcache
        /\ g.ms.dcache[d] = t.d.dir[d] /\ g.d.dir[d] = t.d.dir[d] /\ SameBlocks(t, g) /\ g.w = t.w
    BY <2>2 DEF Reads, TInv
  <2>4. v = IF Has(t, d, n) THEN Fail(g, "EEXIST")
            ELSE IF u.err # "OK" THEN u
            ELSE [u EXCEPT !.d.dir[d] = Enter(@, n, e), !.ms.dcache[d] = Enter(@, n, e)]
    BY <2>1 DEF Link
  <2>5. Slots(ds, g, u) BY <2>1, <2>3, <1>SlotInv
  <2>6. /\ TInv(ds, u) /\ u \in Txn /\ u.d.dir = t.d.dir /\ u.d.free["inode"] = t.d.free["inode"]
        /\ u.ms.dcache = g.ms.dcache
    BY <2>3, <2>5 DEF Slots, SameTree, TInv
  <2>7. CASE Has(t, d, n)
    <3>1. "EEXIST" \in Answers /\ "EEXIST" # "OK" BY SMT DEF Answers
    <3>2. v = Fail(g, "EEXIST") BY <2>4, <2>7
    <3>3. v.d = g.d /\ v.err = "EEXIST" BY <3>1, <3>2, <2>3, FailIs
    <3>4. TInv(ds, v) /\ SameBlocks(g, v) BY <3>1, <3>2, <2>3, FailInv
    <3>5. SameBlocks(t, v) BY <3>4, <2>3 DEF SameBlocks
    <3> QED BY <3>1, <3>3, <3>4, <3>5, <2>1, <2>3 DEF Links
  <2>8. CASE ~Has(t, d, n) /\ u.err # "OK"
    <3>1. v = u BY <2>4, <2>8
    <3>2. SameBlocks(g, u) BY <2>5, <2>8 DEF Slots
    <3>3. SameBlocks(t, u) BY <3>2, <2>3 DEF SameBlocks
    <3> QED BY <3>1, <3>3, <2>1, <2>6, <2>8 DEF Links
  <2>9. CASE ~Has(t, d, n) /\ u.err = "OK"
    <3>1. PICK M : M = Enter(t.d.dir[d], n, e) OBVIOUS
    <3>2. v = SetW(SetCache(SetDir(u, d, M), SetAt(u.ms.dcache, d, M)), u.w)
      <4>1. v = [u EXCEPT !.d.dir[d] = Enter(@, n, e), !.ms.dcache[d] = Enter(@, n, e)] BY <2>4, <2>9
      <4>2. u.d.dir[d] = t.d.dir[d] /\ u.ms.dcache[d] = t.d.dir[d] BY <2>3, <2>6
      <4>3. u.w = u.w OBVIOUS
      <4> QED BY <4>1, <4>2, <3>1, <2>6 DEF SetW, SetCache, SetDir, SetAt, Txn
    <3>3. M \in DirMap /\ u.w \in Written
      <4>1. e \in Entry BY <2>1, SMT DEF Entry
      <4>2. t.d.dir[d] \in DirMap BY Parts DEF TInv, DirType
      <4>3. Entering(t.d.dir[d], n, e, M) BY <3>1, <4>1, <4>2, <1>EnterIs
      <4> QED BY <4>3, <2>6, Parts DEF Entering
    <3>4. d \in DOMAIN u.ms.dcache BY <2>3, <2>6
    <3>5. DirSet(ds, u, d, M, u.w, v) BY <3>2, <3>3, <3>4, <2>6, <1>SetDirInv
    <3>6. TInv(ds, v) /\ v.d.dir = SetAt(t.d.dir, d, M) /\ v.d.free["inode"] = t.d.free["inode"] /\ v.err = "OK" /\ v.w = u.w
      BY <3>5, <2>6, <2>9 DEF DirSet
    <3>7. n \notin DOMAIN t.d.dir[d] BY <2>9, <1>LookupIs
    <3>8. AddsFew(t.w, v.w) BY <3>6, <2>3, <2>5, <2>9 DEF Slots
    <3> QED BY <3>1, <3>6, <3>7, <3>8, <2>1 DEF Links, LinkedTo
  <2> QED BY <2>7, <2>8, <2>9
<1>OtherMaps. ASSUME NEW F \in FreeType, NEW S
      PROVE  InodesOnly(F, S, SetAt(F, "inode", S))
  <2> USE <1>OtherMaps
  <2>0. PICK G : G = SetAt(F, "inode", S) OBVIOUS
  <2> SUFFICES InodesOnly(F, S, G) BY <2>0
  <2>1. "inode" \in Allocator /\ "data1" \in Allocator /\ "data2" \in Allocator
        /\ "data1" # "inode" /\ "data2" # "inode"
    BY SMT DEF Allocator
  <2> QED BY <2>0, <2>1 DEF SetAt, FreeType, InodesOnly
<1>MakeInv. ASSUME Known, NEW ds, NEW t, TInv(ds, t), t.err = "OK", NEW d \in Inum, NEW n \in Name, NEW s \in BOOLEAN
      PROVE  Makes(ds, t, d, n, s, Make(t, d, n, s))
  <2> USE <1>MakeInv
  <2>1. PICK l, i, u, v : /\ l = FreeList(t, "inode") /\ i = Head(l) /\ u = Alloc(t, "inode")
                          /\ v = Make(t, d, n, s)
    OBVIOUS
  <2>2. v = IF u.err # "OK" THEN u ELSE Link(u, d, n, i, s) BY <2>1 DEF Make
  <2>3. t \in Txn /\ Lists(t.d.free, t.ms.list) /\ Blocks(ds, t) /\ Kinds(t.d.free) /\ t.d.free \in FreeType
    BY Parts DEF TInv, Blocks
  <2>4. "inode" \in Allocator /\ "ENOSPC" # "OK" BY SMT DEF Allocator
  <2>5. CASE l = <<>>
    <3>1. Refuses(ds, t, u) BY <2>1, <2>4, <2>5, Allocators DEF AllocFails
    <3>2. v = u BY <3>1, <2>2, <2>4 DEF Refuses
    <3> QED BY <3>1, <3>2, <2>1, <2>4 DEF Refuses, Makes, SameBlocks
  <2>6. CASE l # <<>>
    <3>1. Takes(t, "inode", i, u) BY <2>1, <2>3, <2>4, <2>6, Allocators DEF AllocIs
    <3>2. PICK G : G = u.d.free OBVIOUS
    <3>3. G = SetAt(t.d.free, "inode", t.d.free["inode"] \ {i}) /\ i \in t.d.free["inode"]
      BY <3>1, <3>2 DEF Takes
    <3>4. G["inode"] = t.d.free["inode"] \ {i} /\ G["data1"] = t.d.free["data1"] /\ G["data2"] = t.d.free["data2"]
      <4>1. InodesOnly(t.d.free, t.d.free["inode"] \ {i}, G) BY <3>3, <2>3, <1>OtherMaps
      <4> QED BY <4>1 DEF InodesOnly
    <3>5. i \in Inum /\ u.d.free["inode"] \subseteq Inum BY <3>2, <3>3, <3>4, <2>3 DEF Kinds
    <3>6. SameBlocks(t, u) /\ u \in Txn /\ u.err = "OK" /\ u.d.dir = t.d.dir /\ u.w = t.w \cup {<<"inode", 0>>}
      BY <3>1, <3>2, <3>4 DEF SameBlocks, Takes
    <3>7. Blocks(ds, u) BY <3>5, <3>6, <2>3, SameBlocksInv
    <3>8. TInv(ds, u) BY <3>1, <3>7 DEF TInv, Takes
    <3>9. Links(ds, u, d, n, i, s, v) BY <3>5, <3>6, <3>8, <2>2, <1>LinkInv
    <3>10. CASE LinkedTo(u, d, n, i, s, v)
      <4>1. v.d.free["inode"] = t.d.free["inode"] \ {i} BY <3>2, <3>4, <3>9 DEF Links
      <4>2. AddsFew(t.w \cup {<<"inode", 0>>}, v.w) BY <3>6, <3>10 DEF LinkedTo
      <4>3. Made(t, d, n, s, v) BY <4>1, <4>2, <3>3, <3>6, <3>10 DEF LinkedTo, Made
      <4> QED BY <4>3, <3>9, <2>1 DEF Links, Makes
    <3>11. CASE v.err # "OK" /\ v.d.dir = u.d.dir /\ SameBlocks(u, v)
      <4>1. SameBlocks(t, v) BY <3>6, <3>11 DEF SameBlocks
      <4>2. v.d.free["inode"] \subseteq t.d.free["inode"] BY <3>2, <3>4, <3>9 DEF Links
      <4> QED BY <4>1, <4>2, <3>6, <3>9, <3>11, <2>1 DEF Links, Makes
    <3> QED BY <3>9, <3>10, <3>11 DEF Links
  <2> QED BY <2>5, <2>6
<1>DeleteInv. ASSUME Known, NEW ds, NEW t, TInv(ds, t), NEW d \in Inum, NEW n \in Name, NEW x, NEW s,
             Tree(t.d.dir, t.d.free["inode"], x, s), Delete(t, d, n).err = "OK"
      PROVE  Deletes(ds, t, d, x, s, Delete(t, d, n))
  <2> USE <1>DeleteInv
  <2>1. PICK e, i, u, v, r, f : /\ e = Find(t, d, n) /\ i = e.inum /\ u = GetDcache(t, d) /\ v = Unlink(t, d, n)
                                /\ r = Reset(v, i) /\ f = Delete(t, d, n)
    OBVIOUS
  <2>2. f = IF ~Has(t, d, n) THEN Fail(u, "ENOENT")
            ELSE IF e.isdir /\ DOMAIN t.d.dir[i] # {} THEN Fail(u, "ENOTEMPTY")
            ELSE FreeVec(r, "inode", <<i>>)
    BY <2>1 DEF Delete
  <2>3. "ENOENT" \in Answers /\ "ENOENT" # "OK" /\ "ENOTEMPTY" \in Answers /\ "ENOTEMPTY" # "OK" BY SMT DEF Answers
  <2>4. u \in Txn
    <3>1. Reads(ds, t, d, u) BY <2>1, <1>GetDcacheIs
    <3> QED BY <3>1 DEF Reads, TInv
  <2>5. Has(t, d, n) /\ (e.isdir => DOMAIN t.d.dir[i] = {}) /\ f = FreeVec(r, "inode", <<i>>)
    <3>1. Fail(u, "ENOENT").err = "ENOENT" /\ Fail(u, "ENOTEMPTY").err = "ENOTEMPTY" BY <2>3, <2>4, FailIs
    <3> QED BY <3>1, <2>1, <2>2, <2>3
  <2>6. PICK E, N : E = t.d.dir /\ N = t.d.free["inode"] OBVIOUS
  <2>7. /\ E \in DirType /\ n \in DOMAIN E[d] /\ e = E[d][n] /\ e \in Entry /\ i \in Inum /\ e.isdir \in BOOLEAN
    <3>1. E \in DirType BY <2>6, Parts DEF TInv
    <3>2. n \in DOMAIN E[d] /\ e = E[d][n]
      <4>1. (Has(t, d, n) <=> n \in DOMAIN t.d.dir[d]) /\ Find(t, d, n) = t.d.dir[d][n] BY <1>LookupIs,
                                             SMT
      <4> QED BY <4>1, <2>1, <2>5, <2>6
    <3>3. E[d] \in DirMap BY <3>1 DEF DirType
    <3>4. e \in Entry BY <3>2, <3>3 DEF DirMap, Maps
    <3>5. e.inum \in Inum /\ e.isdir \in BOOLEAN BY <3>4, SMT DEF Entry
    <3> QED BY <3>1, <3>2, <3>4, <3>5, <2>1
  <2>8. Ent(E, d, n, i) BY <2>1, <2>7 DEF Ent
  <2>9. Bare(E, i)
    <3>1. CASE e.isdir
      <4>1. DOMAIN E[i] = {} BY <3>1, <2>5, <2>6
      <4> QED BY <4>1 DEF Bare, Ent
    <3>2. CASE ~e.isdir
      <4>1. ~Sub(E, d, n, i) BY <3>2, <2>7 DEF Sub
      <4>2. Tree(E, N, x, s) BY <2>6
      <4> QED BY <4>1, <4>2, <2>7, <2>8, TreeSteps DEF FileBare
    <3> QED BY <3>1, <3>2
  <2>10. PICK G : G = SetAt(E, d, Drop(E[d], n)) OBVIOUS
  <2>11. Unlinked(E, G, d, n) BY <2>7, <2>10, <1>DropUnlinks
  <2>12. Tree(G, N \cup {i}, x, s) /\ (Reach(E, d) => Reach(G, d)) /\ (DirAt(E, d) => DirAt(G, d))
    <3>1. Tree(E, N, x, s) BY <2>6
    <3> QED BY <3>1, <2>7, <2>8, <2>9, <2>11, TreeSteps DEF DeleteTree
  <2>13. TInv(ds, v) /\ v.d.dir = G /\ v.d.free = t.d.free /\ v.err = t.err
    <3>1. Unlinks(ds, t, d, n, v) BY <2>1, <2>6, <2>7, <1>UnlinkInv
    <3> QED BY <3>1, <2>6, <2>10 DEF Unlinks
  <2>14. TInv(ds, r) /\ r.d.dir = G /\ r.d.free["inode"] = N
    <3>1. Resets(ds, v, r) BY <2>1, <2>7, <2>13, BlockSteps DEF ResetInv
    <3> QED BY <3>1, <2>6, <2>13 DEF Resets, SameTree
  <2>15. r \in Txn /\ Lists(r.d.free, r.ms.list) /\ Blocks(ds, r) /\ r.d.free \in FreeType /\ Kinds(r.d.free)
    BY <2>14, Parts DEF TInv, Blocks
  <2>16. i \notin N
    <3>1. Targets(E, N, x) BY <2>6 DEF Tree
    <3> QED BY <3>1, <2>7, <2>8 DEF Targets
  <2>17. Gives(r, "inode", <<i>>, f)
    <3>1. PICK g : g = <<i>> OBVIOUS
    <3>2. /\ g \in Seq(Item) /\ Len(g) = 1 /\ g[1] = i /\ \A j \in 1 .. Len(g) : j = 1
      <4>1. i \in Item BY <2>7 DEF Item
      <4> QED BY <4>1, <3>1, SMT
    <3>3. \A j \in 1 .. Len(g) : g[j] \notin r.d.free["inode"] BY <3>2, <2>14, <2>16
    <3>4. \A j, k \in 1 .. Len(g) : g[j] = g[k] => j = k BY <3>2
    <3>5. "inode" \in Allocator BY SMT DEF Allocator
    <3>6. Gives(r, "inode", g, FreeVec(r, "inode", g)) BY <3>2, <3>3, <3>4, <3>5, <2>15,
                                             Allocators DEF FreeVecIs
    <3> QED BY <3>1, <3>6, <2>5
  <2>18. PICK H : H = f.d.free OBVIOUS
  <2>19. H["inode"] = N \cup {i} /\ H["data1"] = r.d.free["data1"] /\ H["data2"] = r.d.free["data2"]
    <3>1. Range(<<i>>) = {i} BY SMT DEF Range
    <3>2. H = SetAt(r.d.free, "inode", r.d.free["inode"] \cup Range(<<i>>)) BY <2>17, <2>18 DEF Gives
    <3>3. /\ H["inode"] = r.d.free["inode"] \cup Range(<<i>>)
          /\ H["data1"] = r.d.free["data1"] /\ H["data2"] = r.d.free["data2"]
      <4>1. InodesOnly(r.d.free, r.d.free["inode"] \cup Range(<<i>>), H) BY <3>2, <2>15,
                                             <1>OtherMaps
      <4> QED BY <4>1 DEF InodesOnly
    <3> QED BY <3>1, <3>3, <2>14
  <2>20. TInv(ds, f)
    <3>1. SameBlocks(r, f) BY <2>17, <2>18, <2>19 DEF SameBlocks, Gives
    <3>2. f.d.free["inode"] \subseteq Inum BY <2>7, <2>14, <2>15, <2>18, <2>19 DEF Kinds
    <3>3. Blocks(ds, f) BY <3>1, <3>2, <2>15, SameBlocksInv
    <3> QED BY <3>3, <2>14, <2>17 DEF TInv, Gives
  <2>21. f.d.dir = G /\ f.d.free["inode"] = N \cup {i} BY <2>14, <2>17, <2>18, <2>19 DEF Gives
  <2> QED BY <2>1, <2>6, <2>12, <2>20, <2>21 DEF Deletes
\* The walk goes on with the caches of u.
<1>WalkedWith. ASSUME NEW ds, NEW t, NEW r, Walked(ds, t, r), NEW u, TInv(ds, u), u.d = r.t.d, SameBlocks(r.t, u)
      PROVE  Walked(ds, t, SetT(r, u))
  <2> USE <1>WalkedWith
  <2>1. PICK q : q = SetT(r, u) OBVIOUS
  <2>2. r \in WalkRec /\ u \in Txn BY DEF Walked, TInv
  <2>3. q \in WalkRec /\ q.t = u /\ q.inum = r.inum /\ q.isdir = r.isdir BY <2>1, <2>2, SMT DEF SetT, WalkRec
  <2>4. SameBlocks(t, u) BY DEF SameBlocks, Walked
  <2> QED BY <2>1, <2>3, <2>4 DEF Walked
<1>NameiStepInv. ASSUME NEW ds, NEW t, NEW r, Walked(ds, t, r), NEW n \in Name
      PROVE  Walked(ds, t, NameiStep(r, n))
  <2> USE <1>NameiStepInv
  <2>1. PICK v, d, u, e : v = r.t /\ d = r.inum /\ u = GetDcache(v, d) /\ e = Find(v, d, n) OBVIOUS
  <2>2. d \in Inum /\ TInv(ds, v) /\ v \in Txn /\ v.d = t.d /\ r.isdir \in BOOLEAN
    <3>1. r \in WalkRec /\ TInv(ds, r.t) /\ r.t.d = t.d BY DEF Walked
    <3>2. r.inum \in Inum /\ r.isdir \in BOOLEAN /\ r.t \in Txn BY <3>1, SMT DEF WalkRec
    <3> QED BY <3>1, <3>2, <2>1
  <2>3. NameiStep(r, n) = IF v.err # "OK" THEN r
                          ELSE IF ~r.isdir THEN SetT(r, Fail(v, "ENOTDIR"))
                          ELSE IF ~Has(v, d, n) THEN SetT(r, Fail(u, "ENOENT"))
                          ELSE [t |-> u, inum |-> e.inum, isdir |-> e.isdir]
    <3>1. NameiStep(r, n) = IF r.t.err # "OK" THEN r
                            ELSE IF ~r.isdir THEN [r EXCEPT !.t = Fail(@, "ENOTDIR")]
                            ELSE IF ~Has(r.t, r.inum, n) THEN [r EXCEPT !.t = Fail(GetDcache(@, r.inum), "ENOENT")]
                            ELSE [t |-> GetDcache(r.t, r.inum), inum |-> Find(r.t, r.inum, n).inum,
                                  isdir |-> Find(r.t, r.inum, n).isdir]
      BY DEF NameiStep
    <3>2. [r EXCEPT !.t = Fail(@, "ENOTDIR")] = SetT(r, Fail(v, "ENOTDIR")) BY <2>1 DEF SetT
    <3>3. [r EXCEPT !.t = Fail(GetDcache(@, r.inum), "ENOENT")] = SetT(r, Fail(u, "ENOENT")) BY <2>1 DEF SetT
    <3> QED BY <3>1, <3>2, <3>3, <2>1
  <2>4. Reads(ds, v, d, u) BY <2>1, <2>2, <1>GetDcacheIs
  <2>5. TInv(ds, u) /\ u.d = v.d /\ SameBlocks(v, u) BY <2>4 DEF Reads
  <2>6. "ENOTDIR" \in Answers /\ "ENOENT" \in Answers BY SMT DEF Answers
  <2>7. Walked(ds, t, SetT(r, Fail(v, "ENOTDIR")))
    <3>1. TInv(ds, Fail(v, "ENOTDIR")) /\ SameBlocks(v, Fail(v, "ENOTDIR")) BY <2>2, <2>6, FailInv, SMT
    <3>2. Fail(v, "ENOTDIR").d = v.d BY <2>2, <2>6, FailIs, SMT
    <3> QED BY <3>1, <3>2, <2>1, <1>WalkedWith
  <2>8. Walked(ds, t, SetT(r, Fail(u, "ENOENT")))
    <3>0. u \in Txn BY <2>5 DEF TInv
    <3>1. TInv(ds, Fail(u, "ENOENT")) /\ SameBlocks(u, Fail(u, "ENOENT")) BY <2>5, <2>6, FailInv, SMT
    <3>2. Fail(u, "ENOENT").d = u.d BY <3>0, <2>6, FailIs, SMT
    <3>3. SameBlocks(v, Fail(u, "ENOENT")) BY <3>1, <2>5 DEF SameBlocks
    <3> QED BY <3>1, <3>2, <3>3, <2>1, <2>5, <1>WalkedWith
  <2>9. ASSUME Has(v, d, n), r.isdir PROVE Walked(ds, t, [t |-> u, inum |-> e.inum, isdir |-> e.isdir])
    <3>1. PICK E : E = t.d.dir OBVIOUS
    <3>2. n \in DOMAIN E[d] /\ e = E[d][n] /\ E \in DirType
      <4>1. (Has(v, d, n) <=> n \in DOMAIN v.d.dir[d]) /\ Find(v, d, n) = v.d.dir[d][n] BY <2>2,
                                             <1>LookupIs, SMT
      <4>2. v.d.dir \in DirType BY <2>2, Parts
      <4> QED BY <4>1, <4>2, <3>1, <2>1, <2>2, <2>9
    <3>3. e \in Entry
      <4>1. E[d] \in DirMap BY <3>2, <2>2 DEF DirType
      <4> QED BY <4>1, <3>2 DEF DirMap, Maps
    <3>4. e.inum \in Inum /\ e.isdir \in BOOLEAN BY <3>3, SMT DEF Entry
    <3>5. PICK q : q = [t |-> u, inum |-> e.inum, isdir |-> e.isdir] OBVIOUS
    <3>6. u \in Txn BY <2>5 DEF TInv
    <3>7. q \in WalkRec /\ q.t = u /\ q.inum = e.inum /\ q.isdir = e.isdir BY <3>4, <3>5, <3>6, SMT DEF WalkRec
    <3>8. Ent(E, d, n, e.inum) BY <3>2 DEF Ent
    <3>9. Reach(E, d) BY <3>1, <2>1 DEF Walked
    <3>10. Reach(E, e.inum) BY <3>4, <3>8, <3>9, <2>2, TreeSteps DEF ReachStep
    <3>11. e.isdir = TRUE => DirAt(E, e.inum) BY <3>2, <3>8, <2>2 DEF DirAt, Sub
    <3>12. SameBlocks(t, u) BY <2>1, <2>5 DEF SameBlocks, Walked
    <3> QED BY <3>1, <3>5, <3>7, <3>10, <3>11, <3>12, <2>2, <2>5 DEF Walked
  <2> QED BY <2>3, <2>7, <2>8, <2>9
<1>NameiInv. ASSUME Known, NEW ds, NEW t, TInv(ds, t), NEW p \in Seq(Name)
      PROVE  Walked(ds, t, Namei(t, p))
  <2> USE <1>NameiInv
  <2>1. PICK m \in Nat : m = Len(p) BY SMT
  <2>2. PICK x : x = [t |-> t, inum |-> Root, isdir |-> TRUE] OBVIOUS
  <2> DEFINE IsRun(g) == g = [k \in 0 .. m |-> IF k = 0 THEN x ELSE NameiStep(g[k - 1], p[k])]
             h == CHOOSE g : IsRun(g)
  <2>3. Namei(t, p) = h[m] BY <2>1, <2>2 DEF Namei
  <2>4. PICK X : X = {r \in WalkRec : Walked(ds, t, r)} OBVIOUS
  <2>5. x \in X
    <3>1. t \in Txn BY DEF TInv
    <3>2. x \in WalkRec /\ x.t = t /\ x.inum = Root BY <3>1, <2>2, Constants, SMT DEF WalkRec
    <3>3. Reach(t.d.dir, Root) /\ DirAt(t.d.dir, Root) BY DEF Reach, DirAt
    <3> QED BY <3>2, <3>3, <2>4 DEF Walked, SameBlocks
  <2>6. \A k \in 1 .. m : k \in Nat /\ p[k] \in Name BY <2>1, SMT
  <2>7. ASSUME NEW r \in X, NEW k \in 1 .. m PROVE NameiStep(r, p[k]) \in X
    <3>1. Walked(ds, t, r) BY <2>4
    <3>2. Walked(ds, t, NameiStep(r, p[k])) BY <3>1, <2>6, <1>NameiStepInv
    <3> QED BY <3>2, <2>4 DEF Walked
  <2>8. \E g : IsRun(g)
    <3>1. PICK F : F = [q \in X \X Nat |-> IF q[2] \in 1 .. m THEN NameiStep(q[1], p[q[2]]) ELSE q[1]] OBVIOUS
    <3>2. F \in [X \X Nat -> X] /\ \A r \in X, k \in Nat : F[<<r, k>>] = IF k \in 1 .. m THEN NameiStep(r, p[k]) ELSE r
      BY <3>1, <2>7, SMT
    <3>3. CanRun(X, F, x, m) BY <3>2, <2>5, Iterates
    <3>4. PICK g \in [0 .. m -> X] : g[0] = x /\ \A k \in 1 .. m : g[k] = F[<<g[k - 1], k>>]
      BY <3>3 DEF CanRun
    <3>5. ASSUME NEW k \in 0 .. m PROVE g[k] = IF k = 0 THEN x ELSE NameiStep(g[k - 1], p[k])
      <4>1. k # 0 => k \in 1 .. m /\ k - 1 \in 0 .. m /\ k \in Nat BY SMT
      <4>2. k # 0 => g[k - 1] \in X BY <4>1
      <4> QED BY <4>1, <4>2, <3>2, <3>4
    <3>6. g = [k \in 0 .. m |-> g[k]] OBVIOUS
    <3> QED BY <3>5, <3>6
  <2>9. IsRun(h)
    <3> HIDE DEF IsRun
    <3> QED BY <2>8
  <2>10. h[0] = x /\ \A k \in 1 .. m : h[k] = NameiStep(h[k - 1], p[k])
    <3> HIDE DEF h
    <3>1. 0 \in 0 .. m /\ \A k \in 1 .. m : k \in 0 .. m /\ k # 0 BY SMT
    <3> QED BY <3>1, <2>9
  <2> HIDE DEF h, IsRun
  <2>11. \A k \in 1 .. m : h[k - 1] \in X => h[k] \in X BY <2>7, <2>10
  <2>12. \A k \in 0 .. m : h[k] \in X BY <2>5, <2>10, <2>11, Stays
  <2>13. m \in 0 .. m BY SMT
  <2> QED BY <2>3, <2>4, <2>12, <2>13
<1>RenameInv. ASSUME Known, NEW ds, NEW t, TInv(ds, t), Tree(t.d.dir, t.d.free["inode"], 0, FALSE),
             NEW sp \in Seq(Name), NEW dp \in Seq(Name), NEW sn \in Name, NEW dn \in Name,
             Rename(t, sp, sn, dp, dn).err = "OK"
      PROVE  Renames(ds, Rename(t, sp, sn, dp, dn))
  <2> USE <1>RenameInv
  <2>1. PICK s, e, u, d, v, f :
          /\ s = Namei(t, sp) /\ e = Find(s.t, s.inum, sn) /\ u = Unlink(s.t, s.inum, sn) /\ d = Namei(u, dp)
          /\ v = IF Has(d.t, d.inum, dn) THEN Delete(d.t, d.inum, dn) ELSE d.t
          /\ f = Rename(t, sp, sn, dp, dn)
    OBVIOUS
  <2>2. f = IF s.t.err # "OK" THEN s.t
            ELSE IF ~s.isdir THEN Fail(s.t, "ENOTDIR")
            ELSE IF ~Has(s.t, s.inum, sn) THEN Fail(s.t, "ENOENT")
            ELSE IF d.t.err # "OK" THEN d.t
            ELSE IF ~d.isdir THEN Fail(d.t, "ENOTDIR")
            ELSE IF v.err # "OK" THEN v
            ELSE Link(v, d.inum, dn, e.inum, e.isdir)
    BY <2>1 DEF Rename
  <2>3. "ENOTDIR" \in Answers /\ "ENOENT" \in Answers /\ "ENOTDIR" # "OK" /\ "ENOENT" # "OK" BY SMT DEF Answers
  <2>4. Walked(ds, t, s) BY <2>1, <1>NameiInv
  <2>5. PICK c, E, N : c = s.inum /\ E = t.d.dir /\ N = t.d.free["inode"] OBVIOUS
  <2>6. c \in Inum /\ s.isdir \in BOOLEAN /\ TInv(ds, s.t) /\ s.t \in Txn /\ s.t.d = t.d /\ E \in DirType
    <3>1. s \in WalkRec /\ TInv(ds, s.t) /\ s.t.d = t.d BY <2>4 DEF Walked
    <3>2. s.inum \in Inum /\ s.isdir \in BOOLEAN /\ s.t \in Txn BY <3>1, SMT DEF WalkRec
    <3>3. t.d.dir \in DirType BY Parts DEF TInv
    <3> QED BY <3>1, <3>2, <3>3, <2>5
  <2>7. s.t.err = "OK" /\ s.isdir /\ Has(s.t, c, sn)
    <3>1. Fail(s.t, "ENOTDIR").err = "ENOTDIR" /\ Fail(s.t, "ENOENT").err = "ENOENT" BY <2>3, <2>6, FailIs
    <3> QED BY <3>1, <2>1, <2>2, <2>3, <2>5
  <2>8. PICK i, b : i = e.inum /\ b = e.isdir OBVIOUS
  <2>9. sn \in DOMAIN E[c] /\ e = E[c][sn] /\ i \in Inum /\ b \in BOOLEAN
    <3>1. (Has(s.t, c, sn) <=> sn \in DOMAIN s.t.d.dir[c]) /\ Find(s.t, c, sn) = s.t.d.dir[c][sn] BY <2>6,
                                             <1>LookupIs, SMT
    <3>2. sn \in DOMAIN E[c] /\ e = E[c][sn] BY <3>1, <2>1, <2>5, <2>6, <2>7
    <3>3. E[c] \in DirMap BY <2>6 DEF DirType
    <3>4. e \in Entry BY <3>2, <3>3 DEF DirMap, Maps
    <3>5. e.inum \in Inum /\ e.isdir \in BOOLEAN BY <3>4, SMT DEF Entry
    <3> QED BY <3>2, <3>5, <2>8
  <2>10. Ent(E, c, sn, i) /\ (Sub(E, c, sn, i) <=> b = TRUE) BY <2>8, <2>9 DEF Ent, Sub
  <2>11. PICK G : G = SetAt(E, c, Drop(E[c], sn)) OBVIOUS
  <2>12. TInv(ds, u) /\ u.d.dir = G /\ u.d.free["inode"] = N
    <3>1. sn \in DOMAIN s.t.d.dir[c] BY <2>5, <2>6, <2>9
    <3>2. Unlinks(ds, s.t, c, sn, u) BY <3>1, <2>1, <2>5, <2>6, <1>UnlinkInv
    <3> QED BY <3>2, <2>5, <2>6, <2>11 DEF Unlinks
  <2>13. Tree(G, N, i, b)
    <3>1. Unlinked(E, G, c, sn) BY <2>6, <2>11, <1>DropUnlinks
    <3>2. Tree(E, N, 0, FALSE) BY <2>5
    <3> QED BY <3>1, <3>2, <2>6, <2>9, <2>10, TreeSteps DEF UnlinkTree
  <2>14. Walked(ds, u, d) BY <2>1, <2>12, <1>NameiInv
  <2>15. PICK a : a = d.inum OBVIOUS
  <2>16. a \in Inum /\ d.isdir \in BOOLEAN /\ TInv(ds, d.t) /\ d.t \in Txn /\ d.t.d = u.d /\ Reach(G, a)
         /\ (d.isdir = TRUE => DirAt(G, a))
    <3>1. d \in WalkRec /\ TInv(ds, d.t) /\ d.t.d = u.d /\ Reach(G, d.inum) /\ (d.isdir = TRUE => DirAt(G, d.inum))
      BY <2>12, <2>14 DEF Walked
    <3>2. d.inum \in Inum /\ d.isdir \in BOOLEAN /\ d.t \in Txn BY <3>1, SMT DEF WalkRec
    <3> QED BY <3>1, <3>2, <2>15
  <2>17. d.isdir /\ v.err = "OK" /\ f = Link(v, a, dn, i, b)
    <3>1. Fail(d.t, "ENOTDIR").err = "ENOTDIR" BY <2>3, <2>16, FailIs
    <3> QED BY <3>1, <2>1, <2>2, <2>3, <2>5, <2>7, <2>8, <2>15
  <2>18. DirAt(G, a) BY <2>16, <2>17
  <2>19. TInv(ds, v) /\ Tree(v.d.dir, v.d.free["inode"], i, b) /\ Reach(v.d.dir, a) /\ DirAt(v.d.dir, a)
    <3>0. Tree(d.t.d.dir, d.t.d.free["inode"], i, b) /\ Reach(d.t.d.dir, a) /\ DirAt(d.t.d.dir, a)
      BY <2>12, <2>13, <2>16, <2>18
    <3>1. CASE Has(d.t, a, dn)
      <4>1. v = Delete(d.t, a, dn) BY <3>1, <2>1, <2>15
      <4>2. Deletes(ds, d.t, a, i, b, v) BY <4>1, <3>0, <2>16, <2>17, <1>DeleteInv
      <4> QED BY <4>2, <3>0 DEF Deletes
    <3>2. CASE ~Has(d.t, a, dn)
      <4>1. v = d.t BY <3>2, <2>1, <2>15
      <4> QED BY <4>1, <3>0, <2>16
    <3> QED BY <3>1, <3>2
  <2>20. Links(ds, v, a, dn, i, b, f) BY <2>9, <2>16, <2>17, <2>19, <1>LinkInv
  <2>21. LinkedTo(v, a, dn, i, b, f) BY <2>1, <2>20 DEF Links
  <2>22. PICK H, K, M : H = v.d.dir /\ K = f.d.dir /\ M = v.d.free["inode"] OBVIOUS
  <2>23. H \in DirType /\ M \in SUBSET Inum
    <3>1. v \in Txn /\ Kinds(v.d.free) BY <2>19 DEF TInv, Blocks
    <3> QED BY <3>1, <2>22, Parts DEF Kinds
  <2>24. K = SetAt(H, a, Enter(H[a], dn, [inum |-> i, isdir |-> b])) /\ dn \notin DOMAIN H[a]
    BY <2>21, <2>22 DEF LinkedTo
  <2>25. Linked(H, K, a, dn, i, b) BY <2>9, <2>16, <2>23, <2>24, <1>EnterLinks
  <2>26. Tree(K, M, 0, FALSE)
    <3>1. Tree(H, M, i, b) /\ Reach(H, a) /\ DirAt(H, a) BY <2>19, <2>22
    <3> QED BY <3>1, <2>9, <2>16, <2>23, <2>25, TreeSteps DEF LinkTree
  <2> QED BY <2>1, <2>20, <2>22, <2>26 DEF Links, Renames
<1>1. EnterLinks BY <1>EnterLinks DEF EnterLinks
<1>2. MakeInv BY <1>MakeInv DEF MakeInv
<1>3. DeleteInv BY <1>DeleteInv, ZenonT(40) DEF DeleteInv
<1>4. NameiInv BY <1>NameiInv DEF NameiInv
<1>5. RenameInv BY <1>RenameInv, ZenonT(40) DEF RenameInv
<1> QED BY <1>1, <1>2, <1>3, <1>4, <1>5

-----------------------------------------------------------------------------
\* The disks of the set.  Every one of them is Good, and the newest one with the
\* caches is as a transaction finds it.
Good(e) ==
  /\ e \in Disk /\ Once(e.ino) /\ Pooled(e.ino, e.free, "data1") /\ Kinds(e.free) /\ Short(e.ino)
  /\ Shows(e.ino, e.data) /\ Tree(e.dir, e.free["inode"], 0, FALSE)
Opened(e, M) == [d |-> e, ms |-> M, w |-> {}, err |-> "OK"]
AllGood(D) == \A n \in 1 .. Len(D) : Good(D[n])
SysOK(D, P, M) ==
  /\ D \in Seq(Disk) /\ P \in Seq(Written) /\ Len(D) = Len(P) + 1
  /\ AllGood(D) /\ TInv(D, Opened(D[Len(D)], M))

Rec(D, P, M, e) == [ds |-> D, pend |-> P, ms |-> M, err |-> e]
SInv(s) == s = Rec(s.ds, s.pend, s.ms, s.err) /\ SysOK(s.ds, s.pend, s.ms)

\* A transaction starts from the newest disk, with the invariant.
LEMMA BeginIs ==
  ASSUME NEW s, SInv(s)
  PROVE  /\ Begin(s) = Opened(s.ds[Len(s.ds)], s.ms) /\ TInv(s.ds, Begin(s)) /\ Begin(s).err = "OK"
         /\ Begin(s).w = {} /\ Begin(s).d = s.ds[Len(s.ds)] /\ Begin(s).ms = s.ms
         /\ Good(Begin(s).d) /\ s.ds \in Seq(Disk) /\ Len(s.ds) \in 1 .. Len(s.ds)
<1>1. Begin(s) = Opened(s.ds[Len(s.ds)], s.ms) BY DEF Begin, latest, Opened
<1>2. /\ Begin(s).err = "OK" /\ Begin(s).w = {} /\ Begin(s).d = s.ds[Len(s.ds)] /\ Begin(s).ms = s.ms
  BY DEF Begin, latest
<1>3. SysOK(s.ds, s.pend, s.ms) BY DEF SInv
<1>4. s.ds \in Seq(Disk) /\ s.pend \in Seq(Written) /\ Len(s.ds) = Len(s.pend) + 1 BY <1>3 DEF SysOK
<1>5. Len(s.ds) \in 1 .. Len(s.ds) BY <1>4, SMT
<1>6. Good(s.ds[Len(s.ds)]) BY <1>3, <1>5 DEF SysOK, AllGood
<1> QED BY <1>1, <1>2, <1>3, <1>4, <1>5, <1>6 DEF SysOK

\* What a disk says of its own blocks.
LEMMA SafeSelf ==
  ASSUME NEW e, NEW A \in AlType, Pooled(e.ino, e.free, A)
  PROVE  SafeOne(e, A, e.ino, e.free)
BY DEF SafeOne, Pooled

\* One disk, without transactions that wait.
LEMMA OneDisk ==
  ASSUME NEW e, Good(e), NEW M \in Mem, Clean(e.ino, M.dblocks, e.data), Lists(e.free, M.list), Cached(M.dcache, e.dir)
  PROVE  SysOK(<<e>>, <<>>, M)
<1>1. PICK t, D, P : t = Opened(e, M) /\ D = <<e>> /\ P = <<>> OBVIOUS
<1>2. e \in Disk /\ {} \in Written /\ "OK" \in Answers BY SMT DEF Good, Written, Answers
<1>3. D \in Seq(Disk) /\ P \in Seq(Written) /\ Len(D) = 1 /\ Len(P) = 0 /\ D[1] = e /\ DOMAIN D = 1 .. 1 BY <1>1, <1>2, SMT
<1>4. t \in Txn /\ t.d = e /\ t.ms = M BY <1>1, <1>2, SMT DEF Opened, Txn
<1>5. \A n \in 1 .. 1 : n = 1 BY SMT
<1>6. AllGood(D) BY <1>3, <1>5 DEF AllGood
<1>7. M.al \in AlType BY SMT DEF Mem
<1>8. Pooled(e.ino, e.free, M.al)
  <2>1. Pooled(e.ino, e.free, "data1") BY DEF Good
  <2>2. "data1" \in AlType BY SMT DEF AlType
  <2>3. Pooled(e.ino, e.free, Other("data1")) BY <2>1, <2>2, PooledOther
  <2>4. M.al = "data1" \/ M.al = Other("data1") BY <1>7 DEF AlType, Other
  <2> QED BY <2>1, <2>3, <2>4
<1>9. Safe(D, M.al, e.ino, e.free)
  <2>1. SafeOne(e, M.al, e.ino, e.free) BY <1>7, <1>8, SafeSelf
  <2> QED BY <2>1, <1>3, <1>5 DEF Safe
<1>10. Blocks(D, t) BY <1>4, <1>8, <1>9 DEF Blocks, Good
<1>11. TInv(D, t) BY <1>4, <1>10 DEF TInv
<1>12. Len(D) = Len(P) + 1 /\ D[Len(D)] = e BY <1>3, SMT
<1> QED BY <1>1, <1>3, <1>6, <1>11, <1>12 DEF SysOK

\* The state that a call leaves, and its answer, which the caller does not keep.
LEMMA RecIs ==
  ASSUME NEW D, NEW P, NEW M, NEW e, SysOK(D, P, M)
  PROVE  SInv(Rec(D, P, M, e))
<1>1. PICK s : s = Rec(D, P, M, e) OBVIOUS
<1>2. s.ds = D /\ s.pend = P /\ s.ms = M /\ s.err = e BY <1>1, SMT DEF Rec
<1> QED BY <1>1, <1>2 DEF SInv

\* flushall keeps the newest disk; a disk of the set with the caches of the newest.
LEMMA NewestIs ==
  ASSUME NEW s, SInv(s)
  PROVE  /\ Good(latest(s)) /\ s.ms \in Mem /\ Clean(latest(s).ino, s.ms.dblocks, latest(s).data)
         /\ Lists(latest(s).free, s.ms.list) /\ Cached(s.ms.dcache, latest(s).dir)
         /\ Safe(s.ds, s.ms.al, latest(s).ino, latest(s).free)
<1>1. PICK t : t = Begin(s) OBVIOUS
<1>2. TInv(s.ds, t) /\ t.d = latest(s) /\ t.ms = s.ms /\ Good(t.d) BY <1>1, BeginIs DEF latest
<1>3. t \in Txn /\ Blocks(s.ds, t) /\ Lists(t.d.free, t.ms.list) /\ Cached(t.ms.dcache, t.d.dir)
  BY <1>2 DEF TInv
<1>4. t.ms \in Mem BY <1>3, SMT DEF Txn
<1> QED BY <1>2, <1>3, <1>4 DEF Blocks

WithCaches(s, M, e) == [s EXCEPT !.ms = M, !.err = e]

\* A transaction that may be committed.
Commits(ds, t) == TInv(ds, t) /\ Tree(t.d.dir, t.d.free["inode"], 0, FALSE)

\* What create, mkdir and mksock come to.
MakesCall(s, v) ==
  /\ v \in Txn
  /\ v.err = "OK" => Commits(s.ds, v) /\ \E y, z : v.w \subseteq {<<"inode", 0>>, <<"ino", 0>>, y, z}
  /\ v.err # "OK" => SysOK(s.ds, s.pend, v.ms)

AnswerInv ==
  \A s, e :
     SInv(s)
     => SInv([s EXCEPT !.err = e])

\* file_truncate, file_set_attr, file_set_sz and update_fblock.
FileTruncateInv ==
  \A s : \A i \in Inum, n \in Nat :
     Known /\ SInv(s)
     => SInv(FileTruncate(s, i, n))

SetSzInv ==
  \A s : \A i \in Inum, sz \in Nat :
     Known /\ SInv(s)
     => SInv(FileSetSz(s, i, sz)) /\ SInv(FileSetAttr(s, i, sz))

UpdateFblockInv ==
  \A s : \A i \in Inum, off \in Nat :
     Known /\ SInv(s) /\ off < Len(latest(s).ino[i].blocks)
     => SInv(UpdateFblock(s, i, off, i))

CreateInv ==
  \A s : \A d \in Inum, n \in Name :
     Known /\ SInv(s) /\ DirAt(latest(s).dir, d)
     => SInv(Create(s, d, n))

MkdirInv ==
  \A s : \A d \in Inum, n \in Name :
     Known /\ SInv(s) /\ DirAt(latest(s).dir, d)
     => SInv(Mkdir(s, d, n))

MksockInv ==
  \A s : \A d \in Inum, n \in Name :
     Known /\ SInv(s) /\ DirAt(latest(s).dir, d)
     => SInv(Mksock(s, d, n))

\* delete, rename and lookup.
DeleteCallInv ==
  \A s : \A d \in Inum, n \in Name :
     Known /\ SInv(s)
     => SInv(DeleteCall(s, d, n))

RenameCallInv ==
  \A s : \A sp, dp \in Seq(Name), sn, dn \in Name :
     Known /\ SInv(s)
     => SInv(RenameCall(s, sp, sn, dp, dn))

LookupInv ==
  \A s : \A p \in Seq(Name) :
     Known /\ SInv(s)
     => SInv(Lookup(s, p))

\* The calls of AsyncFS.v that run a transaction keep the invariant, whether it commits
\* or fails.
LEMMA Calls ==
  AnswerInv /\ FileTruncateInv /\ SetSzInv /\ UpdateFblockInv /\ CreateInv /\ MkdirInv /\
  MksockInv /\ DeleteCallInv /\ RenameCallInv /\ LookupInv
\* The invariant of a transaction speaks of its disk and its caches only.
<1>OpenedIs. ASSUME NEW ds, NEW t, TInv(ds, t)
      PROVE  TInv(ds, Opened(t.d, t.ms)) /\ Opened(t.d, t.ms) \in Txn
  <2> USE <1>OpenedIs
  <2>1. PICK u : u = Opened(t.d, t.ms) OBVIOUS
  <2>2. t.d \in Disk /\ t.ms \in Mem /\ {} \in Written /\ "OK" \in Answers
    <3>1. t \in Txn BY DEF TInv
    <3>2. t.d \in Disk /\ t.ms \in Mem BY <3>1, SMT DEF Txn
    <3> QED BY <3>2, SMT DEF Written, Answers
  <2>3. u.d = t.d /\ u.ms = t.ms BY <2>1, SMT DEF Opened
  <2>4. u \in Txn BY <2>1, <2>2, SMT DEF Opened, Txn
  <2>5. Blocks(ds, u) BY <2>3 DEF Blocks, TInv
  <2> QED BY <2>1, <2>3, <2>4, <2>5 DEF TInv
\* The disk that a transaction leaves.
<1>GoodIs. ASSUME NEW ds, NEW t, TInv(ds, t), Tree(t.d.dir, t.d.free["inode"], 0, FALSE)
      PROVE  Good(t.d)
  <2> USE <1>GoodIs
  <2>1. t \in Txn /\ Blocks(ds, t) BY DEF TInv
  <2>2. t.d \in Disk BY <2>1, SMT DEF Txn
  <2>3. t.ms.al \in AlType BY <2>1, Parts
  <2>4. Pooled(t.d.ino, t.d.free, t.ms.al) BY <2>1 DEF Blocks
  <2>5. Pooled(t.d.ino, t.d.free, "data1") BY <2>3, <2>4, PooledOther
  <2> QED BY <2>1, <2>2, <2>5 DEF Good, Blocks
\* LOG.commit adds the disk of the transaction to the set.
<1>CommitInv. ASSUME NEW D, NEW P, NEW M, SysOK(D, P, M),
             NEW t, TInv(D, t), Tree(t.d.dir, t.d.free["inode"], 0, FALSE)
      PROVE  SysOK(Append(D, t.d), Append(P, t.w), t.ms)
  <2> USE <1>CommitInv
  <2>1. PICK e, W, Q, R : e = t.d /\ W = t.w /\ Q = Append(D, t.d) /\ R = Append(P, t.w) OBVIOUS
  <2>2. e \in Disk /\ W \in Written /\ t \in Txn
    <3>1. t \in Txn BY DEF TInv
    <3> QED BY <3>1, <2>1, SMT DEF Txn
  <2>3. D \in Seq(Disk) /\ P \in Seq(Written) /\ Len(D) = Len(P) + 1 BY DEF SysOK
  <2>4. Q \in Seq(Disk) /\ Len(Q) = Len(D) + 1 /\ Q[Len(D) + 1] = e /\ Len(D) \in Nat
        /\ \A n \in 1 .. Len(D) : Q[n] = D[n]
    BY <2>1, <2>2, <2>3, SMT
  <2>5. R \in Seq(Written) /\ Len(R) = Len(P) + 1 BY <2>1, <2>2, <2>3, SMT
  <2>6. DOMAIN D = 1 .. Len(D) /\ DOMAIN Q = 1 .. Len(Q) BY <2>3, <2>4, SMT
  <2>7. \A n \in 1 .. Len(Q) : n \in 1 .. Len(D) \/ n = Len(D) + 1 BY <2>4, SMT
  <2>8. Good(e) BY <2>1, <1>GoodIs
  <2>9. AllGood(Q)
    <3>1. AllGood(D) BY DEF SysOK
    <3> QED BY <3>1, <2>4, <2>7, <2>8 DEF AllGood
  <2>10. Blocks(Q, t)
    <3>1. Blocks(D, t) BY DEF TInv
    <3>2. t.ms.al \in AlType BY <2>2, Parts
    <3>3. SafeOne(e, t.ms.al, t.d.ino, t.d.free)
      <4>1. Pooled(e.ino, e.free, t.ms.al) BY <3>1, <2>1 DEF Blocks
      <4>2. SafeOne(e, t.ms.al, e.ino, e.free) BY <4>1, <3>2, SafeSelf
      <4> QED BY <4>2, <2>1
    <3>4. Safe(Q, t.ms.al, t.d.ino, t.d.free)
      <4>1. Safe(D, t.ms.al, t.d.ino, t.d.free) BY <3>1 DEF Blocks
      <4> QED BY <4>1, <3>3, <2>4, <2>6, <2>7 DEF Safe
    <3> QED BY <3>1, <3>4 DEF Blocks
  <2>11. TInv(Q, t) BY <2>10 DEF TInv
  <2>12. TInv(Q, Opened(e, t.ms)) BY <2>1, <2>11, <1>OpenedIs
  <2>13. Len(Q) = Len(R) + 1 /\ Q[Len(Q)] = e BY <2>3, <2>4, <2>5, SMT
  <2> QED BY <2>1, <2>4, <2>5, <2>9, <2>12, <2>13 DEF SysOK
\* The caches change and the disks do not.
<1>CacheInv. ASSUME NEW s, SInv(s), NEW t, TInv(s.ds, t), t.d = s.ds[Len(s.ds)]
      PROVE  SysOK(s.ds, s.pend, t.ms)
  <2> USE <1>CacheInv
  <2>1. TInv(s.ds, Opened(s.ds[Len(s.ds)], t.ms)) BY <1>OpenedIs
  <2> QED BY <2>1 DEF SInv, SysOK
<1>AnswerInv. ASSUME NEW s, SInv(s), NEW e
      PROVE  SInv([s EXCEPT !.err = e])
  <2> USE <1>AnswerInv
  <2>1. s = Rec(s.ds, s.pend, s.ms, s.err) /\ SysOK(s.ds, s.pend, s.ms) BY DEF SInv
  <2>2. PICK D, P, M, x : D = s.ds /\ P = s.pend /\ M = s.ms /\ x = s.err OBVIOUS
  <2>3. s = Rec(D, P, M, x) BY <2>1, <2>2
  <2>4. [s EXCEPT !.err = e] = Rec(D, P, M, e) BY <2>3, SMT DEF Rec
  <2>5. SInv(Rec(D, P, M, e)) BY <2>1, <2>2, RecIs
  <2> QED BY <2>4, <2>5
<1>CachesAndAnswer. ASSUME NEW s, SInv(s), NEW M, NEW e, SysOK(s.ds, s.pend, M)
      PROVE  SInv(WithCaches(s, M, e))
  <2> USE <1>CachesAndAnswer
  <2>1. s = Rec(s.ds, s.pend, s.ms, s.err) BY DEF SInv
  <2>2. PICK D, P, N, x : D = s.ds /\ P = s.pend /\ N = s.ms /\ x = s.err OBVIOUS
  <2>3. s = Rec(D, P, N, x) BY <2>1, <2>2
  <2>4. [s EXCEPT !.ms = M] = Rec(D, P, M, x) BY <2>3, SMT DEF Rec
  <2>5. [Rec(D, P, M, x) EXCEPT !.err = e] = Rec(D, P, M, e) BY SMT DEF Rec
  <2>6. WithCaches(s, M, e) = Rec(D, P, M, e) BY <2>4, <2>5 DEF WithCaches
  <2>7. SInv(Rec(D, P, M, e)) BY <2>2, RecIs
  <2> QED BY <2>6, <2>7
<1>CommittedInv. ASSUME NEW s, SInv(s), NEW t, Commits(s.ds, t)
      PROVE  SInv(Committed(s, t))
  <2> USE <1>CommittedInv
  <2>1. Committed(s, t) = Rec(Append(s.ds, t.d), Append(s.pend, t.w), t.ms, "OK") BY DEF Committed, Rec
  <2>2. SysOK(Append(s.ds, t.d), Append(s.pend, t.w), t.ms) BY <1>CommitInv DEF SInv, Commits
  <2> QED BY <2>1, <2>2, RecIs
\* A call commits, or gives the caller its old caches back.
<1>FinishInv. ASSUME NEW s, SInv(s), NEW t, t.err = "OK" => Commits(s.ds, t)
      PROVE  SInv(Finish(s, t))
  <2> USE <1>FinishInv
  <2>1. CASE Answer(t) = "OK"
    <3>1. t.err = "OK" BY <2>1 DEF Answer
    <3>2. Finish(s, t) = Committed(s, t) BY <2>1 DEF Finish
    <3> QED BY <3>1, <3>2, <1>CommittedInv
  <2>2. CASE Answer(t) # "OK"
    <3>1. Finish(s, t) = [s EXCEPT !.err = Answer(t)] BY <2>2 DEF Finish
    <3>2. SInv([s EXCEPT !.err = Answer(t)]) BY <1>AnswerInv
    <3> QED BY <3>1, <3>2
  <2> QED BY <2>1, <2>2
\* A call that keeps the caches of a transaction that it aborts: the log has
\* room for what it writes, so that it aborts only after a failed step.
<1>ShadowedInv. ASSUME NEW s, SInv(s), NEW t, t.err = "OK" => Commits(s.ds, t) /\ ~(Cardinality(t.w) > LogLen),
             t.err # "OK" => SysOK(s.ds, s.pend, t.ms)
      PROVE  SInv(FinishShadowed(s, t))
  <2> USE <1>ShadowedInv
  <2>1. Answer(t) = t.err BY DEF Answer
  <2>2. CASE t.err = "OK"
    <3>2. FinishShadowed(s, t) = Committed(s, t) BY <2>1, <2>2 DEF FinishShadowed
    <3> QED BY <2>2, <3>2, <1>CommittedInv
  <2>3. CASE t.err # "OK"
    <3>1. FinishShadowed(s, t) = WithCaches(s, t.ms, Answer(t)) BY <2>1, <2>3 DEF FinishShadowed, WithCaches
    <3> QED BY <2>3, <3>1, <1>CachesAndAnswer
  <2> QED BY <2>2, <2>3
\* The transaction of a call that leaves the tree alone.
<1>SameTreeCommits. ASSUME NEW s, SInv(s), NEW u, TInv(s.ds, u), SameTree(Begin(s), u)
      PROVE  Commits(s.ds, u)
  <2> USE <1>SameTreeCommits
  <2>1. Tree(Begin(s).d.dir, Begin(s).d.free["inode"], 0, FALSE)
    <3>1. Good(Begin(s).d) BY BeginIs
    <3> QED BY <3>1 DEF Good
  <2> QED BY <2>1 DEF SameTree, Commits
\* file_truncate, file_set_attr, file_set_sz and update_fblock.
<1>FileTruncateInv. ASSUME Known, NEW s, SInv(s), NEW i \in Inum, NEW n \in Nat
      PROVE  SInv(FileTruncate(s, i, n))
  <2> USE <1>FileTruncateInv
  <2>1. Trims(s.ds, Begin(s), Truncate(Begin(s), i, n))
    <3>1. TInv(s.ds, Begin(s)) BY BeginIs
    <3> QED BY <3>1, BlockSteps DEF TruncateInv
  <2>2. Commits(s.ds, Truncate(Begin(s), i, n)) BY <2>1, <1>SameTreeCommits DEF Trims
  <2> QED BY <2>2, <1>FinishInv DEF FileTruncate
<1>WritesFinish. ASSUME Known, NEW s, SInv(s), NEW u, NEW x, Writes(s.ds, Begin(s), u, x)
      PROVE  SInv(Finish(s, u)) /\ SInv(FinishShadowed(s, u))
  <2> USE <1>WritesFinish
  <2>1. Commits(s.ds, u) BY <1>SameTreeCommits DEF Writes, Keeps
  <2>2. u.err = "OK" /\ u.w = {} \cup {x}
    <3>1. Begin(s).err = "OK" /\ Begin(s).w = {} BY BeginIs
    <3> QED BY <3>1 DEF Writes, Keeps
  <2>3. ~(Cardinality(u.w) > LogLen)
    <3>1. u.w \subseteq {x, x, x, x} BY <2>2
    <3> QED BY <3>1, FourFit
  <2>4. SInv(Finish(s, u)) BY <2>1, <1>FinishInv
  <2>5. SInv(FinishShadowed(s, u)) BY <2>1, <2>2, <2>3, <1>ShadowedInv
  <2> QED BY <2>4, <2>5
<1>SetSzInv. ASSUME Known, NEW s, SInv(s), NEW i \in Inum, NEW sz \in Nat
      PROVE  SInv(FileSetSz(s, i, sz)) /\ SInv(FileSetAttr(s, i, sz))
  <2> USE <1>SetSzInv
  <2>1. TInv(s.ds, Begin(s)) BY BeginIs
  <2>2. Writes(s.ds, Begin(s), SetBytes(Begin(s), i, sz), <<"ino", 0>>) BY <2>1, BlockSteps
                                             DEF SetBytesInv
  <2>3. SInv(Finish(s, SetBytes(Begin(s), i, sz))) /\ SInv(FinishShadowed(s, SetBytes(Begin(s), i, sz)))
    BY <2>2, <1>WritesFinish
  <2> QED BY <2>3 DEF FileSetSz, FileSetAttr
<1>UpdateFblockInv. ASSUME Known, NEW s, SInv(s), NEW i \in Inum, NEW off \in Nat, off < Len(latest(s).ino[i].blocks)
      PROVE  SInv(UpdateFblock(s, i, off, i))
  <2> USE <1>UpdateFblockInv
  <2>1. TInv(s.ds, Begin(s)) /\ Begin(s).d = latest(s) BY BeginIs DEF latest
  <2>2. off < Len(Begin(s).d.ino[i].blocks) BY <2>1
  <2>3. PICK u : u = LogWrite(Begin(s), i, off, i) OBVIOUS
  <2>4. PICK x \in Block : Writes(s.ds, Begin(s), u, <<"data", x>>) BY <2>1, <2>2, <2>3,
                                             BlockSteps DEF LogWriteInv
  <2>5. SInv(FinishShadowed(s, u)) BY <2>4, <1>WritesFinish
  <2> QED BY <2>3, <2>5 DEF UpdateFblock
\* A new inode, linked into a directory, leaves a tree.
<1>MadeTree. ASSUME NEW E \in DirType, NEW N \in SUBSET Inum, Tree(E, N, 0, FALSE), NEW d \in Inum, DirAt(E, d), NEW n \in Name,
             n \notin DOMAIN E[d], NEW i \in N, NEW b \in BOOLEAN
      PROVE  Tree(SetAt(E, d, Enter(E[d], n, [inum |-> i, isdir |-> b])), N \ {i}, 0, FALSE)
  <2> USE <1>MadeTree
  <2>1. PICK G, K : G = SetAt(E, d, Enter(E[d], n, [inum |-> i, isdir |-> b])) /\ K = N \ {i} OBVIOUS
  <2>2. i \in Inum /\ K \in SUBSET Inum BY <2>1
  <2>3. Linked(E, G, d, n, i, b) BY <2>1, <2>2, DirSteps DEF EnterLinks
  <2>4. Tree(E, K, i, b) BY <2>1, TreeSteps DEF AllocTree
  <2>5. Reach(E, d) BY TreeSteps DEF ReachDirs
  <2>6. Tree(G, K, 0, FALSE) BY <2>2, <2>3, <2>4, <2>5, TreeSteps DEF LinkTree
  <2> QED BY <2>1, <2>6
<1>MakeCallInv. ASSUME Known, NEW s, SInv(s), NEW d \in Inum, DirAt(latest(s).dir, d), NEW n \in Name, NEW b \in BOOLEAN
      PROVE  MakesCall(s, Make(Begin(s), d, n, b))
  <2> USE <1>MakeCallInv
  <2>1. PICK t, v, E, N : t = Begin(s) /\ v = Make(Begin(s), d, n, b) /\ E = t.d.dir /\ N = t.d.free["inode"] OBVIOUS
  <2>2. TInv(s.ds, t) /\ t.err = "OK" /\ t.w = {} /\ t.d = latest(s) /\ t.d = s.ds[Len(s.ds)] /\ t.ms = s.ms /\ Good(t.d)
    BY <2>1, BeginIs DEF latest
  <2>3. t \in Txn /\ E \in DirType /\ t.d.free \in FreeType BY <2>1, <2>2, Parts DEF TInv
  <2>4. DirAt(E, d) BY <2>1, <2>2
  <2>5. Makes(s.ds, t, d, n, b, v) BY <2>1, <2>2, <2>4, DirSteps, ZenonT(40) DEF MakeInv
  <2>6. TInv(s.ds, v) /\ v \in Txn BY <2>5 DEF Makes, TInv
  <2>7. Tree(E, N, 0, FALSE) /\ N \in SUBSET Inum BY <2>1, <2>2 DEF Good, Kinds
  <2>8. CASE Made(t, d, n, b, v)
    <3>1. v.err = "OK" /\ n \notin DOMAIN E[d] BY <2>1, <2>8 DEF Made
    <3>2. PICK i \in N : /\ v.d.free["inode"] = N \ {i}
                         /\ v.d.dir = SetAt(E, d, Enter(E[d], n, [inum |-> i, isdir |-> b]))
      BY <2>1, <2>8 DEF Made
    <3>3. Tree(v.d.dir, v.d.free["inode"], 0, FALSE)
      <4>1. Tree(SetAt(E, d, Enter(E[d], n, [inum |-> i, isdir |-> b])), N \ {i}, 0, FALSE)
        BY <3>1, <2>3, <2>4, <2>7, <1>MadeTree
      <4> QED BY <4>1, <3>2
    <3>4. Commits(s.ds, v) BY <3>3, <2>6 DEF Commits
    <3>5. PICK y, z : v.w \subseteq (t.w \cup {<<"inode", 0>>}) \cup {<<"ino", 0>>, y, z}
      BY <2>8 DEF Made, AddsFew
    <3>6. v.w \subseteq {<<"inode", 0>>, <<"ino", 0>>, y, z} BY <3>5, <2>2
    <3> QED BY <3>1, <3>4, <3>6, <2>1, <2>6 DEF MakesCall
  <2>9. CASE v.err # "OK" /\ v.d.dir = E /\ SameBlocks(t, v) /\ v.d.free["inode"] \subseteq N
    <3>1. PICK u, M, F, G : u = Opened(t.d, v.ms) /\ M = v.ms /\ F = t.d.free /\ G = v.d.free OBVIOUS
    <3>2. M \in Mem /\ t.d \in Disk /\ {} \in Written /\ "OK" \in Answers
      <4>1. M \in Mem BY <3>1, <2>6, SMT DEF Txn
      <4>2. t.d \in Disk BY <2>3, SMT DEF Txn
      <4> QED BY <4>1, <4>2, SMT DEF Written, Answers
    <3>3. u \in Txn /\ u.d = t.d /\ u.ms = M BY <3>1, <3>2, SMT DEF Opened, Txn
    <3>4. Blocks(s.ds, u)
      <4>1. SameBlocks(t, u) BY <3>1, <3>3, <2>9 DEF SameBlocks
      <4>2. u.d.free["inode"] \subseteq Inum BY <3>3, <2>1, <2>7
      <4>3. Blocks(s.ds, t) BY <2>2 DEF TInv
      <4> QED BY <4>1, <4>2, <4>3, <2>3, SameBlocksInv
    <3>5. Lists(F, M.list)
      <4> SUFFICES ASSUME NEW k \in Allocator, NEW l \in M.list[k] PROVE ListOK(l, F[k], k) BY DEF Lists
      <4>1. ListOK(l, G[k], k) BY <3>1, <2>6 DEF Lists, TInv
      <4>2. G["data1"] = F["data1"] /\ G["data2"] = F["data2"] /\ G["inode"] \subseteq F["inode"]
        BY <3>1, <2>1, <2>9 DEF SameBlocks
      <4>3. CASE k = "inode" BY <4>1, <4>2, <4>3 DEF ListOK, IsList
      <4>4. CASE k # "inode"
        <5>1. k = "data1" \/ k = "data2" BY <4>4 DEF Allocator
        <5>2. G[k] = F[k] BY <5>1, <4>2
        <5> QED BY <5>2, <4>1
      <4> QED BY <4>3, <4>4
    <3>6. Cached(M.dcache, E) BY <3>1, <2>6, <2>9 DEF TInv
    <3>7. TInv(s.ds, u) BY <3>1, <3>3, <3>4, <3>5, <3>6, <2>1 DEF TInv
    <3>8. SysOK(s.ds, s.pend, M) BY <3>3, <3>7, <2>2, <1>CacheInv
    <3> QED BY <3>1, <3>8, <2>1, <2>6, <2>9 DEF MakesCall
  <2> QED BY <2>1, <2>5, <2>8, <2>9 DEF Makes
<1>CreateInv. ASSUME Known, NEW s, SInv(s), NEW d \in Inum, DirAt(latest(s).dir, d), NEW n \in Name
      PROVE  SInv(Create(s, d, n))
  <2> USE <1>CreateInv
  <2>1. PICK v : v = Make(Begin(s), d, n, FALSE) OBVIOUS
  <2>2. MakesCall(s, v) BY <2>1, <1>MakeCallInv
  <2>3. SInv(Finish(s, v)) BY <2>2, <1>FinishInv DEF MakesCall
  <2> QED BY <2>1, <2>3 DEF Create
<1>MkdirInv. ASSUME Known, NEW s, SInv(s), NEW d \in Inum, DirAt(latest(s).dir, d), NEW n \in Name
      PROVE  SInv(Mkdir(s, d, n))
  <2> USE <1>MkdirInv
  <2>1. PICK v : v = Make(Begin(s), d, n, TRUE) OBVIOUS
  <2>2. MakesCall(s, v) BY <2>1, <1>MakeCallInv
  <2>3. v.err = "OK" => ~(Cardinality(v.w) > LogLen) BY <2>2, FourFit DEF MakesCall
  <2>4. SInv(FinishShadowed(s, v)) BY <2>2, <2>3, <1>ShadowedInv DEF MakesCall
  <2> QED BY <2>1, <2>4 DEF Mkdir
<1>MksockInv. ASSUME Known, NEW s, SInv(s), NEW d \in Inum, DirAt(latest(s).dir, d), NEW n \in Name
      PROVE  SInv(Mksock(s, d, n))
  <2> USE <1>MksockInv
  <2>1. PICK v, W, u : /\ v = Make(Begin(s), d, n, FALSE) /\ W = v.w \cup {<<"ino", 0>>}
                       /\ u = IF v.err = "OK" THEN SetW(v, W) ELSE v
    OBVIOUS
  <2>2. MakesCall(s, v) BY <2>1, <1>MakeCallInv
  <2>3. Mksock(s, d, n) = FinishShadowed(s, u)
    <3>1. Mksock(s, d, n) = FinishShadowed(s, IF v.err = "OK" THEN [v EXCEPT !.w = @ \cup {<<"ino", 0>>}] ELSE v)
      BY <2>1 DEF Mksock
    <3>2. [v EXCEPT !.w = @ \cup {<<"ino", 0>>}] = SetW(v, W) BY <2>1 DEF SetW
    <3> QED BY <3>1, <3>2, <2>1
  <2>4. CASE v.err # "OK"
    <3>1. u = v BY <2>1, <2>4
    <3> QED BY <3>1, <2>2, <2>3, <2>4, <1>ShadowedInv DEF MakesCall
  <2>5. CASE v.err = "OK"
    <3>1. v \in Txn /\ Commits(s.ds, v) BY <2>2, <2>5 DEF MakesCall
    <3>2. PICK y, z : v.w \subseteq {<<"inode", 0>>, <<"ino", 0>>, y, z} BY <2>2, <2>5 DEF MakesCall
    <3>3. W \subseteq {<<"inode", 0>>, <<"ino", 0>>, y, z} BY <3>2, <2>1
    <3>4. W \in Written
      <4>1. v.w \in Written BY <3>1, SMT DEF Txn
      <4> QED BY <4>1, <2>1, WrittenIs DEF Written
    <3>5. u = SetW(v, W) BY <2>1, <2>5
    <3>6. u \in Txn /\ u.d = v.d /\ u.ms = v.ms /\ u.w = W /\ u.err = v.err BY <3>1, <3>4, <3>5, PutW, SMT
    <3>7. Blocks(s.ds, u)
      <4>1. Blocks(s.ds, v) BY <3>1 DEF Commits, TInv
      <4> QED BY <4>1, <3>6 DEF Blocks
    <3>8. Commits(s.ds, u) BY <3>1, <3>6, <3>7 DEF Commits, TInv
    <3>9. ~(Cardinality(u.w) > LogLen) BY <3>3, <3>6, FourFit
    <3> QED BY <3>6, <3>8, <3>9, <2>3, <2>5, <1>ShadowedInv
  <2> QED BY <2>4, <2>5
\* delete, rename and lookup.
<1>DeleteCallInv. ASSUME Known, NEW s, SInv(s), NEW d \in Inum, NEW n \in Name
      PROVE  SInv(DeleteCall(s, d, n))
  <2> USE <1>DeleteCallInv
  <2>1. PICK t, v : t = Begin(s) /\ v = Delete(Begin(s), d, n) OBVIOUS
  <2>2. TInv(s.ds, t) /\ Tree(t.d.dir, t.d.free["inode"], 0, FALSE) BY <2>1, BeginIs DEF Good
  <2>3. ASSUME v.err = "OK" PROVE Commits(s.ds, v)
    <3>1. Deletes(s.ds, t, d, 0, FALSE, v) BY <2>1, <2>2, <2>3, DirSteps DEF DeleteInv
    <3> QED BY <3>1 DEF Deletes, Commits
  <2>4. SInv(Finish(s, v)) BY <2>3, <1>FinishInv
  <2> QED BY <2>1, <2>4 DEF DeleteCall
<1>RenameCallInv. ASSUME Known, NEW s, SInv(s), NEW sp \in Seq(Name), NEW dp \in Seq(Name), NEW sn \in Name, NEW dn \in Name
      PROVE  SInv(RenameCall(s, sp, sn, dp, dn))
  <2> USE <1>RenameCallInv
  <2>1. PICK t, v : t = Begin(s) /\ v = Rename(Begin(s), sp, sn, dp, dn) OBVIOUS
  <2>2. TInv(s.ds, t) /\ Tree(t.d.dir, t.d.free["inode"], 0, FALSE) BY <2>1, BeginIs DEF Good
  <2>3. ASSUME v.err = "OK" PROVE Commits(s.ds, v)
    <3>1. Renames(s.ds, v) BY <2>1, <2>2, <2>3, DirSteps DEF RenameInv
    <3> QED BY <3>1 DEF Renames, Commits
  <2>4. SInv(Finish(s, v)) BY <2>3, <1>FinishInv
  <2> QED BY <2>1, <2>4 DEF RenameCall
<1>LookupInv. ASSUME Known, NEW s, SInv(s), NEW p \in Seq(Name)
      PROVE  SInv(Lookup(s, p))
  <2> USE <1>LookupInv
  <2>1. PICK t, v : t = Begin(s) /\ v = Namei(Begin(s), p).t OBVIOUS
  <2>2. TInv(s.ds, t) /\ t.d = s.ds[Len(s.ds)] BY <2>1, BeginIs
  <2>3. Walked(s.ds, t, Namei(t, p)) BY <2>2, DirSteps DEF NameiInv
  <2>4. TInv(s.ds, v) /\ v.d = s.ds[Len(s.ds)] BY <2>1, <2>2, <2>3 DEF Walked
  <2>5. SysOK(s.ds, s.pend, v.ms) BY <2>4, <1>CacheInv
  <2>6. SInv(WithCaches(s, v.ms, v.err)) BY <2>5, <1>CachesAndAnswer
  <2> QED BY <2>1, <2>6 DEF Lookup, ReadOnly, WithCaches
<1> QED BY <1>AnswerInv, <1>FileTruncateInv, <1>SetSzInv, <1>UpdateFblockInv, <1>CreateInv,
           <1>MkdirInv, <1>MksockInv, <1>DeleteCallInv, <1>RenameCallInv, <1>LookupInv
      DEF AnswerInv, FileTruncateInv, SetSzInv, UpdateFblockInv, CreateInv, MkdirInv, MksockInv, DeleteCallInv, RenameCallInv, LookupInv

WithDisks(s, D, P) == [s EXCEPT !.ds = D, !.pend = P]

Flushes(s, f) == SInv(f) /\ f = Rec(<<latest(s)>>, <<>>, s.ms, s.err)

\* tree_sync: with one disk in the set the allocators may change roles.
SetAl(M, A) == [M EXCEPT !.al = A]

\* The data of the disks changes, and what is dirty: files still show their own
\* values, and what is not dirty in the newest disk is durable.
NewData(e, f) ==
  f \in Disk /\ f.ino = e.ino /\ f.dir = e.dir /\ f.free = e.free /\ Shows(f.ino, f.data)
SameCaches(M, N) == N \in Mem /\ N.al = M.al /\ N.list = M.list /\ N.dcache = M.dcache
AllNew(D, Q) == Q \in Seq(Disk) /\ Len(Q) = Len(D) /\ \A n \in 1 .. Len(D) : NewData(D[n], Q[n])

WithSet(s, D) == [s EXCEPT !.ds = D]

AllSynced(D, S) == [n \in DOMAIN D |-> Synced(D[n], S)]

\* The dirty blocks of one file.
SetDirtyOf(M, i, B) == [M EXCEPT !.dblocks[i] = B]
Marks(M, i, B, N) == SameCaches(M, N) /\ \A a \in Inum : N.dblocks[a] = IF a = i THEN B ELSE M.dblocks[a]

\* A call past the log: new disks, new marks, answer OK.
WithMarks(s, D, i, B) == [s EXCEPT !.ds = D, !.ms.dblocks[i] = B, !.err = "OK"]

\* update_fblock_d on a set of disks in which the block belongs to no other file.
AllDWritten(D, x, v) == [n \in DOMAIN D |-> DWritten(D[n], x, v)]

TreeSyncInv ==
  \A s :
     SInv(s)
     => SInv(TreeSync(s))

UmountInv ==
  \A s :
     SInv(s)
     => SInv(Umount(s))

FileSyncInv ==
  \A s : \A i \in Inum :
     SInv(s)
     => SInv(FileSync(s, i))

UpdateFblockDInv ==
  \A s : \A i \in Inum, off \in Nat :
     Known /\ SInv(s) /\ off < Len(latest(s).ino[i].blocks)
     => SInv(UpdateFblockD(s, i, off, i))

\* The calls that flush or sync, and the direct write, keep the invariant.
LEMMA Syncs ==
  TreeSyncInv /\ UmountInv /\ FileSyncInv /\ UpdateFblockDInv
<1>WithDisksIs. ASSUME NEW s, SInv(s), NEW D, NEW P
      PROVE  WithDisks(s, D, P) = Rec(D, P, s.ms, s.err)
  <2> USE <1>WithDisksIs
  <2>1. s = Rec(s.ds, s.pend, s.ms, s.err) BY DEF SInv
  <2>2. PICK E, Q, M, x : E = s.ds /\ Q = s.pend /\ M = s.ms /\ x = s.err OBVIOUS
  <2>3. s = Rec(E, Q, M, x) BY <2>1, <2>2
  <2>4. [s EXCEPT !.ds = D] = Rec(D, Q, M, x) BY <2>3, SMT DEF Rec
  <2>5. [Rec(D, Q, M, x) EXCEPT !.pend = P] = Rec(D, P, M, x) BY SMT DEF Rec
  <2> QED BY <2>2, <2>4, <2>5 DEF WithDisks
<1>FlushAllInv. ASSUME NEW s, SInv(s)
      PROVE  Flushes(s, FlushAll(s))
  <2> USE <1>FlushAllInv
  <2>1. FlushAll(s) = WithDisks(s, <<latest(s)>>, <<>>) BY DEF FlushAll, WithDisks
  <2>2. FlushAll(s) = Rec(<<latest(s)>>, <<>>, s.ms, s.err) BY <2>1, <1>WithDisksIs
  <2>3. SysOK(<<latest(s)>>, <<>>, s.ms)
    <3>1. /\ Good(latest(s)) /\ s.ms \in Mem /\ Clean(latest(s).ino, s.ms.dblocks, latest(s).data)
          /\ Lists(latest(s).free, s.ms.list) /\ Cached(s.ms.dcache, latest(s).dir)
      BY NewestIs
    <3> QED BY <3>1, OneDisk
  <2>4. SInv(Rec(<<latest(s)>>, <<>>, s.ms, s.err)) BY <2>3, RecIs
  <2> QED BY <2>2, <2>4 DEF Flushes
<1>TreeSyncInv. ASSUME NEW s, SInv(s)
      PROVE  SInv(TreeSync(s))
  <2> USE <1>TreeSyncInv
  <2>1. PICK f, M, N, e, x : f = FlushAll(s) /\ M = s.ms /\ N = SetAl(s.ms, Other(s.ms.al)) /\ e = latest(s) /\ x = s.err
    OBVIOUS
  <2>2. f = Rec(<<e>>, <<>>, M, x)
    <3>1. Flushes(s, f) BY <2>1, <1>FlushAllInv
    <3> QED BY <3>1, <2>1 DEF Flushes
  <2>3. /\ Good(e) /\ M \in Mem /\ Clean(e.ino, M.dblocks, e.data) /\ Lists(e.free, M.list) /\ Cached(M.dcache, e.dir)
    BY <2>1, NewestIs
  <2>4. N \in Mem /\ N.dblocks = M.dblocks /\ N.list = M.list /\ N.dcache = M.dcache
    <3>1. M.al \in AlType BY <2>3, SMT DEF Mem
    <3>2. Other(M.al) \in AlType BY <3>1, OtherIs
    <3>3. N = SetAl(M, Other(M.al)) BY <2>1
    <3> QED BY <3>2, <3>3, <2>3, SMT DEF SetAl, Mem
  <2>5. TreeSync(s) = Rec(<<e>>, <<>>, N, "OK")
    <3>1. f.ms = M BY <2>2, SMT DEF Rec
    <3>2. [f EXCEPT !.ms.al = Other(@)] = [f EXCEPT !.ms = N]
      <4>1. [f EXCEPT !.ms.al = Other(@)] = [f EXCEPT !.ms = [f.ms EXCEPT !.al = Other(f.ms.al)]] OBVIOUS
      <4>2. [f.ms EXCEPT !.al = Other(f.ms.al)] = N BY <3>1, <2>1 DEF SetAl
      <4> QED BY <4>1, <4>2
    <3>3. [f EXCEPT !.ms = N] = Rec(<<e>>, <<>>, N, x) BY <2>2, SMT DEF Rec
    <3>4. [Rec(<<e>>, <<>>, N, x) EXCEPT !.err = "OK"] = Rec(<<e>>, <<>>, N, "OK") BY SMT DEF Rec
    <3> QED BY <3>2, <3>3, <3>4, <2>1 DEF TreeSync
  <2>6. SysOK(<<e>>, <<>>, N) BY <2>3, <2>4, OneDisk
  <2>7. SInv(Rec(<<e>>, <<>>, N, "OK")) BY <2>6, RecIs
  <2> QED BY <2>5, <2>7
<1>DataInv. ASSUME NEW D, NEW P, NEW M, SysOK(D, P, M), NEW Q, AllNew(D, Q), NEW N, SameCaches(M, N),
             Clean(Q[Len(D)].ino, N.dblocks, Q[Len(D)].data)
      PROVE  SysOK(Q, P, N)
  <2> USE <1>DataInv
  <2>1. PICK m, e, f, t, u : m = Len(D) /\ e = D[m] /\ f = Q[m] /\ t = Opened(e, M) /\ u = Opened(f, N) OBVIOUS
  <2>2. D \in Seq(Disk) /\ P \in Seq(Written) /\ m = Len(P) + 1 /\ Q \in Seq(Disk) /\ Len(Q) = m
    BY <2>1 DEF SysOK, AllNew
  <2>3. m \in 1 .. m /\ DOMAIN D = 1 .. m /\ DOMAIN Q = 1 .. m
    <3>1. m \in 1 .. m BY <2>2, SMT
    <3>2. DOMAIN D = 1 .. Len(D) /\ DOMAIN Q = 1 .. Len(Q) BY <2>2, SMT
    <3> QED BY <3>1, <3>2, <2>1, <2>2
  <2>4. TInv(D, t) /\ AllGood(D) BY <2>1 DEF SysOK
  <2>5. t.d = e /\ t.ms = M /\ u.d = f /\ u.ms = N BY <2>1, SMT DEF Opened
  <2>6. AllGood(Q)
    <3> SUFFICES ASSUME NEW n \in 1 .. m PROVE Good(Q[n]) BY <2>2 DEF AllGood
    <3>1. NewData(D[n], Q[n]) BY <2>1 DEF AllNew
    <3>2. Good(D[n]) BY <2>1, <2>4 DEF AllGood
    <3> QED BY <3>1, <3>2 DEF Good, NewData
  <2>7. NewData(e, f) BY <2>1, <2>3 DEF AllNew
  <2>8. u \in Txn
    <3>1. f \in Disk /\ N \in Mem BY <2>7 DEF NewData, SameCaches
    <3>2. {} \in Written /\ "OK" \in Answers BY SMT DEF Written, Answers
    <3> QED BY <3>1, <3>2, <2>1, SMT DEF Opened, Txn
  <2>9. Blocks(Q, u)
    <3>1. Blocks(D, t) BY <2>4 DEF TInv
    <3>2. Safe(Q, M.al, e.ino, e.free)
      <4> SUFFICES ASSUME NEW n \in 1 .. m PROVE SafeOne(Q[n], M.al, e.ino, e.free) BY <2>3 DEF Safe
      <4>1. SafeOne(D[n], M.al, e.ino, e.free) BY <3>1, <2>3, <2>5 DEF Safe, Blocks
      <4>2. Q[n].ino = D[n].ino BY <2>1 DEF AllNew, NewData
      <4> QED BY <4>1, <4>2 DEF SafeOne
    <3>3. Once(f.ino) /\ Pooled(f.ino, f.free, N.al) /\ Kinds(f.free) /\ Short(f.ino) /\ Shows(f.ino, f.data)
          /\ Safe(Q, N.al, f.ino, f.free) /\ Clean(f.ino, N.dblocks, f.data)
      BY <3>1, <3>2, <2>1, <2>5, <2>7 DEF Blocks, NewData, SameCaches
    <3> QED BY <3>3, <2>5 DEF Blocks
  <2>10. Lists(u.d.free, u.ms.list) /\ Cached(u.ms.dcache, u.d.dir)
    <3>1. Lists(t.d.free, t.ms.list) /\ Cached(t.ms.dcache, t.d.dir) BY <2>4 DEF TInv
    <3> QED BY <3>1, <2>5, <2>7 DEF NewData, SameCaches
  <2>11. TInv(Q, u) BY <2>8, <2>9, <2>10 DEF TInv
  <2> QED BY <2>1, <2>2, <2>6, <2>11 DEF SysOK
\* The data blocks of every disk are synced.
<1>SyncedIs. ASSUME NEW e, Good(e), NEW S
      PROVE  /\ NewData(e, Synced(e, S))
             /\ \A b \in Block : Synced(e, S).data[b] = IF b \in S THEN Settled(e.data[b].cur) ELSE e.data[b]
  <2> USE <1>SyncedIs
  <2>1. PICK f, V, U : f = Synced(e, S) /\ V = e.data /\ U = SyncBlocks(e.data, S) OBVIOUS
  <2>2. e \in Disk /\ V \in DataType BY <2>1, SMT DEF Good, Disk
  <2>3. DOMAIN U = Block /\ \A b \in Block : U[b] = IF b \in S THEN Settled(V[b].cur) ELSE V[b]
    BY <2>1, <2>2 DEF SyncBlocks, DataType
  <2>4. \A b \in Block : V[b] \in Valus BY <2>2 DEF DataType
  <2>5. \A b \in Block : Settled(V[b].cur) \in Valus BY <2>4, SMT DEF Settled, Valus, ValuSet
  <2>6. U \in DataType
    <3>1. \A b \in Block : U[b] \in Valus BY <2>3, <2>4, <2>5
    <3>2. U = [b \in Block |-> U[b]]
      <4>1. U = [b \in DOMAIN V |-> IF b \in S THEN Settled(V[b].cur) ELSE V[b]] BY <2>1 DEF SyncBlocks
      <4>2. DOMAIN V = Block BY <2>2 DEF DataType
      <4> QED BY <4>1, <4>2
    <3> QED BY <3>1, <3>2 DEF DataType
  <2>7. f = [e EXCEPT !.data = U] BY <2>1 DEF Synced
  <2>8. f \in Disk /\ f.ino = e.ino /\ f.dir = e.dir /\ f.free = e.free /\ f.data = U BY <2>2, <2>6, <2>7, SMT DEF Disk
  <2>9. \A b \in Block : Merge(U[b]) \subseteq Merge(V[b])
    <3> SUFFICES ASSUME NEW b \in Block PROVE Merge(U[b]) \subseteq Merge(V[b]) OBVIOUS
    <3>1. Merge(Settled(V[b].cur)) = {V[b].cur} BY SettledIs
    <3> QED BY <3>1, <2>3 DEF Merge
  <2>10. Shows(e.ino, U)
    <3>1. Shows(e.ino, V) BY <2>1 DEF Good
    <3> QED BY <3>1, <2>9 DEF Shows
  <2> QED BY <2>1, <2>3, <2>8, <2>10 DEF NewData
\* Every disk of the set changes its data.
<1>AllNewIs. ASSUME NEW D \in Seq(Disk), NEW Q, Q = [n \in DOMAIN D |-> Q[n]], \A n \in DOMAIN D : NewData(D[n], Q[n])
      PROVE  AllNew(D, Q)
  <2> USE <1>AllNewIs
  <2>1. DOMAIN D = 1 .. Len(D) /\ Len(D) \in Nat BY SMT
  <2>2. PICK m \in Nat : m = Len(D) BY <2>1
  <2>3. \A n \in 1 .. m : Q[n] \in Disk BY <2>1, <2>2 DEF NewData
  <2>4. Q = [n \in 1 .. m |-> Q[n]] BY <2>1, <2>2
  <2>5. Q \in Seq(Disk) /\ Len(Q) = m BY <2>3, <2>4, SMT
  <2> QED BY <2>1, <2>2, <2>5 DEF AllNew
<1>WithSetIs. ASSUME NEW s, SInv(s), NEW D
      PROVE  WithSet(s, D) = Rec(D, s.pend, s.ms, s.err)
  <2> USE <1>WithSetIs
  <2>1. s = Rec(s.ds, s.pend, s.ms, s.err) BY DEF SInv
  <2>2. PICK E, Q, M, x : E = s.ds /\ Q = s.pend /\ M = s.ms /\ x = s.err OBVIOUS
  <2>3. s = Rec(E, Q, M, x) BY <2>1, <2>2
  <2>4. [s EXCEPT !.ds = D] = Rec(D, Q, M, x) BY <2>3, SMT DEF Rec
  <2> QED BY <2>2, <2>4 DEF WithSet
<1>AllSyncedNew. ASSUME NEW D \in Seq(Disk), AllGood(D), NEW S
      PROVE  AllNew(D, AllSynced(D, S))
  <2> USE <1>AllSyncedNew
  <2>1. PICK Q : Q = AllSynced(D, S) OBVIOUS
  <2>2. DOMAIN D = 1 .. Len(D) BY SMT
  <2>3. Q = [n \in DOMAIN D |-> Q[n]] /\ \A n \in DOMAIN D : Q[n] = Synced(D[n], S) BY <2>1 DEF AllSynced
  <2>4. ASSUME NEW n \in DOMAIN D PROVE NewData(D[n], Q[n])
    <3>1. Good(D[n]) BY <2>2 DEF AllGood
    <3>2. NewData(D[n], Synced(D[n], S)) BY <3>1, <1>SyncedIs, SMT
    <3> QED BY <3>2, <2>3
  <2>5. AllNew(D, Q) BY <2>3, <2>4, <1>AllNewIs
  <2> QED BY <2>1, <2>5
\* What is dirty and still not synced stays dirty: file_sync and umount.
<1>SyncDataInv. ASSUME NEW s, SInv(s), NEW S, NEW N, SameCaches(s.ms, N),
             \A a \in Inum, b \in Block : b \in s.ms.dblocks[a] => b \in S \/ b \in N.dblocks[a]
      PROVE  SysOK(AllSynced(s.ds, S), s.pend, N)
  <2> USE <1>SyncDataInv
  <2>1. PICK D, Q, m, e : D = s.ds /\ Q = AllSynced(s.ds, S) /\ m = Len(s.ds) /\ e = latest(s) OBVIOUS
  <2>2. D \in Seq(Disk) /\ AllGood(D) /\ SysOK(D, s.pend, s.ms) /\ e = D[m] BY <2>1 DEF SInv, SysOK, latest
  <2>3. AllNew(D, Q) BY <2>1, <2>2, <1>AllSyncedNew
  <2>4. m \in 1 .. m /\ DOMAIN D = 1 .. m
    <3>1. m \in 1 .. m BY <2>1, BeginIs
    <3>2. DOMAIN D = 1 .. Len(D) BY <2>2, SMT
    <3> QED BY <3>1, <3>2, <2>1
  <2>5. Q[m] = Synced(e, S) BY <2>1, <2>2, <2>4 DEF AllSynced
  <2>6. Good(e) /\ Clean(e.ino, s.ms.dblocks, e.data) BY <2>1, NewestIs
  <2>7. PICK U : U = Q[m].data OBVIOUS
  <2>8. Q[m].ino = e.ino /\ \A b \in Block : U[b] = IF b \in S THEN Settled(e.data[b].cur) ELSE e.data[b]
    <3>1. NewData(e, Synced(e, S))
          /\ \A b \in Block : Synced(e, S).data[b] = IF b \in S THEN Settled(e.data[b].cur) ELSE e.data[b]
      BY <2>6, <1>SyncedIs
    <3> QED BY <3>1, <2>5, <2>7 DEF NewData
  <2>9. Clean(e.ino, N.dblocks, U)
    <3> SUFFICES ASSUME NEW i \in Inum, NEW b \in Block, NEW j \in Nat, At(e.ino, b, i, j), b \notin N.dblocks[i]
                 PROVE  U[b].old = {}
      BY DEF Clean
    <3>1. CASE b \in S
      <4>1. U[b] = Settled(e.data[b].cur) BY <3>1, <2>8
      <4> QED BY <4>1, SettledIs
    <3>2. CASE b \notin S
      <4>1. b \notin s.ms.dblocks[i] BY <3>2
      <4>2. e.data[b].old = {} BY <4>1, <2>6 DEF Clean
      <4> QED BY <4>2, <3>2, <2>8
    <3> QED BY <3>1, <3>2
  <2>10. Clean(Q[Len(D)].ino, N.dblocks, Q[Len(D)].data) BY <2>1, <2>7, <2>8, <2>9
  <2>11. SameCaches(s.ms, N) BY SMT
  <2>12. SysOK(Q, s.pend, N) BY <2>2, <2>3, <2>10, <2>11, <1>DataInv
  <2> QED BY <2>1, <2>12
<1>UmountInv. ASSUME NEW s, SInv(s)
      PROVE  SInv(Umount(s))
  <2> USE <1>UmountInv
  <2>1. PICK f : f = TreeSync(s) OBVIOUS
  <2>2. SInv(f) BY <2>1, <1>TreeSyncInv
  <2>3. PICK M, Q : M = f.ms /\ Q = AllSynced(f.ds, Block) OBVIOUS
  <2>4. SameCaches(f.ms, M) BY <2>2, <2>3, NewestIs DEF SameCaches
  <2>5. SysOK(Q, f.pend, M) BY <2>2, <2>3, <2>4, <1>SyncDataInv
  <2>6. Umount(s) = WithSet(f, Q) BY <2>1, <2>3 DEF Umount, SyncData, WithSet, AllSynced
  <2>7. Umount(s) = Rec(Q, f.pend, M, f.err) BY <2>2, <2>3, <2>6, <1>WithSetIs
  <2>8. SInv(Rec(Q, f.pend, M, f.err)) BY <2>5, RecIs
  <2> QED BY <2>7, <2>8
<1>SetDirtyIs. ASSUME NEW M \in Mem, NEW i \in Inum, NEW B \in BlockSet
      PROVE  Marks(M, i, B, SetDirtyOf(M, i, B))
  <2> USE <1>SetDirtyIs
  <2>1. PICK N, X : N = SetDirtyOf(M, i, B) /\ X = SetAt(M.dblocks, i, B) OBVIOUS
  <2>2. M.dblocks \in DirtyType BY SMT DEF Mem
  <2>3. X \in DirtyType /\ \A a \in Inum : X[a] = IF a = i THEN B ELSE M.dblocks[a]
    BY <2>1, <2>2 DEF SetAt, DirtyType
  <2>4. N = [M EXCEPT !.dblocks = X]
    <3>1. [M EXCEPT !.dblocks[i] = B] = [M EXCEPT !.dblocks = [M.dblocks EXCEPT ![i] = B]] OBVIOUS
    <3> QED BY <3>1, <2>1 DEF SetDirtyOf, SetAt
  <2>5. N \in Mem /\ N.al = M.al /\ N.list = M.list /\ N.dcache = M.dcache /\ N.dblocks = X BY <2>3, <2>4, SMT DEF Mem
  <2> QED BY <2>1, <2>3, <2>5 DEF SameCaches, Marks
<1>WithMarksIs. ASSUME NEW s, SInv(s), NEW D, NEW i, NEW B
      PROVE  WithMarks(s, D, i, B) = Rec(D, s.pend, SetDirtyOf(s.ms, i, B), "OK")
  <2> USE <1>WithMarksIs
  <2>1. s = Rec(s.ds, s.pend, s.ms, s.err) BY DEF SInv
  <2>2. PICK E, Q, M, x, N : E = s.ds /\ Q = s.pend /\ M = s.ms /\ x = s.err /\ N = SetDirtyOf(s.ms, i, B) OBVIOUS
  <2>3. s = Rec(E, Q, M, x) BY <2>1, <2>2
  <2>4. [s EXCEPT !.ds = D] = Rec(D, Q, M, x) BY <2>3, SMT DEF Rec
  <2>5. PICK r : r = Rec(D, Q, M, x) OBVIOUS
  <2>6. r.ms = M BY <2>5, SMT DEF Rec
  <2>7. [r EXCEPT !.ms.dblocks[i] = B] = [r EXCEPT !.ms = N]
    <3>1. [r EXCEPT !.ms.dblocks[i] = B] = [r EXCEPT !.ms = [r.ms EXCEPT !.dblocks = [r.ms.dblocks EXCEPT ![i] = B]]]
      OBVIOUS
    <3>2. [M EXCEPT !.dblocks = [M.dblocks EXCEPT ![i] = B]] = N BY <2>2 DEF SetDirtyOf
    <3> QED BY <3>1, <3>2, <2>6
  <2>8. [r EXCEPT !.ms = N] = Rec(D, Q, N, x) BY <2>5, SMT DEF Rec
  <2>9. [Rec(D, Q, N, x) EXCEPT !.err = "OK"] = Rec(D, Q, N, "OK") BY SMT DEF Rec
  <2>10. WithMarks(s, D, i, B) = [[[s EXCEPT !.ds = D] EXCEPT !.ms.dblocks[i] = B] EXCEPT !.err = "OK"]
    BY DEF WithMarks
  <2>11. WithMarks(s, D, i, B) = Rec(D, Q, N, "OK") BY <2>4, <2>5, <2>7, <2>8, <2>9, <2>10
  <2> QED BY <2>2, <2>11
<1>FileSyncInv. ASSUME NEW s, SInv(s), NEW i \in Inum
      PROVE  SInv(FileSync(s, i))
  <2> USE <1>FileSyncInv
  <2>1. PICK S, Q, M, N : S = s.ms.dblocks[i] /\ Q = AllSynced(s.ds, S) /\ M = s.ms /\ N = SetDirtyOf(s.ms, i, {}) OBVIOUS
  <2>2. M \in Mem /\ {} \in BlockSet BY <2>1, NewestIs DEF BlockSet
  <2>3. SameCaches(M, N) /\ \A a \in Inum : N.dblocks[a] = IF a = i THEN {} ELSE M.dblocks[a]
    <3>1. Marks(M, i, {}, N) BY <2>1, <2>2, <1>SetDirtyIs
    <3> QED BY <3>1 DEF Marks
  <2>4. \A a \in Inum, b \in Block : b \in s.ms.dblocks[a] => b \in S \/ b \in N.dblocks[a] BY <2>1, <2>3
  <2>5. SysOK(Q, s.pend, N)
    <3>1. SameCaches(s.ms, N) BY <2>1, <2>3
    <3> QED BY <3>1, <2>1, <2>4, <1>SyncDataInv
  <2>6. FileSync(s, i) = WithMarks(s, Q, i, {})
    <3>1. FileSync(s, i) = [SyncData(s, S) EXCEPT !.ms.dblocks[i] = {}, !.err = "OK"] BY <2>1 DEF FileSync
    <3>2. SyncData(s, S) = [s EXCEPT !.ds = Q] BY <2>1 DEF SyncData, AllSynced
    <3> QED BY <3>1, <3>2 DEF WithMarks
  <2>7. FileSync(s, i) = Rec(Q, s.pend, N, "OK") BY <2>1, <2>6, <1>WithMarksIs
  <2>8. SInv(Rec(Q, s.pend, N, "OK")) BY <2>5, RecIs
  <2> QED BY <2>7, <2>8
\* A value of file i, written past the log into a disk in which no other file has the block.
<1>DWrittenIs. ASSUME Known, NEW e, Good(e), NEW i \in Inum, NEW x \in Block, \A a \in Inum, j \in Nat : At(e.ino, x, a, j) => a = i
      PROVE  /\ NewData(e, DWritten(e, x, i))
             /\ \A b \in Block : b # x => DWritten(e, x, i).data[b] = e.data[b]
  <2> USE <1>DWrittenIs
  <2>1. PICK f, V, v, U : f = DWritten(e, x, i) /\ V = e.data /\ v = Overwrite(V[x], i) /\ U = SetAt(V, x, v) OBVIOUS
  <2>2. e \in Disk /\ V \in DataType BY <2>1, SMT DEF Good, Disk
  <2>3. V[x] \in Valus /\ i \in Val
    <3>1. V[x] \in Valus BY <2>2 DEF DataType
    <3> QED BY <3>1 DEF Known
  <2>4. v \in Valus /\ v.cur = i /\ v.old = Merge(V[x])
    <3>1. Merge(V[x]) \in SUBSET Val BY <2>3, SMT DEF Merge, Valus, ValuSet
    <3> QED BY <3>1, <2>1, <2>3, SMT DEF Overwrite, Valus, ValuSet
  <2>5. U \in DataType /\ U[x] = v /\ \A b \in Block : b # x => U[b] = V[b] BY <2>1, <2>2, <2>4 DEF SetAt, DataType
  <2>6. f = [e EXCEPT !.data = U]
    <3>1. [e EXCEPT !.data[x] = v] = [e EXCEPT !.data = [e.data EXCEPT ![x] = v]] OBVIOUS
    <3> QED BY <3>1, <2>1 DEF DWritten, SetAt
  <2>7. f \in Disk /\ f.ino = e.ino /\ f.dir = e.dir /\ f.free = e.free /\ f.data = U BY <2>2, <2>5, <2>6, SMT DEF Disk
  <2>8. Shows(e.ino, U)
    <3> SUFFICES ASSUME NEW a \in Inum, NEW b \in Block, NEW j \in Nat, At(e.ino, b, a, j)
                 PROVE  Merge(U[b]) \subseteq {Zero, a}
      BY DEF Shows
    <3>1. Merge(V[b]) \subseteq {Zero, a} BY <2>1 DEF Good, Shows
    <3>2. CASE b = x
      <4>1. a = i BY <3>2
      <4>2. Merge(U[b]) = {i} \cup Merge(V[x]) BY <3>2, <2>4, <2>5 DEF Merge
      <4> QED BY <4>1, <4>2, <3>1, <3>2
    <3>3. CASE b # x
      <4>1. U[b] = V[b] BY <3>3, <2>5
      <4> QED BY <4>1, <3>1
    <3> QED BY <3>2, <3>3
  <2> QED BY <2>1, <2>5, <2>7, <2>8 DEF NewData
<1>DirectInv. ASSUME Known, NEW s, SInv(s), NEW i \in Inum, NEW x \in Block, NEW k \in Nat, At(latest(s).ino, x, i, k)
      PROVE  SInv(WithMarks(s, AllDWritten(s.ds, x, i), i, s.ms.dblocks[i] \cup {x}))
  <2> USE <1>DirectInv
  <2>1. PICK D, Q, m, e, M, B, N :
          /\ D = s.ds /\ Q = AllDWritten(s.ds, x, i) /\ m = Len(s.ds) /\ e = latest(s) /\ M = s.ms
          /\ B = s.ms.dblocks[i] \cup {x} /\ N = SetDirtyOf(s.ms, i, B)
    OBVIOUS
  <2>2. D \in Seq(Disk) /\ AllGood(D) /\ SysOK(D, s.pend, M) /\ e = D[m] BY <2>1 DEF SInv, SysOK, latest
  <2>3. m \in 1 .. m /\ DOMAIN D = 1 .. m
    <3>1. m \in 1 .. m BY <2>1, BeginIs
    <3>2. DOMAIN D = 1 .. Len(D) BY <2>2, SMT
    <3> QED BY <3>1, <3>2, <2>1
  <2>4. M \in Mem /\ Good(e) /\ Clean(e.ino, M.dblocks, e.data) /\ Safe(D, M.al, e.ino, e.free) BY <2>1, NewestIs
  <2>5. B \in BlockSet
    <3>1. M.dblocks \in DirtyType BY <2>4, SMT DEF Mem
    <3> QED BY <3>1, <2>1 DEF DirtyType, BlockSet
  <2>6. Marks(M, i, B, N) BY <2>1, <2>4, <2>5, <1>SetDirtyIs
  <2>7. Q = [n \in DOMAIN D |-> Q[n]] /\ \A n \in DOMAIN D : Q[n] = DWritten(D[n], x, i) BY <2>1 DEF AllDWritten
  <2>8. ASSUME NEW n \in DOMAIN D
        PROVE  NewData(D[n], Q[n]) /\ \A b \in Block : b # x => Q[n].data[b] = D[n].data[b]
    <3>1. Good(D[n]) BY <2>1, <2>2, <2>3 DEF AllGood
    <3>2. SafeOne(D[n], M.al, e.ino, e.free) BY <2>4 DEF Safe
    <3>3. ASSUME NEW a \in Inum, NEW j \in Nat, At(D[n].ino, x, a, j) PROVE a = i
      <4>1. Owned(D[n].ino, x) BY <3>3 DEF Owned
      <4>2. At(e.ino, x, i, k) BY <2>1
      <4>3. At(D[n].ino, x, i, k) BY <4>1, <4>2, <3>2 DEF SafeOne
      <4> QED BY <4>3, <3>1, <3>3 DEF Good, Once
    <3>4. NewData(D[n], DWritten(D[n], x, i))
          /\ \A b \in Block : b # x => DWritten(D[n], x, i).data[b] = D[n].data[b]
      BY <3>1, <3>3, <1>DWrittenIs, SMT
    <3> QED BY <3>4, <2>7
  <2>9. AllNew(D, Q) BY <2>2, <2>7, <2>8, <1>AllNewIs
  <2>10. Clean(Q[m].ino, N.dblocks, Q[m].data)
    <3>1. Q[m].ino = e.ino /\ \A b \in Block : b # x => Q[m].data[b] = e.data[b] BY <2>2, <2>3, <2>8 DEF NewData
    <3> SUFFICES ASSUME NEW a \in Inum, NEW b \in Block, NEW j \in Nat, At(e.ino, b, a, j), b \notin N.dblocks[a]
                 PROVE  Q[m].data[b].old = {}
      BY <3>1 DEF Clean
    <3>2. b # x
      <4> SUFFICES ASSUME b = x PROVE FALSE OBVIOUS
      <4>1. At(e.ino, x, i, k) BY <2>1
      <4>2. a = i BY <4>1, <2>4 DEF Good, Once
      <4>3. x \in N.dblocks[i] BY <2>1, <2>6 DEF Marks
      <4> QED BY <4>2, <4>3
    <3>3. b \notin M.dblocks[a]
      <4>1. CASE a = i
        <5>1. N.dblocks[a] = B BY <4>1, <2>6 DEF Marks
        <5> QED BY <5>1, <4>1, <2>1
      <4>2. CASE a # i
        <5>1. N.dblocks[a] = M.dblocks[a] BY <4>2, <2>6 DEF Marks
        <5> QED BY <5>1
      <4> QED BY <4>1, <4>2
    <3>4. e.data[b].old = {} BY <3>3, <2>4 DEF Clean
    <3> QED BY <3>1, <3>2, <3>4
  <2>11. SysOK(Q, s.pend, N)
    <3>1. SameCaches(M, N) BY <2>6 DEF Marks
    <3>2. Clean(Q[Len(D)].ino, N.dblocks, Q[Len(D)].data) BY <2>1, <2>10
    <3> QED BY <3>1, <3>2, <2>2, <2>9, <1>DataInv
  <2>12. WithMarks(s, Q, i, B) = Rec(Q, s.pend, N, "OK") BY <2>1, <1>WithMarksIs
  <2>13. SInv(Rec(Q, s.pend, N, "OK")) BY <2>11, RecIs
  <2> QED BY <2>1, <2>12, <2>13
\* A block of a file of the newest disk.
<1>BlockOf. ASSUME NEW s, SInv(s), NEW i \in Inum, NEW off \in Nat, off < Len(latest(s).ino[i].blocks)
      PROVE  /\ latest(s).ino[i].blocks[off + 1] \in Block /\ off + 1 \in Nat
             /\ At(latest(s).ino, latest(s).ino[i].blocks[off + 1], i, off + 1)
  <2> USE <1>BlockOf
  <2>1. PICK I, q : I = latest(s).ino /\ q = latest(s).ino[i].blocks OBVIOUS
  <2>2. latest(s) \in Disk BY NewestIs DEF Good
  <2>3. I \in InoType BY <2>1, <2>2, SMT DEF Disk
  <2>4. I[i] \in InoRec BY <2>3 DEF InoType
  <2>5. q \in Seq(Block) BY <2>1, <2>4, SMT DEF InoRec, BlockSeq
  <2>6. off + 1 \in 1 .. Len(q) /\ off + 1 \in Nat BY <2>1, <2>5, SMT
  <2>7. q[off + 1] \in Block BY <2>5, <2>6, SMT
  <2> QED BY <2>1, <2>6, <2>7 DEF At
<1>UpdateFblockDInv. ASSUME Known, NEW s, SInv(s), NEW i \in Inum, NEW off \in Nat, off < Len(latest(s).ino[i].blocks)
      PROVE  SInv(UpdateFblockD(s, i, off, i))
  <2> USE <1>UpdateFblockDInv
  <2>1. PICK x, f, k : /\ x = latest(s).ino[i].blocks[off + 1] /\ k = off + 1
                       /\ f = IF <<"data", x>> \in UNION Range(s.pend) THEN FlushAll(s) ELSE s
    OBVIOUS
  <2>2. x \in Block /\ k \in Nat /\ At(latest(s).ino, x, i, k) BY <2>1, <1>BlockOf
  <2>3. SInv(f) /\ latest(f) = latest(s)
    <3>1. Flushes(s, FlushAll(s)) BY <1>FlushAllInv
    <3>2. PICK g, e, M, y : g = FlushAll(s) /\ e = latest(s) /\ M = s.ms /\ y = s.err OBVIOUS
    <3>3. SInv(g) /\ g = Rec(<<e>>, <<>>, M, y) BY <3>1, <3>2 DEF Flushes
    <3>4. g.ds = <<e>> BY <3>3, SMT DEF Rec
    <3>5. Len(<<e>>) = 1 /\ <<e>>[1] = e BY SMT
    <3>6. latest(g) = e BY <3>4, <3>5 DEF latest
    <3> QED BY <3>2, <3>3, <3>6, <2>1
  <2>4. UpdateFblockD(s, i, off, i) = WithMarks(f, AllDWritten(f.ds, x, i), i, f.ms.dblocks[i] \cup {x})
    <3>1. UpdateFblockD(s, i, off, i)
          = [f EXCEPT !.ds = [n \in DOMAIN @ |-> DWritten(@[n], x, i)],
                      !.ms.dblocks[i] = @ \cup {x}, !.err = "OK"]
      BY <2>1 DEF UpdateFblockD
    <3>3. PICK g : g = [f EXCEPT !.ds = AllDWritten(f.ds, x, i)] OBVIOUS
    <3>4. g.ms = f.ms
      <4>1. f = Rec(f.ds, f.pend, f.ms, f.err) BY <2>3 DEF SInv
      <4>2. PICK d, p, m, y, q : d = f.ds /\ p = f.pend /\ m = f.ms /\ y = f.err /\ q = AllDWritten(f.ds, x, i) OBVIOUS
      <4>3. f = Rec(d, p, m, y) /\ g = [f EXCEPT !.ds = q] BY <4>1, <4>2, <3>3
      <4>4. g.ms = m BY <4>3, SMT DEF Rec
      <4> QED BY <4>2, <4>4
    <3>5. [f EXCEPT !.ds = [n \in DOMAIN @ |-> DWritten(@[n], x, i)],
                    !.ms.dblocks[i] = @ \cup {x}, !.err = "OK"]
          = [g EXCEPT !.ms.dblocks[i] = g.ms.dblocks[i] \cup {x}, !.err = "OK"]
      BY <3>3 DEF AllDWritten
    <3>6. [g EXCEPT !.ms.dblocks[i] = g.ms.dblocks[i] \cup {x}, !.err = "OK"]
          = [g EXCEPT !.ms.dblocks[i] = f.ms.dblocks[i] \cup {x}, !.err = "OK"]
      BY <3>4
    <3>7. WithMarks(f, AllDWritten(f.ds, x, i), i, f.ms.dblocks[i] \cup {x})
          = [g EXCEPT !.ms.dblocks[i] = f.ms.dblocks[i] \cup {x}, !.err = "OK"]
      BY <3>3 DEF WithMarks
    <3> QED BY <3>1, <3>5, <3>6, <3>7
  <2>5. SInv(WithMarks(f, AllDWritten(f.ds, x, i), i, f.ms.dblocks[i] \cup {x})) BY <2>2, <2>3,
                                             <1>DirectInv
  <2> QED BY <2>4, <2>5
<1> QED BY <1>TreeSyncInv, <1>UmountInv, <1>FileSyncInv, <1>UpdateFblockDInv
      DEF TreeSyncInv, UmountInv, FileSyncInv, UpdateFblockDInv

\* recover, with the values that the crash left.
RecoverInv ==
  \A s, n, f :
     SInv(s) /\ n \in Exposed(s) /\ f \in CrashOutcomes(s.ds[n].data)
     => SInv(Recover(s, n, f))

\* mkfs: all blocks and all inodes but the root are free.
MkfsInv ==
  \A junk \in Val :
     SInv(Mkfs(junk))

\* mkfs makes a file system, and recovery makes one again after a crash.
LEMMA Starts ==
  RecoverInv /\ MkfsInv
\* The empty caches.
<1>MsEmptyIs. /\ MsEmpty \in Mem /\ MsEmpty.al = "data1" /\ (\A k \in Allocator : MsEmpty.list[k] = {})
      /\ DOMAIN MsEmpty.dcache = {} /\ (\A i \in Inum : MsEmpty.dblocks[i] = {})
  <2>1. PICK L, C, B : L = [k \in Allocator |-> {}] /\ C = EmptyMap /\ B = [i \in Inum |-> {}] OBVIOUS
  <2>2. L \in ListType /\ \A k \in Allocator : L[k] = {} BY <2>1 DEF ListType, ListSet
  <2>3. DOMAIN C = {} BY <2>1 DEF EmptyMap
  <2>4. C \in CacheType
    <3>1. C \in [{} -> DirMap] BY <2>1 DEF EmptyMap
    <3>2. {} \in SUBSET Inum OBVIOUS
    <3> QED BY <3>1, <3>2 DEF CacheType, Maps
  <2>5. B \in DirtyType /\ \A i \in Inum : B[i] = {} BY <2>1 DEF DirtyType, BlockSet
  <2>6. "data1" \in AlType BY SMT DEF AlType
  <2>7. PICK M : M = [al |-> "data1", list |-> L, dcache |-> C, dblocks |-> B] OBVIOUS
  <2>8. M \in Mem /\ M.al = "data1" /\ M.list = L /\ M.dcache = C /\ M.dblocks = B
    BY <2>2, <2>4, <2>5, <2>6, <2>7, SMT DEF Mem
  <2>9. MsEmpty = M BY <2>1, <2>7 DEF MsEmpty
  <2> QED BY <2>2, <2>3, <2>5, <2>8, <2>9
\* A disk without unsynced values, and no caches.
<1>FreshInv. ASSUME NEW e, Good(e), \A b \in Block : e.data[b].old = {}
      PROVE  SInv(Rec(<<e>>, <<>>, MsEmpty, "OK"))
  <2> USE <1>FreshInv
  <2>1. Clean(e.ino, MsEmpty.dblocks, e.data) BY DEF Clean
  <2>2. Lists(e.free, MsEmpty.list) BY <1>MsEmptyIs DEF Lists
  <2>3. Cached(MsEmpty.dcache, e.dir) BY <1>MsEmptyIs DEF Cached
  <2>4. MsEmpty \in Mem BY <1>MsEmptyIs
  <2>5. SysOK(<<e>>, <<>>, MsEmpty) BY <2>1, <2>2, <2>3, <2>4, OneDisk
  <2> QED BY <2>5, RecIs
\* recover, with the values that the crash left.
<1>RecoverInv. ASSUME NEW s, SInv(s), NEW n, n \in Exposed(s), NEW f, f \in CrashOutcomes(s.ds[n].data)
      PROVE  SInv(Recover(s, n, f))
  <2> USE <1>RecoverInv
  <2>1. PICK D, e, V, U, g : /\ D = s.ds /\ e = s.ds[n] /\ V = s.ds[n].data /\ U = Flushed(f)
                             /\ g = [s.ds[n] EXCEPT !.data = Flushed(f)]
    OBVIOUS
  <2>2. n \in DOMAIN D
    <3>1. D \in Seq(Disk) /\ Len(D) \in 1 .. Len(D) BY <2>1, BeginIs
    <3>2. DOMAIN D = 1 .. Len(D) /\ 1 \in DOMAIN D /\ Len(D) \in DOMAIN D BY <3>1, SMT
    <3>3. n \in DOMAIN D \/ n \in {1, Len(D)} BY <2>1 DEF Exposed
    <3> QED BY <3>2, <3>3
  <2>3. Good(e)
    <3>1. D \in Seq(Disk) /\ AllGood(D) BY <2>1 DEF SInv, SysOK
    <3>2. DOMAIN D = 1 .. Len(D) BY <3>1, SMT
    <3> QED BY <3>1, <3>2, <2>1, <2>2 DEF AllGood
  <2>4. e \in Disk /\ V \in DataType BY <2>1, <2>3, SMT DEF Good, Disk
  <2>5. DOMAIN V = Block /\ \A b \in Block : V[b] \in Valus BY <2>4 DEF DataType
  <2>6. DOMAIN f = Block /\ \A b \in Block : f[b] \in Merge(V[b]) BY <2>1, <2>5 DEF CrashOutcomes
  <2>7. U = [b \in Block |-> Settled(f[b])] BY <2>1, <2>6 DEF Flushed
  <2>8. \A b \in Block : f[b] \in Val /\ Settled(f[b]) \in Valus
    <3> SUFFICES ASSUME NEW b \in Block PROVE f[b] \in Val /\ Settled(f[b]) \in Valus OBVIOUS
    <3>1. V[b] \in Valus /\ f[b] \in Merge(V[b]) BY <2>5, <2>6
    <3>2. f[b] \in Val BY <3>1, SMT DEF Merge, Valus, ValuSet
    <3>3. Settled(f[b]) \in Valus BY <3>2, SMT DEF Settled, Valus, ValuSet
    <3> QED BY <3>2, <3>3
  <2>9. U \in DataType /\ \A b \in Block : U[b] = Settled(f[b]) BY <2>7, <2>8 DEF DataType
  <2>10. g \in Disk /\ g.ino = e.ino /\ g.dir = e.dir /\ g.free = e.free /\ g.data = U
    <3>1. g = [e EXCEPT !.data = U] BY <2>1
    <3> QED BY <3>1, <2>4, <2>9, SMT DEF Disk
  <2>11. Shows(e.ino, U)
    <3> SUFFICES ASSUME NEW a \in Inum, NEW b \in Block, NEW j \in Nat, At(e.ino, b, a, j)
                 PROVE  Merge(U[b]) \subseteq {Zero, a}
      BY DEF Shows
    <3>1. Merge(V[b]) \subseteq {Zero, a} BY <2>1, <2>3 DEF Good, Shows
    <3>2. Merge(U[b]) = {f[b]} BY <2>9, SettledIs
    <3> QED BY <3>1, <3>2, <2>6
  <2>12. Good(g) BY <2>3, <2>10, <2>11 DEF Good
  <2>13. \A b \in Block : g.data[b].old = {} BY <2>9, <2>10, SettledIs
  <2>14. SInv(Rec(<<g>>, <<>>, MsEmpty, "OK")) BY <2>12, <2>13, <1>FreshInv
  <2>15. Recover(s, n, f) = Rec(<<g>>, <<>>, MsEmpty, "OK") BY <2>1 DEF Recover, Rec
  <2> QED BY <2>14, <2>15
\* mkfs: all blocks and all inodes but the root are free.
<1>MkfsInv. ASSUME NEW junk \in Val
      PROVE  SInv(Mkfs(junk))
  <2> USE <1>MkfsInv
  <2>1. PICK I, E, F, V, e :
          /\ I = [i \in Inum |-> NoInode] /\ E = [i \in Inum |-> EmptyMap]
          /\ F = [data1 |-> Block \ Moved, data2 |-> Moved, inode |-> Inum \ {Root}]
          /\ V = [b \in Block |-> Settled(junk)]
          /\ e = [ino |-> I, dir |-> E, free |-> F, data |-> V]
    OBVIOUS
  <2>2. Mkfs(junk) = Rec(<<e>>, <<>>, MsEmpty, "OK") BY <2>1 DEF Mkfs, Rec
  <2>3. I \in InoType /\ \A i \in Inum : I[i].blocks = <<>> /\ Len(I[i].blocks) = 0
    <3>1. NoInode \in InoRec /\ NoInode.blocks = <<>> /\ Len(NoInode.blocks) = 0 BY SMT DEF NoInode, InoRec, BlockSeq
    <3>2. \A i \in Inum : I[i] = NoInode BY <2>1
    <3>3. I \in InoType BY <3>1, <2>1 DEF InoType
    <3> QED BY <3>1, <3>2, <3>3
  <2>4. E \in DirType /\ \A d \in Inum : DOMAIN E[d] = {}
    <3>1. EmptyMap \in [{} -> Entry] /\ DOMAIN EmptyMap = {} BY DEF EmptyMap
    <3>2. {} \in SUBSET Name OBVIOUS
    <3>3. EmptyMap \in DirMap BY <3>1, <3>2 DEF DirMap, Maps
    <3> QED BY <3>1, <3>3, <2>1 DEF DirType
  <2>5. Moved \subseteq Block BY DEF Moved
  <2>6. F["data1"] = Block \ Moved /\ F["data2"] = Moved /\ F["inode"] = Inum \ {Root} BY <2>1, SMT
  <2>7. F \in FreeType
    <3>1. DOMAIN F = {"data1", "data2", "inode"} BY <2>1, SMT
    <3>2. \A k \in Allocator : F[k] \in FreeSet BY <2>5, <2>6 DEF Allocator, FreeSet, Item
    <3>3. F = [k \in Allocator |-> F[k]] BY <3>1, <2>1, SMT DEF Allocator
    <3> QED BY <3>2, <3>3 DEF FreeType
  <2>8. V \in DataType /\ \A b \in Block : V[b] = Settled(junk)
    <3>2. Settled(junk) \in Valus BY SMT DEF Settled, Valus, ValuSet
    <3> QED BY <3>2, <2>1 DEF DataType
  <2>9. e \in Disk /\ e.ino = I /\ e.dir = E /\ e.free = F /\ e.data = V BY <2>1, <2>3, <2>4, <2>7, <2>8, SMT DEF Disk
  <2>10. \A b, j : \A i \in Inum : ~At(I, b, i, j)
    <3>1. \A j : j \notin 1 .. 0 BY SMT
    <3> QED BY <3>1, <2>3 DEF At
  <2>11. Once(I) /\ Shows(I, V) BY <2>10 DEF Once, Shows
  <2>12. Pooled(I, F, "data1")
    <3>1. Other("data1") = "data2" BY DEF Other
    <3>2. \A b : ~Owned(I, b) BY <2>10 DEF Owned
    <3> QED BY <3>1, <3>2, <2>6 DEF Pooled
  <2>13. Kinds(F) BY <2>5, <2>6 DEF Kinds
  <2>14. Short(I)
    <3>1. 0 <= NBlocks BY Constants, SMT
    <3> QED BY <3>1, <2>3 DEF Short
  <2>15. Tree(E, F["inode"], 0, FALSE)
    <3>1. PICK N : N = F["inode"] OBVIOUS
    <3>2. N = Inum \ {Root} /\ 0 \notin Inum /\ Root \in Inum BY <3>1, <2>6, Constants
    <3>3. \A d \in Inum : \A n, i : ~Ent(E, d, n, i) BY <2>4 DEF Ent
    <3>4. Loners(N, 0) BY <3>2 DEF Loners
    <3>5. Unique(E) /\ Targets(E, N, 0) /\ Parents(E, 0, FALSE) BY <3>3 DEF Unique, Targets, Parents
    <3>6. Rooted(E, N, 0) BY <3>2 DEF Rooted
    <3> QED BY <3>1, <3>4, <3>5, <3>6 DEF Tree
  <2>16. Good(e) BY <2>9, <2>11, <2>12, <2>13, <2>14, <2>15 DEF Good
  <2>17. \A b \in Block : e.data[b].old = {} BY <2>8, <2>9, SettledIs
  <2>18. SInv(Rec(<<e>>, <<>>, MsEmpty, "OK")) BY <2>16, <2>17, <1>FreshInv
  <2> QED BY <2>2, <2>18
<1> QED BY <1>RecoverInv, <1>MkfsInv
      DEF RecoverInv, MkfsInv

=============================================================================
