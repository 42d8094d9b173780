----------------------------- MODULE Xv6SysProofs -----------------------------
(***************************************************************************)
(* Proofs about the system calls of xv6, for any number of inodes, blocks, *)
(* open files, names and transactions: link counts, block ownership and    *)
(* the life of inodes stay right through every call, every failure and     *)
(* every crash.                                                            *)
(*                                                                         *)
(* The first part shows what the operations of Xv6Fs do to a sound file    *)
(* system (unlink, link, create, itrunc, iput and writei keep link counts  *)
(* and block ownership right), the second what the system calls make of    *)
(* them.                                                                   *)
(***************************************************************************)
EXTENDS Xv6Sys, FiniteSetTheorems, TLAPS

\* Zenon proves the steps that name no other prover.
USE Zenon

\* Inodes, entries and bitmap have their types.
FsType ==
  [inode : [Inum -> Inode], ents : [Inum -> [Name -> Inum \cup {NoInode}]], used : SUBSET Block]

\* Link counts are what the entries make them, and only a directory has any.
LinkOK(f, i) ==
  /\ f.inode[i].type = "free" => Entries(f, i) = {}
  /\ f.inode[i].type \in {"file", "sock"} => f.inode[i].nlink = Cardinality(Entries(f, i))
  /\ IsDir(f, i) => /\ f.inode[i].nlink = 1 + Cardinality(Subdirs(f, i))
                    /\ Cardinality(Entries(f, i)) = IF i = ROOTINO THEN 0 ELSE 1
  /\ ~IsDir(f, i) => f.ents[i] = NoEntries
LinksOK(f) == IsDir(f, ROOTINO) /\ \A i \in Inum : LinkOK(f, i)

\* Block b is the one at bn of inode i.
Has(f, i, bn, b) == f.inode[i].addrs[bn] = b /\ b # NoBlock
Pos == 0..(MaxFile - 1)

\* The bitmap marks the blocks of the inodes, each of one inode and one place;
\* blocks below the size are there, and a free inode has none.
Bitmap(f) == \A b : b \in f.used <=> \E i \in Inum, bn \in Pos : Has(f, i, bn, b)
OwnedOnce(f) ==
  \A i, j \in Inum, bn, bm \in Pos, b \in Block : Has(f, i, bn, b) /\ Has(f, j, bm, b) => i = j /\ bn = bm
Filled(f, i) == \A bn \in Pos : bn < f.inode[i].size => f.inode[i].addrs[bn] # NoBlock
FreeIsEmpty(f, i) == \A bn \in Pos : f.inode[i].type = "free" => f.inode[i].addrs[bn] = NoBlock
BlocksOK(f) ==
  /\ Bitmap(f) /\ OwnedOnce(f)
  /\ \A i \in Inum : Filled(f, i) /\ FreeIsEmpty(f, i)

FsOK(f) == f \in FsType /\ LinksOK(f) /\ BlocksOK(f)

-----------------------------------------------------------------------------
\* The parts of a file system and of an inode, and a function changed in one
\* place: the operations of Xv6Fs are made of these.
Fs(I, E, U) == [inode |-> I, ents |-> E, used |-> U]
Node(t, l, s, a) == [type |-> t, nlink |-> l, size |-> s, addrs |-> a]
SetAt(F, i, x) == [F EXCEPT ![i] = x]

\* Inodes whose link count may be wrong: an operation passes through them.
Types == {"free", "dir", "file", "sock"}
AddrsType == [Pos -> Block \cup {NoBlock}]
Raw == [type : Types, nlink : Int, size : 0..MaxFile, addrs : AddrsType]
EntsType == [Inum -> [Name -> Inum \cup {NoInode}]]
RawMap == [Inum -> Raw]
BlockSet == SUBSET Block

\* The constants of Xv6Fs, and what is not a number of an inode or a block.
LEMMA Constants ==
  /\ NInodes \in Nat /\ NBlocks \in Nat /\ MaxFile \in Nat /\ IsFiniteSet(Name)
  /\ ROOTINO \in Inum /\ NoInode \notin Inum /\ NoBlock \notin Block
  /\ IsFiniteSet(Inum) /\ IsFiniteSet(Block) /\ IsFiniteSet(Inum \X Name)
<1>1. NInodes \in Nat /\ NInodes # 0 /\ NBlocks \in Nat /\ MaxFile \in Nat /\ IsFiniteSet(Name)
  BY Xv6FsAssumption
<1>2. ROOTINO \in Inum /\ NoInode \notin Inum /\ NoBlock \notin Block
  BY <1>1, SMT DEF ROOTINO, NoInode, NoBlock, Inum, Block
<1>3. IsFiniteSet(Inum) /\ IsFiniteSet(Block)
  <2>1. 1 \in Int /\ NInodes \in Int /\ NBlocks \in Int BY <1>1, SMT
  <2> QED BY <2>1, FS_Interval DEF Inum, Block
<1>4. IsFiniteSet(Inum \X Name) BY <1>1, <1>3, FS_Product
<1> QED BY <1>1, <1>2, <1>3, <1>4

\* The inodes changed at one number, the entries at one directory and name.
IRef == Inum \cup {NoInode}
RowType == [Name -> IRef]

NodeSet(I, J, i, x) == J \in RawMap /\ J[i] = x /\ \A j \in Inum : j # i => J[j] = I[j]

\* Writing one inode changes that inode and no other.
LEMMA SetNode ==
  ASSUME NEW I \in RawMap, NEW i \in Inum, NEW x \in Raw
  PROVE  NodeSet(I, SetAt(I, i, x), i, x)
BY DEF SetAt, NodeSet, RawMap

Changed(E, F, d, n, i) ==
  /\ F \in EntsType /\ F[d][n] = i
  /\ \A a \in Inum, b \in Name : a # d \/ b # n => F[a][b] = E[a][b]

\* dirlink and the clearing of an entry change one name of one directory.
LEMMA SetEntry ==
  ASSUME NEW E \in EntsType, NEW d \in Inum, NEW n \in Name, NEW i \in IRef
  PROVE  Changed(E, SetAt(E, d, SetAt(E[d], n, i)), d, n, i)
<1> DEFINE R == SetAt(E[d], n, i)
           F == SetAt(E, d, R)
<1>1. R \in RowType /\ R[n] = i /\ \A b \in Name : b # n => R[b] = E[d][b]
  BY DEF SetAt, EntsType, RowType, IRef
<1>2. F \in EntsType /\ F[d] = R /\ \A a \in Inum : a # d => F[a] = E[a]
  <2> HIDE DEF R
  <2> QED BY <1>1 DEF SetAt, EntsType, RowType, IRef
<1> HIDE DEF R, F
<1>3. F[d][n] = i BY <1>1, <1>2
<1>4. \A a \in Inum, b \in Name : a # d \/ b # n => F[a][b] = E[a][b] BY <1>1, <1>2
<1> QED BY <1>2, <1>3, <1>4 DEF R, F, Changed

\* The fields of an inode and of a file system.
LEMMA NodeIs ==
  ASSUME NEW t, NEW l, NEW s, NEW a
  PROVE  /\ Node(t, l, s, a).type = t /\ Node(t, l, s, a).nlink = l
         /\ Node(t, l, s, a).size = s /\ Node(t, l, s, a).addrs = a
         /\ t \in Types /\ l \in Int /\ s \in 0..MaxFile /\ a \in AddrsType => Node(t, l, s, a) \in Raw
         /\ t \in Types /\ l \in Nat /\ s \in 0..MaxFile /\ a \in AddrsType => Node(t, l, s, a) \in Inode
BY DEF Node, Raw, Inode, Types, AddrsType, Pos

\* An inode is made of its four fields.
LEMMA RawIs ==
  ASSUME NEW x \in Raw
  PROVE  /\ x.type \in Types /\ x.nlink \in Int /\ x.size \in 0..MaxFile /\ x.addrs \in AddrsType
         /\ x = Node(x.type, x.nlink, x.size, x.addrs)
         /\ x.nlink \in Nat => x \in Inode
BY DEF Raw, Node, Inode, Types, AddrsType, Pos

\* The inodes between two calls have a link count that is not negative.
LEMMA InodeIs ==
  ASSUME NEW x \in Inode
  PROVE  x \in Raw /\ x.nlink \in Nat
BY SMT DEF Raw, Inode, Types, AddrsType, Pos

\* A file system is made of its inodes, entries and bitmap.
LEMMA FsParts ==
  ASSUME NEW f \in FsType
  PROVE  /\ f = Fs(f.inode, f.ents, f.used)
         /\ f.inode \in [Inum -> Inode]
         /\ f.inode \in RawMap /\ f.ents \in EntsType /\ f.used \in BlockSet
<1>1. f = Fs(f.inode, f.ents, f.used) BY DEF Fs, FsType
<1>2. f.inode \in [Inum -> Inode] /\ f.ents \in EntsType /\ f.used \subseteq Block
  BY DEF FsType, EntsType
<1>3. f.inode \in [Inum -> Raw]
  <2>1. \A i \in Inum : f.inode[i] \in Inode BY <1>2
  <2>2. \A i \in Inum : f.inode[i] \in Raw BY <2>1, InodeIs
  <2> QED BY <1>2, <2>2
<1> QED BY <1>1, <1>2, <1>3 DEF BlockSet, RawMap

\* What one number of a file system holds.
LEMMA FsPoint ==
  ASSUME NEW f \in FsType, NEW j \in Inum
  PROVE  /\ f.inode[j] \in Raw /\ f.inode[j].type \in Types /\ f.inode[j].nlink \in Nat
         /\ f.inode[j].size \in 0..MaxFile /\ f.inode[j].addrs \in AddrsType
         /\ f.ents[j] \in RowType
         /\ \A n \in Name : f.ents[j][n] \in Inum \/ f.ents[j][n] = NoInode
<1>1. f.inode \in [Inum -> Inode] /\ f.ents \in EntsType BY FsParts
<1>2. f.inode[j] \in Inode BY <1>1
<1>3. f.inode[j] \in Raw /\ f.inode[j].nlink \in Nat BY <1>2, InodeIs
<1>4. f.ents[j] \in RowType /\ \A n \in Name : f.ents[j][n] \in Inum \/ f.ents[j][n] = NoInode
  BY <1>1 DEF EntsType, RowType, IRef
<1> QED BY <1>3, <1>4, RawIs

\* itrunc leaves an inode without blocks.
LEMMA NoAddrsIs == NoAddrs \in AddrsType /\ \A bn \in Pos : NoAddrs[bn] = NoBlock
BY DEF NoAddrs, AddrsType, Pos

\* A new directory has no entry.
LEMMA NoEntriesIs ==
  /\ NoEntries \in [Name -> Inum \cup {NoInode}]
  /\ \A n \in Name : NoEntries[n] = NoInode
BY DEF NoEntries

-----------------------------------------------------------------------------
\* What the operations make of a file system, part by part.
LEMMA AddLinksForm ==
  ASSUME NEW I \in RawMap, NEW E \in EntsType, NEW U \in BlockSet, NEW i \in Inum, NEW k \in Int
  PROVE  AddLinks(Fs(I, E, U), i, k)
           = Fs(SetAt(I, i, Node(I[i].type, I[i].nlink + k, I[i].size, I[i].addrs)), E, U)
<1>0. I \in RawMap /\ I[i] \in Raw BY DEF RawMap
<1>1. I[i] = Node(I[i].type, I[i].nlink, I[i].size, I[i].addrs) BY <1>0, RawIs
<1>2. [I[i] EXCEPT !.nlink = @ + k] = Node(I[i].type, I[i].nlink + k, I[i].size, I[i].addrs)
  BY <1>1, SMT DEF Node
<1>3. AddLinks(Fs(I, E, U), i, k) = [Fs(I, E, U) EXCEPT !.inode = SetAt(I, i, [I[i] EXCEPT !.nlink = @ + k])]
  BY DEF AddLinks, Fs, SetAt
<1> QED BY <1>2, <1>3 DEF Fs

\* dirlink changes the entries alone.
LEMMA DirLinkForm ==
  ASSUME NEW I \in RawMap, NEW E \in EntsType, NEW U \in BlockSet, NEW d \in Inum, NEW n \in Name, NEW i
  PROVE  DirLink(Fs(I, E, U), d, n, i) = Fs(I, SetAt(E, d, SetAt(E[d], n, i)), U)
<1> DEFINE F == Fs(I, E, U)
<1>1. F.ents = E BY DEF Fs
<1>2. \A X : [F EXCEPT !.ents = X] = Fs(I, X, U) BY SMT DEF Fs
<1>3. DirLink(F, d, n, i) = [F EXCEPT !.ents = SetAt(F.ents, d, SetAt(F.ents[d], n, i))]
  <2> HIDE DEF F
  <2> QED BY DEF DirLink, SetAt
<1> HIDE DEF F
<1> QED BY <1>1, <1>2, <1>3 DEF F

\* itrunc, in the order of its assignments.
LEMMA ITruncForm ==
  ASSUME NEW I \in RawMap, NEW E \in EntsType, NEW U \in BlockSet, NEW i \in Inum
  PROVE  ITrunc(Fs(I, E, U), i)
           = Fs(SetAt(I, i, Node(I[i].type, I[i].nlink, 0, NoAddrs)), E, U \ Addrs(I[i]))
<1> DEFINE F == Fs(I, E, U)
           V == U \ Addrs(I[i])
           x == I[i]
           F1 == Fs(I, E, V)
           y == [x EXCEPT !.addrs = NoAddrs]
           F2 == Fs(SetAt(I, i, y), E, V)
           z == [y EXCEPT !.size = 0]
<1>1. F.inode = I /\ F.used = U /\ F1.inode = I /\ F2.inode = SetAt(I, i, y) BY DEF Fs
<1>2. [F EXCEPT !.used = V] = F1 BY SMT DEF Fs
<1>3. \A X : [F1 EXCEPT !.inode = X] = Fs(X, E, V) BY SMT DEF Fs
<1>4. \A X : [F2 EXCEPT !.inode = X] = Fs(X, E, V)
  <2> HIDE DEF V, y
  <2> QED BY SMT DEF Fs
<1>5. ITrunc(F, i) = [[[F EXCEPT !.used = F.used \ Addrs(F.inode[i])]
                         EXCEPT !.inode[i].addrs = NoAddrs] EXCEPT !.inode[i].size = 0]
  <2> HIDE DEF F
  <2> QED BY DEF ITrunc
<1>6. ITrunc(F, i) = [[F1 EXCEPT !.inode[i].addrs = NoAddrs] EXCEPT !.inode[i].size = 0]
  <2> HIDE DEF F, F1
  <2> QED BY <1>1, <1>2, <1>5
<1>7. [F1 EXCEPT !.inode[i].addrs = NoAddrs] = F2
  <2>1. [F1 EXCEPT !.inode[i].addrs = NoAddrs] = [F1 EXCEPT !.inode = SetAt(I, i, y)]
    <3> HIDE DEF F1
    <3> QED BY <1>1 DEF SetAt
  <2> HIDE DEF F1, y
  <2> QED BY <2>1, <1>3
<1>8. SetAt(I, i, y)[i] = y
  <2> HIDE DEF y
  <2> QED BY DEF SetAt, RawMap
<1>9. [F2 EXCEPT !.inode[i].size = 0] = [F2 EXCEPT !.inode = SetAt(SetAt(I, i, y), i, z)]
  <2>1. [F2 EXCEPT !.inode[i].size = 0] = [F2 EXCEPT !.inode = SetAt(F2.inode, i, [F2.inode[i] EXCEPT !.size = 0])]
    <3> HIDE DEF F2
    <3> QED BY DEF SetAt
  <2> HIDE DEF F2, y
  <2> QED BY <2>1, <1>1, <1>8
<1>10. SetAt(SetAt(I, i, y), i, z) = SetAt(I, i, z)
  <2> HIDE DEF y, z
  <2> QED BY DEF SetAt
<1>11. z = Node(x.type, x.nlink, 0, NoAddrs)
  <2>1. x = Node(x.type, x.nlink, x.size, x.addrs)
    <3>1. x \in Raw BY DEF RawMap
    <3> HIDE DEF x
    <3> QED BY <3>1, RawIs
  <2> HIDE DEF x
  <2>2. y = Node(x.type, x.nlink, x.size, NoAddrs) BY <2>1, SMT DEF Node
  <2> HIDE DEF y
  <2> QED BY <2>2, SMT DEF Node
<1> HIDE DEF F, F1, F2, y, z
<1>12. ITrunc(F, i) = Fs(SetAt(I, i, z), E, V)
  <2> HIDE DEF V, x
  <2> QED BY <1>4, <1>6, <1>7, <1>9, <1>10
<1> QED BY <1>11, <1>12 DEF F

\* iput of an inode without links frees it and its blocks.
LEMMA IPutForm ==
  ASSUME NEW I \in RawMap, NEW E \in EntsType, NEW U \in BlockSet, NEW i \in Inum
  PROVE  /\ I[i].nlink # 0 => IPut(Fs(I, E, U), i) = Fs(I, E, U)
         /\ I[i].nlink = 0 =>
              IPut(Fs(I, E, U), i) = Fs(SetAt(I, i, Node("free", 0, 0, NoAddrs)), E, U \ Addrs(I[i]))
<1> DEFINE x == Node(I[i].type, I[i].nlink, 0, NoAddrs)
           J == SetAt(I, i, x)
           V == U \ Addrs(I[i])
           F == Fs(I, E, U)
           G == Fs(J, E, V)
<1>1. F.inode = I /\ G.inode = J BY DEF Fs
<1>2. ITrunc(F, i) = G BY ITruncForm, ZenonT(40)
<1>3. J[i] = x
  <2> HIDE DEF x
  <2> QED BY DEF SetAt, RawMap
<1>4. [G EXCEPT !.inode[i].type = "free"] = [G EXCEPT !.inode = SetAt(G.inode, i, [G.inode[i] EXCEPT !.type = "free"])]
  <2> HIDE DEF G
  <2> QED BY DEF SetAt
<1>5. [x EXCEPT !.type = "free"] = Node("free", I[i].nlink, 0, NoAddrs) BY SMT DEF Node
<1>6. \A X : [G EXCEPT !.inode = X] = Fs(X, E, V)
  <2> HIDE DEF J, V
  <2> QED BY SMT DEF Fs
<1>7. \A y : SetAt(J, i, y) = SetAt(I, i, y) BY DEF SetAt
<1>8. IPut(F, i) = IF F.inode[i].nlink # 0 THEN F ELSE [ITrunc(F, i) EXCEPT !.inode[i].type = "free"]
  <2> HIDE DEF F
  <2> QED BY DEF IPut
<1> HIDE DEF F, G, J, V, x
<1>9. [G EXCEPT !.inode[i].type = "free"] = Fs(SetAt(I, i, Node("free", I[i].nlink, 0, NoAddrs)), E, V)
  BY <1>1, <1>3, <1>4, <1>5, <1>6, <1>7, ZenonT(40)
<1>10. ASSUME I[i].nlink # 0 PROVE IPut(F, i) = F BY <1>1, <1>8, <1>10
<1>11. ASSUME I[i].nlink = 0 PROVE IPut(F, i) = Fs(SetAt(I, i, Node("free", 0, 0, NoAddrs)), E, V)
  <2>1. IPut(F, i) = [G EXCEPT !.inode[i].type = "free"] BY <1>1, <1>2, <1>8, <1>11
  <2> QED BY <2>1, <1>9, <1>11
<1> QED BY <1>10, <1>11 DEF F, V

-----------------------------------------------------------------------------
\* Entries and subdirectories of a finite file system are finitely many.
LEMMA FiniteEntries ==
  ASSUME NEW f, NEW i
  PROVE  /\ IsFiniteSet(Entries(f, i)) /\ Cardinality(Entries(f, i)) \in Nat
         /\ IsFiniteSet(Subdirs(f, i)) /\ Cardinality(Subdirs(f, i)) \in Nat
<1>1. Entries(f, i) \in SUBSET (Inum \X Name) BY DEF Entries
<1>2. Subdirs(f, i) \in SUBSET Name BY DEF Subdirs
<1>3. IsFiniteSet(Entries(f, i)) /\ IsFiniteSet(Subdirs(f, i))
  BY <1>1, <1>2, Constants, FS_Subset
<1> QED BY <1>3, FS_CardinalityType

\* Membership in Entries.
LEMMA EntriesIs ==
  ASSUME NEW f, NEW i, NEW d \in Inum, NEW n \in Name
  PROVE  <<d, n>> \in Entries(f, i) <=> f.ents[d][n] = i
<1>1. <<d, n>> \in Inum \X Name /\ <<d, n>>[1] = d /\ <<d, n>>[2] = n OBVIOUS
<1> QED BY <1>1 DEF Entries

\* One entry of directory d changes from x to y: y gains it and x loses it.
EntriesMoved(f, g, x, y) ==
  /\ Cardinality(Entries(g, y)) = Cardinality(Entries(f, y)) + 1
  /\ Cardinality(Entries(g, x)) = Cardinality(Entries(f, x)) - 1
  /\ \A j : j # y /\ j # x => Entries(g, j) = Entries(f, j)

\* dirlink and the clearing of an entry move one entry from x to y.
LEMMA EntriesChange ==
  ASSUME NEW f, NEW g, NEW d \in Inum, NEW n \in Name, NEW y, NEW x, x = f.ents[d][n], y # x,
         Changed(f.ents, g.ents, d, n, y)
  PROVE  EntriesMoved(f, g, x, y)
<1>4. g.ents[d][n] = y BY DEF Changed
<1>5. \A a \in Inum, b \in Name : a # d \/ b # n => g.ents[a][b] = f.ents[a][b] BY DEF Changed
<1>6. x = f.ents[d][n] /\ x # y OBVIOUS
<1>7. ASSUME NEW e \in Inum \X Name, e # <<d, n>> PROVE g.ents[e[1]][e[2]] = f.ents[e[1]][e[2]]
  <2>1. e[1] \in Inum /\ e[2] \in Name /\ (e[1] # d \/ e[2] # n) BY <1>7, SMT
  <2> QED BY <2>1, <1>5
<1>8. <<d, n>> \in Inum \X Name /\ g.ents[<<d, n>>[1]][<<d, n>>[2]] = y /\ f.ents[<<d, n>>[1]][<<d, n>>[2]] = x
  BY <1>4, <1>6
<1> DEFINE p == <<d, n>>
<1> HIDE DEF p
<1>9. p \in Inum \X Name /\ g.ents[p[1]][p[2]] = y /\ f.ents[p[1]][p[2]] = x BY <1>8 DEF p
<1>10. \A e \in Inum \X Name : e # p => g.ents[e[1]][e[2]] = f.ents[e[1]][e[2]] BY <1>7 DEF p
<1>11. Entries(g, y) = Entries(f, y) \cup {p} /\ p \notin Entries(f, y)
  BY <1>6, <1>9, <1>10 DEF Entries
<1>12. Entries(g, x) = Entries(f, x) \ {p} /\ p \in Entries(f, x)
  BY <1>6, <1>9, <1>10 DEF Entries
<1>13. \A j : j # y /\ j # x => Entries(g, j) = Entries(f, j)
  BY <1>6, <1>9, <1>10 DEF Entries
<1>14. Cardinality(Entries(g, y)) = Cardinality(Entries(f, y)) + 1
  <2>1. IsFiniteSet(Entries(f, y)) BY FiniteEntries
  <2> QED BY <2>1, <1>11, FS_AddElement
<1>15. Cardinality(Entries(g, x)) = Cardinality(Entries(f, x)) - 1
  <2>1. IsFiniteSet(Entries(f, x)) BY FiniteEntries
  <2> QED BY <2>1, <1>12, FS_RemoveElement
<1> QED BY <1>13, <1>14, <1>15 DEF EntriesMoved

\* An inode with one entry has no other.
LEMMA OneEntry ==
  ASSUME NEW f, NEW i, Cardinality(Entries(f, i)) = 1,
         NEW d \in Inum, NEW n \in Name, f.ents[d][n] = i,
         NEW a \in Inum, NEW b \in Name, f.ents[a][b] = i
  PROVE  a = d /\ b = n
<1>1. <<d, n>> \in Entries(f, i) /\ <<a, b>> \in Entries(f, i) BY EntriesIs
<1>2. IsFiniteSet(Entries(f, i)) BY FiniteEntries
<1>3. PICK x : Entries(f, i) = {x} BY <1>2, FS_Singleton
<1>4. <<d, n>> = <<a, b>> BY <1>1, <1>3
<1> QED BY <1>4

\* An inode that has an entry has a positive count of them.
LEMMA SomeEntry ==
  ASSUME NEW f, NEW i, NEW d \in Inum, NEW n \in Name, f.ents[d][n] = i
  PROVE  Cardinality(Entries(f, i)) # 0 /\ Entries(f, i) # {}
<1>1. <<d, n>> \in Entries(f, i) BY EntriesIs
<1>2. IsFiniteSet(Entries(f, i)) BY FiniteEntries
<1> QED BY <1>1, <1>2, FS_EmptySet

-----------------------------------------------------------------------------
\* Inode y is x with k more links.
Same(x, y, k) == y.type = x.type /\ y.size = x.size /\ y.addrs = x.addrs /\ y.nlink = x.nlink + k

Freed == Node("free", 0, 0, NoAddrs)

\* What sys_dounlink leaves of inode i, whose entry n of directory d goes.
Unlinked(f, g, d, n, i, freed) ==
  /\ g = Fs(g.inode, g.ents, g.used)
  /\ g.inode \in RawMap
  /\ Changed(f.ents, g.ents, d, n, NoInode)
  /\ \A j \in Inum : j # i => Same(f.inode[j], g.inode[j], IF j = d /\ IsDir(f, i) THEN -1 ELSE 0)
  /\ IF freed
     THEN g.inode[i] = Freed /\ g.used = f.used \ Addrs(f.inode[i])
     ELSE Same(f.inode[i], g.inode[i], -1) /\ g.used = f.used

\* The fields of an inode that iput has freed.
LEMMA FreedIs ==
  /\ Freed \in Raw /\ Freed \in Inode
  /\ Freed.type = "free" /\ Freed.nlink = 0 /\ Freed.size = 0 /\ Freed.addrs = NoAddrs
<1>1. "free" \in Types /\ 0 \in Nat /\ 0 \in Int /\ 0 \in 0..MaxFile BY Constants, SMT DEF Types
<1>2. Freed.type = "free" /\ Freed.nlink = 0 /\ Freed.size = 0 /\ Freed.addrs = NoAddrs
  BY NodeIs, SMT DEF Freed
<1> QED BY <1>1, <1>2, NoAddrsIs, NodeIs DEF Freed

\* An inode whose link count changes.
LEMMA Relink ==
  ASSUME NEW x \in Raw, NEW k \in Int
  PROVE  /\ Node(x.type, x.nlink + k, x.size, x.addrs) \in Raw
         /\ Same(x, Node(x.type, x.nlink + k, x.size, x.addrs), k)
         /\ Addrs(Node(x.type, x.nlink + k, x.size, x.addrs)) = Addrs(x)
         /\ Same(x, x, 0)
<1>1. x.type \in Types /\ x.nlink \in Int /\ x.size \in 0..MaxFile /\ x.addrs \in AddrsType BY RawIs
<1>2. x.nlink + k \in Int /\ x.nlink + 0 = x.nlink BY <1>1, SMT
<1> DEFINE l == x.nlink + k
<1> HIDE DEF l
<1>3. /\ Node(x.type, l, x.size, x.addrs) \in Raw
      /\ Node(x.type, l, x.size, x.addrs).type = x.type
      /\ Node(x.type, l, x.size, x.addrs).nlink = l
      /\ Node(x.type, l, x.size, x.addrs).size = x.size
      /\ Node(x.type, l, x.size, x.addrs).addrs = x.addrs
  BY <1>1, <1>2, NodeIs, SMT DEF l
<1> QED BY <1>2, <1>3 DEF l, Same, Addrs

\* sys_dounlink clears the entry, lowers the counts, and frees what nobody refers to.
LEMMA DoUnlinkForm ==
  ASSUME NEW f \in FsType, NEW d \in Inum, NEW n \in Name, NEW i \in Inum, i = f.ents[d][n], i # d, NEW refs
  PROVE  Unlinked(f, DoUnlink(f, d, n, refs), d, n, i, refs[i] = 0 /\ f.inode[i].nlink = 1)
<1> DEFINE I == f.inode
           E == f.ents
           U == f.used
           E2 == SetAt(E, d, SetAt(E[d], n, NoInode))
           g == DirLink(f, d, n, NoInode)
           k == IF IsDir(f, i) THEN -1 ELSE 0
           g1 == IF IsDir(f, i) THEN AddLinks(g, d, -1) ELSE g
           h == AddLinks(g1, i, -1)
<1>1. f = Fs(I, E, U) /\ I \in RawMap /\ E \in EntsType /\ U \in BlockSet BY FsParts
<1>2. NoInode \in IRef /\ -1 \in Int BY SMT DEF IRef
<1>3. Changed(E, E2, d, n, NoInode) /\ E2 \in EntsType
  <2> HIDE DEF E, I, U
  <2>1. Changed(E, E2, d, n, NoInode) BY <1>1, <1>2, SetEntry
  <2> QED BY <2>1 DEF Changed
<1>4. g = Fs(I, E2, U)
  <2> HIDE DEF E, I, U
  <2>1. DirLink(Fs(I, E, U), d, n, NoInode) = Fs(I, E2, U) BY <1>1, DirLinkForm, SMT
  <2> QED BY <1>1, <2>1
<1>5. PICK J \in RawMap : /\ g1 = Fs(J, E2, U)
                                 /\ \A j \in Inum : Same(I[j], J[j], IF j = d THEN k ELSE 0)
                                 /\ J[i] = I[i]
  <2> HIDE DEF E, I, U, E2, g
  <2>0. \A j \in Inum : Same(I[j], I[j], 0)
    <3>1. \A j \in Inum : I[j] \in Raw BY <1>1 DEF RawMap
    <3> QED BY <3>1, <1>2, Relink
  <2>1. CASE IsDir(f, i)
    <3> DEFINE x == Node(I[d].type, I[d].nlink + (-1), I[d].size, I[d].addrs)
               J == SetAt(I, d, x)
    <3>0. AddLinks(Fs(I, E2, U), d, -1) = Fs(J, E2, U) BY <1>1, <1>2, <1>3, AddLinksForm, SMT
    <3>1. g1 = Fs(J, E2, U) BY <2>1, <3>0, <1>4
    <3>2. I[d] \in Raw BY <1>1 DEF RawMap
    <3>3. x \in Raw /\ Same(I[d], x, -1) BY <3>2, <1>2, Relink
    <3> HIDE DEF x
    <3>4. NodeSet(I, J, d, x) BY <3>3, <1>1, SetNode
    <3>5. k = -1 BY <2>1
    <3> HIDE DEF J, k, g1
    <3>6. \A j \in Inum : Same(I[j], J[j], IF j = d THEN k ELSE 0) BY <2>0, <3>3, <3>4, <3>5 DEF NodeSet
    <3> QED BY <3>1, <3>4, <3>6 DEF NodeSet
  <2>2. CASE ~IsDir(f, i)
    <3>1. g1 = Fs(I, E2, U) /\ k = 0 BY <2>2, <1>4
    <3> HIDE DEF k, g1
    <3> QED BY <3>1, <2>0, <1>1
  <2> QED BY <2>1, <2>2
<1> HIDE DEF E2, g, k, g1, h
<1> DEFINE y == Node(J[i].type, J[i].nlink + (-1), J[i].size, J[i].addrs)
           K == SetAt(J, i, y)
<1>6. h = Fs(K, E2, U)
  <2> HIDE DEF I, E, U
  <2>1. AddLinks(Fs(J, E2, U), i, -1) = Fs(K, E2, U) BY <1>1, <1>2, <1>3, <1>5, AddLinksForm, SMT
  <2> QED BY <1>5, <2>1 DEF h
<1>7. I[i] \in Raw /\ J[i] \in Raw BY <1>1, <1>5 DEF RawMap
<1>8. y \in Raw /\ Same(I[i], y, -1) /\ Addrs(y) = Addrs(I[i])
  <2>1. y \in Raw /\ Same(J[i], y, -1) /\ Addrs(y) = Addrs(J[i]) BY <1>2, <1>7, Relink, SMT
  <2> HIDE DEF I, y
  <2> QED BY <1>5, <2>1, ZenonT(40)
<1> HIDE DEF y
<1>9. K \in RawMap /\ K[i] = y /\ \A j \in Inum : j # i => K[j] = J[j]
  <2>1. NodeSet(J, K, i, y) BY <1>8, SetNode
  <2> QED BY <2>1 DEF NodeSet
<1> HIDE DEF K
<1>10. DoUnlink(f, d, n, refs) = IF refs[i] = 0 THEN IPut(h, i) ELSE h
  BY DEF DoUnlink, DirLookup, h, g1, g
<1>11. (k = IF IsDir(f, i) THEN -1 ELSE 0)
       /\ \A j \in Inum : j # i => Same(I[j], K[j], IF j = d /\ IsDir(f, i) THEN -1 ELSE 0)
  BY <1>5, <1>9 DEF k
<1>12. K[i].nlink = 0 <=> I[i].nlink = 1
  <2>1. K[i].nlink = I[i].nlink + (-1) BY <1>8, <1>9 DEF Same
  <2>2. I[i].nlink \in Int BY <1>7, RawIs
  <2> HIDE DEF I
  <2> QED BY <2>1, <2>2, SMT
<1> DEFINE G == DoUnlink(f, d, n, refs)
<1>13. CASE refs[i] = 0 /\ I[i].nlink = 1
  <2> DEFINE L == SetAt(K, i, Freed)
             V == U \ Addrs(I[i])
  <2>1. IPut(h, i) = Fs(SetAt(K, i, Node("free", 0, 0, NoAddrs)), E2, U \ Addrs(K[i]))
    <3> HIDE DEF I, E, U
    <3>1. K[i].nlink = 0 =>
            IPut(Fs(K, E2, U), i) = Fs(SetAt(K, i, Node("free", 0, 0, NoAddrs)), E2, U \ Addrs(K[i]))
      BY <1>1, <1>3, <1>9, IPutForm, SMT
    <3> QED BY <3>1, <1>6, <1>12, <1>13
  <2>2. G = Fs(L, E2, V) BY <2>1, <1>8, <1>9, <1>10, <1>13 DEF Freed
  <2>3. L \in RawMap /\ L[i] = Freed /\ \A j \in Inum : j # i => L[j] = K[j]
    <3>1. NodeSet(K, L, i, Freed) BY <1>9, FreedIs, SetNode
    <3> QED BY <3>1 DEF NodeSet
  <2> HIDE DEF L, V, G
  <2>4. G.inode = L /\ G.ents = E2 /\ G.used = V BY <2>2 DEF Fs
  <2> QED BY <2>2, <2>3, <2>4, <1>3, <1>11, <1>13 DEF Unlinked, G, V
<1>14. CASE ~(refs[i] = 0 /\ I[i].nlink = 1)
  <2>1. G = Fs(K, E2, U)
    <3> HIDE DEF I, E, U
    <3>1. h.inode = K BY <1>6 DEF Fs
    <3>2. h.inode[i].nlink # 0 => IPut(h, i) = h BY DEF IPut
    <3> QED BY <3>1, <3>2, <1>6, <1>10, <1>12, <1>14
  <2> HIDE DEF G
  <2>2. G.inode = K /\ G.ents = E2 /\ G.used = U BY <2>1 DEF Fs
  <2> QED BY <2>1, <2>2, <1>3, <1>8, <1>9, <1>11, <1>14 DEF Unlinked, G
<1> QED BY <1>13, <1>14

\* What an entry tells: its directory is one, and its inode is not free.
LEMMA EntryIs ==
  ASSUME NEW f, LinksOK(f), NEW d \in Inum, NEW n \in Name, NEW i \in Inum, i = f.ents[d][n]
  PROVE  /\ IsDir(f, d) /\ f.inode[i].type # "free"
         /\ IsDir(f, i) => Cardinality(Entries(f, i)) = 1
         /\ IsDir(f, i) /\ IsDirEmpty(f, i) => i # d /\ f.inode[i].nlink = 1
<1>1. IsDir(f, d)
  <2>1. f.ents[d] # NoEntries BY NoEntriesIs, Constants
  <2> QED BY <2>1 DEF LinksOK, LinkOK
<1>2. Entries(f, i) # {} /\ Cardinality(Entries(f, i)) # 0 BY SomeEntry
<1>3. f.inode[i].type # "free" BY <1>2 DEF LinksOK, LinkOK
<1>4. IsDir(f, i) => Cardinality(Entries(f, i)) = 1 BY <1>2 DEF LinksOK, LinkOK
<1>5. ASSUME IsDir(f, i), IsDirEmpty(f, i) PROVE i # d /\ f.inode[i].nlink = 1
  <2>1. f.ents[i] = NoEntries BY <1>5 DEF IsDirEmpty
  <2>2. i # d BY <2>1, NoEntriesIs, Constants
  <2>3. Subdirs(f, i) = {} BY <2>1, NoEntriesIs DEF Subdirs
  <2>4. Cardinality(Subdirs(f, i)) = 0 BY <2>3, FS_EmptySet
  <2>5. f.inode[i].nlink = 1 + Cardinality(Subdirs(f, i)) BY <1>5 DEF LinksOK, LinkOK
  <2> QED BY <2>2, <2>4, <2>5, SMT
<1> QED BY <1>1, <1>3, <1>4, <1>5

\* Link counts match the entries after sys_dounlink.
LEMMA UnlinkLinks ==
  ASSUME NEW f \in FsType, LinksOK(f), NEW d \in Inum, NEW n \in Name, NEW i \in Inum, i = f.ents[d][n], i # d,
         NEW g, NEW freed \in BOOLEAN, Unlinked(f, g, d, n, i, freed),
         freed => f.inode[i].nlink = 1, IsDir(f, i) => freed /\ IsDirEmpty(f, i)
  PROVE  LinksOK(g) /\ \A j \in Inum : g.inode[j].nlink \in Nat
<1>1. /\ IsDir(f, d) /\ f.inode[i].type # "free"
      /\ IsDir(f, i) => Cardinality(Entries(f, i)) = 1
  BY EntryIs, SMT
<1>2. /\ Changed(f.ents, g.ents, d, n, NoInode)
      /\ \A j \in Inum : j # i => Same(f.inode[j], g.inode[j], IF j = d /\ IsDir(f, i) THEN -1 ELSE 0)
      /\ freed => g.inode[i] = Freed
      /\ ~freed => Same(f.inode[i], g.inode[i], -1)
  BY DEF Unlinked
<1>3. EntriesMoved(f, g, i, NoInode)
  <2>1. NoInode # i BY Constants
  <2> QED BY <1>2, <2>1, EntriesChange
<1>4. /\ \A j \in Inum : j # i => g.inode[j].type = f.inode[j].type
      /\ g.inode[i].type = IF freed THEN "free" ELSE f.inode[i].type
  <2>1. Freed.type = "free" BY FreedIs
  <2> QED BY <1>2, <2>1 DEF Same
<1>5. \A j \in Inum : f.inode[j].nlink \in Nat BY FsPoint
<1>6. /\ g.ents[d][n] = NoInode
      /\ \A a \in Inum, b \in Name : a # d \/ b # n => g.ents[a][b] = f.ents[a][b]
  BY <1>2 DEF Changed
<1>7. ASSUME NEW a \in Inum, NEW b \in Name, a # d \/ b # n
      PROVE  b \in Subdirs(g, a) <=> b \in Subdirs(f, a)
  <2> DEFINE x == f.ents[a][b]
  <2>1. g.ents[a][b] = x BY <1>6, <1>7
  <2>2. x \in Inum \/ x = NoInode BY FsPoint
  <2> HIDE DEF x
  <2>3. ASSUME x \in Inum, x # NoInode PROVE IsDir(g, x) <=> IsDir(f, x)
    <3>1. CASE x # i BY <2>3, <3>1, <1>4 DEF IsDir
    <3>2. CASE x = i
      <4>1. ~IsDir(f, i)
        <5> SUFFICES ASSUME IsDir(f, i) PROVE FALSE OBVIOUS
        <5>1. Cardinality(Entries(f, i)) = 1 BY <1>1
        <5>2. f.ents[d][n] = i /\ f.ents[a][b] = i BY <3>2 DEF x
        <5> QED BY <5>1, <5>2, <1>7, OneEntry, SMT
      <4>2. ~IsDir(g, i) BY <4>1, <1>4 DEF IsDir
      <4> QED BY <4>1, <4>2, <3>2
    <3> QED BY <3>1, <3>2
  <2> QED BY <2>1, <2>2, <2>3 DEF Subdirs, x
<1>8. \A j \in Inum : j # d => Subdirs(g, j) = Subdirs(f, j)
  <2>1. \A j \in Inum : Subdirs(g, j) \subseteq Name /\ Subdirs(f, j) \subseteq Name BY DEF Subdirs
  <2> QED BY <1>7, <2>1
<1>9. /\ Subdirs(g, d) = Subdirs(f, d) \ {n}
      /\ n \in Subdirs(f, d) <=> IsDir(f, i)
  <2>1. Subdirs(g, d) \subseteq Name /\ Subdirs(f, d) \subseteq Name BY DEF Subdirs
  <2>2. n \notin Subdirs(g, d) BY <1>6 DEF Subdirs
  <2>3. n \in Subdirs(f, d) <=> IsDir(f, i)
    <3>1. i # NoInode BY Constants
    <3> QED BY <3>1 DEF Subdirs
  <2> QED BY <1>7, <2>1, <2>2, <2>3
<1>10. Cardinality(Subdirs(g, d)) = Cardinality(Subdirs(f, d)) - (IF IsDir(f, i) THEN 1 ELSE 0)
  <2>1. IsFiniteSet(Subdirs(f, d)) /\ Cardinality(Subdirs(f, d)) \in Nat BY FiniteEntries
  <2>2. Cardinality(Subdirs(f, d) \ {n}) =
          IF n \in Subdirs(f, d) THEN Cardinality(Subdirs(f, d)) - 1 ELSE Cardinality(Subdirs(f, d))
    BY <2>1, FS_RemoveElement
  <2> QED BY <2>1, <2>2, <1>9, SMT
<1>11. \A j \in Inum : j # d => g.ents[j] = f.ents[j]
  <2>1. g.ents \in EntsType /\ f.ents \in EntsType BY <1>2, FsParts DEF Changed
  <2> QED BY <2>1, <1>6, SMT DEF EntsType
<1>12. LinkOK(g, i) /\ g.inode[i].nlink \in Nat
  <2>1. Cardinality(Entries(g, i)) = Cardinality(Entries(f, i)) - 1 BY <1>3 DEF EntriesMoved
  <2>2. Cardinality(Entries(f, i)) \in Nat /\ IsFiniteSet(Entries(g, i)) /\ Cardinality(Entries(g, i)) \in Nat
    BY FiniteEntries
  <2>3. f.inode[i].type \in Types BY FsPoint
  <2>4. LinkOK(f, i) BY ZenonT(40) DEF LinksOK
  <2>5. CASE freed
    <3>1. Cardinality(Entries(f, i)) = 1
      <4>1. CASE IsDir(f, i) BY <4>1, <1>1
      <4>2. CASE ~IsDir(f, i)
        <5>1. f.inode[i].type \in {"file", "sock"} BY <4>2, <2>3, <1>1 DEF Types, IsDir
        <5> QED BY <5>1, <2>4, <2>5 DEF LinkOK
      <4> QED BY <4>1, <4>2
    <3>2. Cardinality(Entries(g, i)) = 0 BY <3>1, <2>1, SMT
    <3>3. Entries(g, i) = {} BY <3>2, <2>2, FS_EmptySet
    <3>4. f.ents[i] = NoEntries \/ IsDir(f, i) BY <2>4 DEF LinkOK
    <3>5. g.inode[i].type = "free" /\ g.inode[i].nlink = 0 BY <2>5, <1>2, FreedIs
    <3>6. IsDir(f, i) => f.ents[i] = NoEntries BY DEF IsDirEmpty
    <3> QED BY <3>3, <3>4, <3>5, <3>6, <1>11, SMT DEF LinkOK, IsDir
  <2>6. CASE ~freed
    <3>1. ~IsDir(f, i) BY <2>6
    <3>2. f.inode[i].type \in {"file", "sock"} BY <3>1, <2>3, <1>1 DEF Types, IsDir
    <3>3. f.inode[i].nlink = Cardinality(Entries(f, i)) /\ f.ents[i] = NoEntries BY <3>1, <3>2, <2>4 DEF LinkOK
    <3>4. g.inode[i].type = f.inode[i].type /\ g.inode[i].nlink = f.inode[i].nlink + (-1)
      BY <2>6, <1>2 DEF Same
    <3>5. g.inode[i].nlink = Cardinality(Entries(g, i)) BY <3>3, <3>4, <2>1, <2>2
    <3>6. g.ents[i] = NoEntries BY <3>3, <1>11
    <3>7. g.inode[i].type # "free" /\ ~IsDir(g, i) BY <3>2, <3>4 DEF IsDir
    <3> QED BY <3>5, <3>6, <3>7, <2>2 DEF LinkOK
  <2> QED BY <2>5, <2>6
<1>13. LinkOK(g, d) /\ g.inode[d].nlink \in Nat
  <2>1. LinkOK(f, d) BY DEF LinksOK
  <2>2. Entries(g, d) = Entries(f, d)
    <3>1. d # NoInode BY Constants
    <3> QED BY <3>1, <1>3 DEF EntriesMoved
  <2>3. IsDir(g, d) BY <1>1, <1>4 DEF IsDir
  <2>4. g.inode[d].nlink = f.inode[d].nlink + (IF IsDir(f, i) THEN -1 ELSE 0) BY <1>2 DEF Same
  <2>5. f.inode[d].nlink = 1 + Cardinality(Subdirs(f, d)) BY <2>1, <1>1 DEF LinkOK
  <2>6. Cardinality(Subdirs(f, d)) \in Nat /\ Cardinality(Subdirs(g, d)) \in Nat BY FiniteEntries
  <2>7. g.inode[d].nlink = 1 + Cardinality(Subdirs(g, d)) /\ g.inode[d].nlink \in Nat
    BY <2>4, <2>5, <2>6, <1>10, SMT
  <2>8. Cardinality(Entries(g, d)) = IF d = ROOTINO THEN 0 ELSE 1 BY <2>1, <2>2, <1>1 DEF LinkOK
  <2>9. g.inode[d].type = "dir" BY <2>3 DEF IsDir
  <2> QED BY <2>3, <2>7, <2>8, <2>9 DEF LinkOK
<1>14. ASSUME NEW j \in Inum, j # i, j # d PROVE LinkOK(g, j) /\ g.inode[j].nlink \in Nat
  <2>1. LinkOK(f, j) BY DEF LinksOK
  <2>2. Entries(g, j) = Entries(f, j)
    <3>1. j # NoInode BY Constants
    <3> QED BY <3>1, <1>14, <1>3 DEF EntriesMoved
  <2>3. g.inode[j].type = f.inode[j].type BY <1>4, <1>14
  <2>4. g.inode[j].nlink = f.inode[j].nlink
    <3>1. g.inode[j].nlink = f.inode[j].nlink + 0 BY <1>2, <1>14 DEF Same
    <3>2. f.inode[j].nlink \in Nat BY <1>5
    <3> QED BY <3>1, <3>2, SMT
  <2>5. Subdirs(g, j) = Subdirs(f, j) /\ g.ents[j] = f.ents[j] BY <1>8, <1>11, <1>14
  <2> QED BY <2>1, <2>2, <2>3, <2>4, <2>5, <1>5 DEF LinkOK, IsDir
<1>15. IsDir(g, ROOTINO)
  <2>1. IsDir(f, ROOTINO) /\ ROOTINO \in Inum BY Constants DEF LinksOK
  <2>2. Cardinality(Entries(f, ROOTINO)) = 0 BY <2>1 DEF LinksOK, LinkOK
  <2>3. ROOTINO # i BY <2>2, SomeEntry
  <2> QED BY <2>1, <2>3, <1>4 DEF IsDir
<1> QED BY <1>12, <1>13, <1>14, <1>15 DEF LinksOK

-----------------------------------------------------------------------------
\* The blocks of an inode.
LEMMA AddrsIs ==
  ASSUME NEW f, NEW i, f.inode[i].addrs \in AddrsType, NEW b
  PROVE  b \in Addrs(f.inode[i]) <=> \E bn \in Pos : Has(f, i, bn, b)
<1>1. DOMAIN f.inode[i].addrs = Pos BY DEF AddrsType
<1> QED BY <1>1 DEF Addrs, Has

\* Inode j keeps its blocks, and does not grow.
KeepsBlocks(f, g, j) ==
  /\ \A bn \in Pos : g.inode[j].addrs[bn] = f.inode[j].addrs[bn]
  /\ \A bn \in Pos : bn < g.inode[j].size => bn < f.inode[j].size
  /\ g.inode[j].type = "free" => f.inode[j].type = "free"

\* Inodes with the same blocks hold the same ones at each place.
LEMMA BlocksAt ==
  ASSUME NEW f, NEW g, NEW j, KeepsBlocks(f, g, j), Filled(f, j), FreeIsEmpty(f, j)
  PROVE  Filled(g, j) /\ FreeIsEmpty(g, j)
<1>1. Filled(g, j) BY DEF KeepsBlocks, Filled
<1>2. FreeIsEmpty(g, j) BY DEF KeepsBlocks, FreeIsEmpty
<1> QED BY <1>1, <1>2

\* Block ownership stays right when no inode gains or loses a block.
LEMMA BlocksKept ==
  ASSUME NEW f, NEW g, BlocksOK(f), g.used = f.used, \A j \in Inum : KeepsBlocks(f, g, j)
  PROVE  BlocksOK(g)
<1>1. \A i \in Inum, bn \in Pos : \A b : Has(g, i, bn, b) <=> Has(f, i, bn, b) BY DEF KeepsBlocks, Has
<1>2. Bitmap(g) BY <1>1 DEF BlocksOK, Bitmap
<1>3. OwnedOnce(g)
  <2> SUFFICES ASSUME NEW i \in Inum, NEW j \in Inum, NEW bn \in Pos, NEW bm \in Pos, NEW b \in Block,
                      Has(g, i, bn, b), Has(g, j, bm, b)
               PROVE  i = j /\ bn = bm
    BY DEF OwnedOnce
  <2>1. Has(f, i, bn, b) /\ Has(f, j, bm, b) BY <1>1
  <2> QED BY <2>1 DEF BlocksOK, OwnedOnce
<1>4. \A i \in Inum : Filled(g, i) /\ FreeIsEmpty(g, i) BY BlocksAt DEF BlocksOK
<1> QED BY <1>2, <1>3, <1>4 DEF BlocksOK

\* Inode i gives its blocks back.
LEMMA BlocksFreed ==
  ASSUME NEW f \in FsType, NEW g, BlocksOK(f), NEW i \in Inum,
         \A j \in Inum : j # i => KeepsBlocks(f, g, j),
         g.inode[i].addrs = NoAddrs, g.inode[i].size = 0, g.used = f.used \ Addrs(f.inode[i])
  PROVE  BlocksOK(g)
<1>1. \A j \in Inum, bn \in Pos : \A b : j # i => (Has(g, j, bn, b) <=> Has(f, j, bn, b))
  BY DEF KeepsBlocks, Has
<1>2. \A bn \in Pos : \A b : ~Has(g, i, bn, b) BY NoAddrsIs DEF Has
<1>3. \A b : b \in Addrs(f.inode[i]) <=> \E bn \in Pos : Has(f, i, bn, b)
  <2>1. f.inode[i].addrs \in AddrsType BY FsPoint
  <2> QED BY <2>1, AddrsIs
<1>4. ASSUME NEW b PROVE b \in g.used <=> \E j \in Inum, bn \in Pos : Has(g, j, bn, b)
  <2>1. b \in g.used <=> b \in f.used /\ ~\E bn \in Pos : Has(f, i, bn, b) BY <1>3
  <2>2. b \in f.used <=> \E j \in Inum, bn \in Pos : Has(f, j, bn, b) BY DEF BlocksOK, Bitmap
  <2>3. ASSUME b \in g.used PROVE \E j \in Inum, bn \in Pos : Has(g, j, bn, b)
    BY <2>1, <2>2, <2>3, <1>1
  <2>4. ASSUME NEW j \in Inum, NEW bn \in Pos, Has(g, j, bn, b) PROVE b \in g.used
    <3>1. j # i BY <2>4, <1>2
    <3>2. Has(f, j, bn, b) BY <3>1, <2>4, <1>1
    <3>3. b \in f.used BY <3>2, <2>2
    <3>4. b \in Block BY <3>3, FsParts DEF BlockSet
    <3>5. ~\E bm \in Pos : Has(f, i, bm, b) BY <3>1, <3>2, <3>4 DEF BlocksOK, OwnedOnce
    <3> QED BY <3>3, <3>5, <2>1
  <2> QED BY <2>3, <2>4
<1>5. OwnedOnce(g)
  <2> SUFFICES ASSUME NEW k \in Inum, NEW j \in Inum, NEW bn \in Pos, NEW bm \in Pos, NEW b \in Block,
                      Has(g, k, bn, b), Has(g, j, bm, b)
               PROVE  k = j /\ bn = bm
    BY DEF OwnedOnce
  <2>1. k # i /\ j # i BY <1>2
  <2>2. Has(f, k, bn, b) /\ Has(f, j, bm, b) BY <2>1, <1>1
  <2> QED BY <2>2 DEF BlocksOK, OwnedOnce
<1>6. \A j \in Inum : j # i => Filled(g, j) /\ FreeIsEmpty(g, j) BY BlocksAt DEF BlocksOK
<1>7. Filled(g, i) /\ FreeIsEmpty(g, i)
  <2>1. \A bn \in Pos : ~(bn < g.inode[i].size) BY Constants, SMT DEF Pos
  <2> QED BY <2>1, NoAddrsIs DEF Filled, FreeIsEmpty
<1> QED BY <1>4, <1>5, <1>6, <1>7 DEF BlocksOK, Bitmap

\* An inode whose links change keeps its blocks.
LEMMA SameKeeps ==
  ASSUME NEW f, NEW g, NEW j, NEW k, Same(f.inode[j], g.inode[j], k)
  PROVE  KeepsBlocks(f, g, j)
BY DEF Same, KeepsBlocks

\* Block ownership stays right when sys_dounlink frees an inode or none.
LEMMA UnlinkBlocks ==
  ASSUME NEW f \in FsType, BlocksOK(f), NEW d, NEW n, NEW i \in Inum,
         NEW g, NEW freed \in BOOLEAN, Unlinked(f, g, d, n, i, freed)
  PROVE  BlocksOK(g) /\ g.used \subseteq Block
<1>1. \A j \in Inum : j # i => KeepsBlocks(f, g, j) BY SameKeeps DEF Unlinked
<1>2. f.used \subseteq Block BY FsParts DEF BlockSet
<1>3. CASE freed
  <2>1. g.inode[i] = Freed /\ g.used = f.used \ Addrs(f.inode[i]) BY <1>3 DEF Unlinked
  <2>2. g.inode[i].addrs = NoAddrs /\ g.inode[i].size = 0 BY <2>1, FreedIs
  <2>3. BlocksOK(g) BY <1>1, <2>1, <2>2, BlocksFreed
  <2> QED BY <2>1, <2>3, <1>2
<1>4. CASE ~freed
  <2>1. KeepsBlocks(f, g, i) /\ g.used = f.used BY <1>4, SameKeeps DEF Unlinked
  <2>2. \A j \in Inum : KeepsBlocks(f, g, j) BY <1>1, <2>1
  <2>3. BlocksOK(g) BY <2>1, <2>2, BlocksKept
  <2> QED BY <2>1, <2>3, <1>2
<1> QED BY <1>3, <1>4

\* A file system of the right parts.
LEMMA FsTyped ==
  ASSUME NEW g, g = Fs(g.inode, g.ents, g.used), g.inode \in RawMap, g.ents \in EntsType, g.used \subseteq Block,
         \A j \in Inum : g.inode[j].nlink \in Nat
  PROVE  g \in FsType
<1>1. \A j \in Inum : g.inode[j] \in Inode BY RawIs DEF RawMap
<1>2. g.inode \in [Inum -> Inode] BY <1>1 DEF RawMap
<1> HIDE DEF Inode
<1> QED BY <1>2 DEF Fs, FsType, EntsType

-----------------------------------------------------------------------------
\* Inode i gains entry n of directory d: a new inode, or one that is no
\* directory and has others.
Gained(f, g, d, n, i) ==
  /\ g = Fs(g.inode, g.ents, g.used)
  /\ g.inode \in RawMap
  /\ Changed(f.ents, g.ents, d, n, i)
  /\ \A j \in Inum : j # i => Same(f.inode[j], g.inode[j], IF j = d /\ IsDir(g, i) THEN 1 ELSE 0)
  /\ \/ f.inode[i].type \in {"file", "sock"} /\ Same(f.inode[i], g.inode[i], 1)
     \/ /\ f.inode[i].type = "free" /\ g.inode[i].type # "free" /\ g.inode[i].nlink = 1
        /\ g.inode[i].addrs = NoAddrs /\ g.inode[i].size = 0
  /\ g.used = f.used

\* Link counts match the entries after a new entry for a new or an old inode.
LEMMA GainedLinks ==
  ASSUME NEW f \in FsType, LinksOK(f), NEW d \in Inum, NEW n \in Name, NEW i \in Inum,
         f.ents[d][n] = NoInode, IsDir(f, d), NEW g, Gained(f, g, d, n, i)
  PROVE  LinksOK(g) /\ \A j \in Inum : g.inode[j].nlink \in Nat
<1>1. /\ Changed(f.ents, g.ents, d, n, i)
      /\ \A j \in Inum : j # i => Same(f.inode[j], g.inode[j], IF j = d /\ IsDir(g, i) THEN 1 ELSE 0)
      /\ \/ f.inode[i].type \in {"file", "sock"} /\ Same(f.inode[i], g.inode[i], 1)
         \/ f.inode[i].type = "free" /\ g.inode[i].type # "free" /\ g.inode[i].nlink = 1
  BY DEF Gained
<1>2. ~IsDir(f, i) /\ i # d
  <2>1. ~IsDir(f, i) BY <1>1 DEF IsDir
  <2> QED BY <2>1
<1>3. EntriesMoved(f, g, NoInode, i)
  <2>1. NoInode # i BY Constants
  <2> QED BY <1>1, <2>1, EntriesChange
<1>4. /\ \A j \in Inum : j # i => g.inode[j].type = f.inode[j].type
      /\ g.inode[i].type = f.inode[i].type \/ f.inode[i].type = "free"
  BY <1>1 DEF Same
<1>5. \A j \in Inum : f.inode[j].nlink \in Nat /\ LinkOK(f, j) BY FsPoint DEF LinksOK
<1>6. /\ g.ents \in EntsType /\ g.ents[d][n] = i
      /\ \A a \in Inum, b \in Name : a # d \/ b # n => g.ents[a][b] = f.ents[a][b]
  BY <1>1 DEF Changed
<1>7. ASSUME NEW a \in Inum, NEW b \in Name, a # d \/ b # n
      PROVE  b \in Subdirs(g, a) <=> b \in Subdirs(f, a)
  <2> DEFINE x == f.ents[a][b]
  <2>1. g.ents[a][b] = x BY <1>6, <1>7
  <2>2. x \in Inum \/ x = NoInode BY FsPoint
  <2> HIDE DEF x
  <2>3. ASSUME x \in Inum, x # NoInode PROVE IsDir(g, x) <=> IsDir(f, x)
    <3>1. CASE x # i BY <2>3, <3>1, <1>4 DEF IsDir
    <3>2. CASE x = i
      <4>1. f.inode[i].type # "free"
        <5>1. Entries(f, i) # {} BY <3>2, SomeEntry DEF x
        <5> QED BY <5>1, <1>5 DEF LinkOK
      <4> QED BY <4>1, <3>2, <1>4 DEF IsDir
    <3> QED BY <3>1, <3>2
  <2> QED BY <2>1, <2>2, <2>3 DEF Subdirs, x
<1>8. \A j \in Inum : j # d => Subdirs(g, j) = Subdirs(f, j)
  <2>1. \A j \in Inum : Subdirs(g, j) \subseteq Name /\ Subdirs(f, j) \subseteq Name BY DEF Subdirs
  <2> QED BY <1>7, <2>1
<1>9. /\ n \notin Subdirs(f, d)
      /\ IsDir(g, i) => Subdirs(g, d) = Subdirs(f, d) \cup {n}
      /\ ~IsDir(g, i) => Subdirs(g, d) = Subdirs(f, d)
  <2>1. Subdirs(g, d) \subseteq Name /\ Subdirs(f, d) \subseteq Name BY DEF Subdirs
  <2>2. n \notin Subdirs(f, d) BY DEF Subdirs
  <2>3. n \in Subdirs(g, d) <=> IsDir(g, i)
    <3>1. i # NoInode BY Constants
    <3> QED BY <3>1, <1>6 DEF Subdirs
  <2>4. \A b \in Name : b # n => (b \in Subdirs(g, d) <=> b \in Subdirs(f, d)) BY <1>7
  <2>5. ASSUME IsDir(g, i) PROVE Subdirs(g, d) = Subdirs(f, d) \cup {n} BY <2>1, <2>3, <2>4, <2>5
  <2>6. ASSUME ~IsDir(g, i) PROVE Subdirs(g, d) = Subdirs(f, d)
    <3>1. n \notin Subdirs(g, d) BY <2>3, <2>6
    <3>2. \A b : b \in Subdirs(g, d) => b \in Name /\ b # n BY <3>1, <2>1
    <3>3. \A b : b \in Subdirs(f, d) => b \in Name /\ b # n BY <2>1, <2>2
    <3>4. \A b : b \in Subdirs(g, d) <=> b \in Subdirs(f, d) BY <3>2, <3>3, <2>4
    <3> QED BY <3>4
  <2> QED BY <2>2, <2>5, <2>6
<1>10. Cardinality(Subdirs(g, d)) = Cardinality(Subdirs(f, d)) + (IF IsDir(g, i) THEN 1 ELSE 0)
  <2>1. IsFiniteSet(Subdirs(f, d)) /\ Cardinality(Subdirs(f, d)) \in Nat BY FiniteEntries
  <2>2. Cardinality(Subdirs(f, d) \cup {n}) = Cardinality(Subdirs(f, d)) + 1
    BY <2>1, <1>9, FS_AddElement
  <2>3. CASE IsDir(g, i) BY <2>2, <2>3, <1>9
  <2>4. CASE ~IsDir(g, i)
    <3>1. Cardinality(Subdirs(g, d)) = Cardinality(Subdirs(f, d)) BY <2>4, <1>9
    <3> QED BY <3>1, <2>1, <2>4, SMT
  <2> QED BY <2>3, <2>4
<1>11. \A j \in Inum : j # d => g.ents[j] = f.ents[j]
  <2>1. g.ents \in EntsType /\ f.ents \in EntsType BY <1>6, FsParts
  <2> QED BY <2>1, <1>6, SMT DEF EntsType
<1>12. LinkOK(g, i) /\ g.inode[i].nlink \in Nat
  <2>1. Cardinality(Entries(g, i)) = Cardinality(Entries(f, i)) + 1 BY <1>3 DEF EntriesMoved
  <2>2. Cardinality(Entries(f, i)) \in Nat /\ IsFiniteSet(Entries(f, i)) BY FiniteEntries
  <2>3. g.ents[i] = NoEntries BY <1>2, <1>5, <1>11 DEF LinkOK
  <2>4. CASE f.inode[i].type \in {"file", "sock"} /\ Same(f.inode[i], g.inode[i], 1)
    <3>1. g.inode[i].type = f.inode[i].type /\ g.inode[i].nlink = f.inode[i].nlink + 1 BY <2>4 DEF Same
    <3>2. f.inode[i].nlink = Cardinality(Entries(f, i)) BY <2>4, <1>5 DEF LinkOK
    <3>3. g.inode[i].nlink = Cardinality(Entries(g, i)) /\ g.inode[i].nlink \in Nat BY <3>1, <3>2, <2>1, <2>2, SMT
    <3>4. g.inode[i].type # "free" /\ ~IsDir(g, i) BY <3>1, <2>4 DEF IsDir
    <3> QED BY <3>3, <3>4, <2>3 DEF LinkOK
  <2>5. CASE f.inode[i].type = "free" /\ g.inode[i].type # "free" /\ g.inode[i].nlink = 1
    <3>1. Entries(f, i) = {} BY <2>5, <1>5 DEF LinkOK
    <3>2. Cardinality(Entries(g, i)) = 1
      <4>1. Cardinality(Entries(f, i)) = 0 BY <3>1, FS_EmptySet
      <4> QED BY <4>1, <2>1, SMT
    <3>3. i # ROOTINO BY <1>2 DEF LinksOK
    <3>4. Subdirs(g, i) = {} BY <2>3, NoEntriesIs DEF Subdirs
    <3>5. 1 + Cardinality(Subdirs(g, i)) = 1
      <4>1. Cardinality(Subdirs(g, i)) = 0 BY <3>4, FS_EmptySet
      <4> QED BY <4>1, SMT
    <3>6. 1 \in Nat OBVIOUS
    <3> QED BY <3>2, <3>3, <3>5, <3>6, <2>3, <2>5 DEF LinkOK
  <2> QED BY <2>4, <2>5, <1>1
<1>13. LinkOK(g, d) /\ g.inode[d].nlink \in Nat
  <2>1. LinkOK(f, d) BY <1>5
  <2>2. Entries(g, d) = Entries(f, d)
    <3>1. d # NoInode BY Constants
    <3> QED BY <3>1, <1>2, <1>3 DEF EntriesMoved
  <2>3. IsDir(g, d) BY <1>2, <1>4 DEF IsDir
  <2>4. g.inode[d].nlink = f.inode[d].nlink + (IF IsDir(g, i) THEN 1 ELSE 0) BY <1>1, <1>2 DEF Same
  <2>5. f.inode[d].nlink = 1 + Cardinality(Subdirs(f, d)) BY <2>1 DEF LinkOK
  <2>6. Cardinality(Subdirs(f, d)) \in Nat /\ Cardinality(Subdirs(g, d)) \in Nat BY FiniteEntries
  <2>7. g.inode[d].nlink = 1 + Cardinality(Subdirs(g, d)) /\ g.inode[d].nlink \in Nat
    BY <2>4, <2>5, <2>6, <1>10, SMT
  <2>8. Cardinality(Entries(g, d)) = IF d = ROOTINO THEN 0 ELSE 1 BY <2>1, <2>2 DEF LinkOK
  <2>9. g.inode[d].type = "dir" BY <2>3 DEF IsDir
  <2> QED BY <2>3, <2>7, <2>8, <2>9, SMT DEF LinkOK
<1>14. ASSUME NEW j \in Inum, j # i, j # d PROVE LinkOK(g, j) /\ g.inode[j].nlink \in Nat
  <2>1. LinkOK(f, j) BY <1>5
  <2>2. Entries(g, j) = Entries(f, j)
    <3>1. j # NoInode BY Constants
    <3> QED BY <3>1, <1>14, <1>3 DEF EntriesMoved
  <2>3. g.inode[j].type = f.inode[j].type BY <1>4, <1>14
  <2>4. g.inode[j].nlink = f.inode[j].nlink
    <3>1. g.inode[j].nlink = f.inode[j].nlink + 0 BY <1>1, <1>14 DEF Same
    <3>2. f.inode[j].nlink \in Nat BY <1>5
    <3> QED BY <3>1, <3>2, SMT
  <2>5. Subdirs(g, j) = Subdirs(f, j) /\ g.ents[j] = f.ents[j] BY <1>8, <1>11, <1>14
  <2> QED BY <2>1, <2>2, <2>3, <2>4, <2>5, <1>5 DEF LinkOK, IsDir
<1>15. IsDir(g, ROOTINO)
  <2>1. IsDir(f, ROOTINO) /\ ROOTINO \in Inum BY Constants DEF LinksOK
  <2> QED BY <2>1, <1>2, <1>4 DEF IsDir
<1> QED BY <1>12, <1>13, <1>14, <1>15 DEF LinksOK

\* Block ownership stays right when an inode gains an entry.
LEMMA GainedBlocks ==
  ASSUME NEW f \in FsType, BlocksOK(f), NEW d, NEW n, NEW i \in Inum, NEW g, Gained(f, g, d, n, i)
  PROVE  BlocksOK(g) /\ g.used \subseteq Block
<1>1. \A j \in Inum : j # i => KeepsBlocks(f, g, j) BY SameKeeps DEF Gained
<1>2. KeepsBlocks(f, g, i)
  <2>1. CASE Same(f.inode[i], g.inode[i], 1) BY <2>1, SameKeeps
  <2>2. CASE /\ f.inode[i].type = "free" /\ g.inode[i].type # "free"
             /\ g.inode[i].addrs = NoAddrs /\ g.inode[i].size = 0
    <3>1. \A bn \in Pos : f.inode[i].addrs[bn] = NoBlock BY <2>2 DEF BlocksOK, FreeIsEmpty
    <3>2. \A bn \in Pos : ~(bn < g.inode[i].size) BY <2>2, Constants, SMT DEF Pos
    <3> QED BY <3>1, <3>2, <2>2, NoAddrsIs DEF KeepsBlocks
  <2> QED BY <2>1, <2>2 DEF Gained
<1>3. g.used = f.used /\ f.used \subseteq Block BY FsParts DEF Gained, BlockSet
<1>4. \A j \in Inum : KeepsBlocks(f, g, j) BY <1>1, <1>2
<1> QED BY <1>3, <1>4, BlocksKept

-----------------------------------------------------------------------------
\* sys_dolink of an inode that is no directory.
LEMMA LinkForm ==
  ASSUME NEW f \in FsType, NEW d \in Inum, NEW n \in Name, NEW i \in Inum, f.inode[i].type \in {"file", "sock"}
  PROVE  Gained(f, DirLink(AddLinks(f, i, 1), d, n, i), d, n, i)
<1> DEFINE I == f.inode
           E == f.ents
           U == f.used
           x == Node(I[i].type, I[i].nlink + 1, I[i].size, I[i].addrs)
           J == SetAt(I, i, x)
           F == SetAt(E, d, SetAt(E[d], n, i))
           g == DirLink(AddLinks(f, i, 1), d, n, i)
<1>1. f = Fs(I, E, U) /\ I \in RawMap /\ E \in EntsType /\ U \in BlockSet BY FsParts
<1>2. i \in IRef /\ 1 \in Int BY SMT DEF IRef
<1>3. I[i] \in Raw /\ \A j \in Inum : I[j] \in Raw BY <1>1 DEF RawMap
<1>4. x \in Raw /\ Same(I[i], x, 1) BY <1>2, <1>3, Relink
<1>5. AddLinks(Fs(I, E, U), i, 1) = Fs(J, E, U)
  <2> HIDE DEF I, E, U
  <2> QED BY <1>1, <1>2, AddLinksForm, SMT
<1> HIDE DEF x
<1>6. NodeSet(I, J, i, x) BY <1>1, <1>4, SetNode
<1>7. J \in RawMap /\ J[i] = x /\ \A j \in Inum : j # i => J[j] = I[j] BY <1>6 DEF NodeSet
<1> HIDE DEF J
<1>8. DirLink(Fs(J, E, U), d, n, i) = Fs(J, F, U)
  <2> HIDE DEF I, E, U
  <2> QED BY <1>1, <1>7, DirLinkForm, SMT
<1>9. Changed(E, F, d, n, i)
  <2> HIDE DEF E
  <2> QED BY <1>1, <1>2, SetEntry
<1> HIDE DEF F
<1>10. g = Fs(J, F, U) BY <1>1, <1>5, <1>8
<1> HIDE DEF g
<1>11. g.inode = J /\ g.ents = F /\ g.used = U BY <1>10 DEF Fs
<1>12. ~IsDir(g, i)
  <2>1. g.inode[i].type = I[i].type BY <1>4, <1>7, <1>11 DEF Same
  <2> QED BY <2>1 DEF IsDir
<1>13. \A j \in Inum : j # i => Same(I[j], J[j], 0) BY <1>2, <1>3, <1>7, Relink
<1> QED BY <1>4, <1>7, <1>9, <1>10, <1>11, <1>12, <1>13 DEF Gained, g

\* ialloc finds a free inode when there is one.
LEMMA IAllocIs ==
  ASSUME NEW f, FreeInums(f) # {}
  PROVE  IAlloc(f) \in Inum /\ f.inode[IAlloc(f)].type = "free"
<1> DEFINE S == FreeInums(f)
<1>1. S \subseteq Nat
  <2>1. Inum \subseteq Nat BY Constants, SMT DEF Inum
  <2> QED BY <2>1 DEF FreeInums
<1>2. PICK x \in S : \A y \in S : ~(<<y, x>> \in OpToRel(<, Nat))
  <2> HIDE DEF S
  <2>1. S # {} BY DEF S
  <2> QED BY <1>1, <2>1, NatLessThanWellFounded, WFMin
<1>3. ASSUME NEW y \in S PROVE x <= y
  <2>1. x \in Nat /\ y \in Nat BY <1>1
  <2>2. ~(<<y, x>> \in OpToRel(<, Nat)) BY <1>2
  <2>3. ~(y < x) BY <2>1, <2>2 DEF OpToRel
  <2> QED BY <2>1, <2>3, SMT
<1>4. Min(S) \in S BY <1>3 DEF Min
<1> QED BY <1>4 DEF IAlloc, FreeInums

\* create, when ialloc gives i.
CreateAt(f, d, n, type, i) ==
  LET g == [f EXCEPT !.inode[i] = [FreeInode EXCEPT !.type = type, !.nlink = 1],
                     !.ents[i] = NoEntries]
  IN DirLink(IF type = "dir" THEN AddLinks(g, d, 1) ELSE g, d, n, i)

\* create gives a free inode its first entry, and a type.
LEMMA CreateForm ==
  ASSUME NEW f \in FsType, LinksOK(f), NEW d \in Inum, NEW n \in Name, NEW i \in Inum, i = IAlloc(f),
         f.inode[i].type = "free", IsDir(f, d), NEW type \in {"dir", "file", "sock"}
  PROVE  /\ Gained(f, Create(f, d, n, type), d, n, i)
         /\ Create(f, d, n, type).inode[i].type = type
<1> DEFINE I == f.inode
           E == f.ents
           U == f.used
           x == Node(type, 1, 0, NoAddrs)
           J == SetAt(I, i, x)
           g0 == [f EXCEPT !.inode[i] = [FreeInode EXCEPT !.type = type, !.nlink = 1], !.ents[i] = NoEntries]
           g1 == IF type = "dir" THEN AddLinks(g0, d, 1) ELSE g0
           F == SetAt(E, d, SetAt(E[d], n, i))
           g == Create(f, d, n, type)
<1>1. f = Fs(I, E, U) /\ I \in RawMap /\ E \in EntsType /\ U \in BlockSet BY FsParts
<1>2. i \in IRef /\ 1 \in Int BY SMT DEF IRef
<1>3. \A j \in Inum : I[j] \in Raw BY <1>1 DEF RawMap
<1>4. i # d BY DEF IsDir
<1>5. x \in Raw
  <2>1. type \in Types /\ 1 \in Int /\ 0 \in 0..MaxFile BY Constants, SMT DEF Types
  <2> QED BY <2>1, NoAddrsIs, NodeIs
<1>6. x.type = type /\ x.nlink = 1 /\ x.size = 0 /\ x.addrs = NoAddrs BY NodeIs, SMT
<1>7. [FreeInode EXCEPT !.type = type, !.nlink = 1] = x
  <2>1. [FreeInode EXCEPT !.type = type] = Node(type, 0, 0, NoAddrs) BY SMT DEF FreeInode, Node
  <2>2. [Node(type, 0, 0, NoAddrs) EXCEPT !.nlink = 1] = x BY SMT DEF Node
  <2> QED BY <2>1, <2>2
<1>8. E[i] = NoEntries BY DEF LinksOK, LinkOK, IsDir
<1>9. SetAt(E, i, NoEntries) = E
  <2> HIDE DEF E
  <2> QED BY <1>1, <1>8 DEF SetAt, EntsType
<1> HIDE DEF x
<1>10. g0 = Fs(J, E, U)
  <2>1. g0 = [[f EXCEPT !.inode[i] = x] EXCEPT !.ents[i] = NoEntries] BY <1>7
  <2>2. [f EXCEPT !.inode[i] = x] = Fs(J, E, U)
    <3> HIDE DEF I, E, U
    <3> QED BY <1>1, SMT DEF Fs, SetAt
  <2>3. [Fs(J, E, U) EXCEPT !.ents[i] = NoEntries] = Fs(J, SetAt(E, i, NoEntries), U)
    <3> HIDE DEF I, E, U, J
    <3> QED BY SMT DEF Fs, SetAt
  <2> QED BY <2>1, <2>2, <2>3, <1>9
<1> HIDE DEF g0
<1>11. NodeSet(I, J, i, x) BY <1>1, <1>5, SetNode
<1>12. J \in RawMap /\ J[i] = x /\ \A j \in Inum : j # i => J[j] = I[j] BY <1>11 DEF NodeSet
<1> HIDE DEF J
<1> DEFINE k == IF type = "dir" THEN 1 ELSE 0
<1>13. PICK K \in RawMap : /\ g1 = Fs(K, E, U) /\ K[i] = x
                           /\ \A j \in Inum : j # i => Same(I[j], K[j], IF j = d THEN k ELSE 0)
  <2> HIDE DEF I, E, U
  <2>0. \A j \in Inum : Same(I[j], I[j], 0) BY <1>2, <1>3, Relink
  <2>1. CASE type = "dir"
    <3> DEFINE y == Node(J[d].type, J[d].nlink + 1, J[d].size, J[d].addrs)
               K == SetAt(J, d, y)
    <3>0. AddLinks(Fs(J, E, U), d, 1) = Fs(K, E, U) BY <1>1, <1>2, <1>12, AddLinksForm, SMT
    <3>1. g1 = Fs(K, E, U) BY <2>1, <3>0, <1>10
    <3>2. J[d] \in Raw /\ J[d] = I[d] BY <1>3, <1>4, <1>12
    <3>3. y \in Raw /\ Same(J[d], y, 1) BY <3>2, <1>2, Relink
    <3> HIDE DEF y
    <3>4. NodeSet(J, K, d, y) BY <3>3, <1>12, SetNode
    <3>5. k = 1 BY <2>1
    <3> HIDE DEF K, k, g1
    <3>6. \A j \in Inum : j # i => Same(I[j], K[j], IF j = d THEN k ELSE 0)
      BY <2>0, <3>2, <3>3, <3>4, <3>5, <1>12 DEF NodeSet
    <3> QED BY <3>1, <3>4, <3>6, <1>4, <1>12 DEF NodeSet
  <2>2. CASE type # "dir"
    <3>1. g1 = Fs(J, E, U) /\ k = 0 BY <2>2, <1>10
    <3> HIDE DEF k, g1
    <3> QED BY <3>1, <2>0, <1>12
  <2> QED BY <2>1, <2>2
<1>14. g = DirLink(g1, d, n, i)
  <2>1. g = CreateAt(f, d, n, type, IAlloc(f)) BY DEF Create, CreateAt
  <2>2. CreateAt(f, d, n, type, i) = DirLink(g1, d, n, i) BY DEF CreateAt, g0
  <2> QED BY <2>1, <2>2
<1> HIDE DEF g1, g
<1>15. DirLink(Fs(K, E, U), d, n, i) = Fs(K, F, U)
  <2> HIDE DEF I, E, U
  <2> QED BY <1>1, <1>13, DirLinkForm, SMT
<1>16. Changed(E, F, d, n, i)
  <2> HIDE DEF E
  <2> QED BY <1>1, <1>2, SetEntry
<1> HIDE DEF F
<1>17. g = Fs(K, F, U) BY <1>13, <1>14, <1>15
<1>18. g.inode = K /\ g.ents = F /\ g.used = U BY <1>17 DEF Fs
<1>19. IsDir(g, i) <=> type = "dir" BY <1>6, <1>13, <1>18 DEF IsDir
<1>20. \A j \in Inum : j # i => Same(I[j], K[j], IF j = d /\ IsDir(g, i) THEN 1 ELSE 0) BY <1>13, <1>19
<1>21. g.inode[i].type # "free" /\ g.inode[i].nlink = 1 /\ g.inode[i].addrs = NoAddrs /\ g.inode[i].size = 0
  BY <1>6, <1>13, <1>18
<1>22. g.inode[i].type = type BY <1>6, <1>13, <1>18
<1>23. Gained(f, g, d, n, i) BY <1>16, <1>17, <1>18, <1>20, <1>21 DEF Gained
<1> QED BY <1>22, <1>23 DEF g

-----------------------------------------------------------------------------
\* Inode j keeps its type and links, or is freed when it has none.
KeepsLinks(f, g, j) ==
  \/ g.inode[j].type = f.inode[j].type /\ g.inode[j].nlink = f.inode[j].nlink
  \/ f.inode[j].type = "file" /\ f.inode[j].nlink = 0 /\ g.inode[j].type = "free" /\ g.inode[j].nlink = 0

\* Link counts match when neither entries, types nor counts change.
LEMMA LinksKept ==
  ASSUME NEW f \in FsType, LinksOK(f), NEW g, g.ents = f.ents, \A j \in Inum : KeepsLinks(f, g, j)
  PROVE  LinksOK(g) /\ \A j \in Inum : g.inode[j].nlink \in Nat
<1>1. \A j \in Inum : f.inode[j].nlink \in Nat /\ LinkOK(f, j) BY FsPoint DEF LinksOK
<1>2. \A j : Entries(g, j) = Entries(f, j) BY DEF Entries
<1>3. \A j \in Inum : IsDir(g, j) <=> IsDir(f, j)
  <2> TAKE j \in Inum
  <2>1. CASE g.inode[j].type = f.inode[j].type BY <2>1 DEF IsDir
  <2>2. CASE f.inode[j].type = "file" /\ g.inode[j].type = "free" BY <2>2 DEF IsDir
  <2> QED BY <2>1, <2>2 DEF KeepsLinks
<1>4. ASSUME NEW j \in Inum PROVE Subdirs(g, j) = Subdirs(f, j)
  <2>1. \A n \in Name : f.ents[j][n] \in Inum \/ f.ents[j][n] = NoInode BY FsPoint
  <2> QED BY <2>1, <1>3 DEF Subdirs
<1>5. ASSUME NEW j \in Inum PROVE LinkOK(g, j) /\ g.inode[j].nlink \in Nat
  <2>1. CASE g.inode[j].type = f.inode[j].type /\ g.inode[j].nlink = f.inode[j].nlink
    BY <2>1, <1>1, <1>2, <1>4 DEF LinkOK, IsDir
  <2>2. CASE f.inode[j].type = "file" /\ f.inode[j].nlink = 0 /\ g.inode[j].type = "free" /\ g.inode[j].nlink = 0
    <3>1. Cardinality(Entries(f, j)) = 0 BY <2>2, <1>1 DEF LinkOK
    <3>2. Entries(g, j) = {} BY <3>1, <1>2, FiniteEntries, FS_EmptySet
    <3>3. f.ents[j] = NoEntries
      <4>1. ~IsDir(f, j) BY <2>2 DEF IsDir
      <4> QED BY <4>1, <1>1 DEF LinkOK
    <3>4. g.inode[j].type # "file" /\ g.inode[j].type # "sock" /\ ~IsDir(g, j) BY <2>2 DEF IsDir
    <3>5. 0 \in Nat OBVIOUS
    <3> QED BY <2>2, <3>2, <3>3, <3>4, <3>5 DEF LinkOK
  <2> QED BY <2>1, <2>2 DEF KeepsLinks
<1>6. IsDir(g, ROOTINO) BY <1>3, Constants DEF LinksOK
<1> QED BY <1>5, <1>6 DEF LinksOK

\* Inode i gives its blocks back, as inode x.
Emptied(f, g, i, x) ==
  /\ g = Fs(g.inode, g.ents, g.used) /\ g.inode \in RawMap /\ g.ents = f.ents
  /\ \A j \in Inum : j # i => g.inode[j] = f.inode[j]
  /\ g.inode[i] = x
  /\ g.used = f.used \ Addrs(f.inode[i])

\* A file system stays well-typed when an inode loses its blocks.
LEMMA EmptiedFs ==
  ASSUME NEW f, FsOK(f), NEW i \in Inum, NEW x, NEW g, Emptied(f, g, i, x), KeepsLinks(f, g, i),
         x.addrs = NoAddrs, x.size = 0
  PROVE  FsOK(g)
<1>1. f \in FsType /\ LinksOK(f) /\ BlocksOK(f) BY DEF FsOK
<1>2. \A j \in Inum : KeepsLinks(f, g, j) BY DEF Emptied, KeepsLinks
<1>3. \A j \in Inum : j # i => KeepsBlocks(f, g, j) BY DEF Emptied, KeepsBlocks
<1>4. LinksOK(g) /\ \A j \in Inum : g.inode[j].nlink \in Nat BY <1>1, <1>2, LinksKept DEF Emptied
<1>5. BlocksOK(g) BY <1>1, <1>3, BlocksFreed DEF Emptied
<1>6. g.used \subseteq Block /\ g.ents \in EntsType BY <1>1, FsParts DEF Emptied, BlockSet
<1>7. g \in FsType BY <1>4, <1>6, FsTyped DEF Emptied
<1> QED BY <1>4, <1>5, <1>7 DEF FsOK

\* itrunc and iput give back exactly the blocks of the inode.
LEMMA EmptiedIs ==
  ASSUME NEW f \in FsType, NEW i \in Inum, NEW x \in Raw
  PROVE  Emptied(f, Fs(SetAt(f.inode, i, x), f.ents, f.used \ Addrs(f.inode[i])), i, x)
<1> DEFINE J == SetAt(f.inode, i, x)
           g == Fs(J, f.ents, f.used \ Addrs(f.inode[i]))
<1>1. NodeSet(f.inode, J, i, x) BY FsParts, SetNode
<1> HIDE DEF J
<1>2. g.inode = J /\ g.ents = f.ents /\ g.used = f.used \ Addrs(f.inode[i]) BY DEF Fs
<1> HIDE DEF g
<1>3. g = Fs(g.inode, g.ents, g.used) BY <1>2 DEF g
<1>4. Emptied(f, g, i, x) BY <1>1, <1>2, <1>3 DEF NodeSet, Emptied
<1> QED BY <1>4 DEF g, J

-----------------------------------------------------------------------------
\* How many numbers of S are below x.
LEMMA RankIs ==
  ASSUME NEW S, IsFiniteSet(S), NEW x
  PROVE  IsFiniteSet({y \in S : y < x}) /\ Rank(S, x) \in Nat
<1>1. {y \in S : y < x} \in SUBSET S OBVIOUS
<1>2. IsFiniteSet({y \in S : y < x}) BY <1>1, FS_Subset
<1> QED BY <1>2, FS_CardinalityType DEF Rank

\* The member a of S counts: ranks grow from one member to the next.
LEMMA RankLess ==
  ASSUME NEW S \in SUBSET Nat, IsFiniteSet(S), NEW a \in S, NEW T, IsFiniteSet(T), a \in T,
         \A y \in S : y < a => y \in T
  PROVE  Rank(S, a) < Cardinality(T)
<1> DEFINE L == {y \in S : y < a}
<1>1. IsFiniteSet(L) /\ Rank(S, a) = Cardinality(L) /\ Rank(S, a) \in Nat BY RankIs DEF Rank
<1>2. a \notin L
  <2>1. ~(a < a) BY a \in Nat, SMT
  <2> QED BY <2>1
<1>3. Cardinality(L \cup {a}) = Cardinality(L) + 1 BY <1>1, <1>2, FS_AddElement
<1>4. L \cup {a} \in SUBSET T OBVIOUS
<1> HIDE DEF L
<1>5. Cardinality(L \cup {a}) <= Cardinality(T) BY <1>4, FS_Subset
<1>6. Cardinality(T) \in Nat BY FS_CardinalityType
<1> QED BY <1>1, <1>3, <1>5, <1>6, SMT

\* Every rank below the size of S is the rank of a member.
LEMMA NthExists ==
  ASSUME NEW m \in Nat, NEW S \in SUBSET (1..m), NEW k \in Nat, k < Cardinality(S)
  PROVE  \E x \in S : Rank(S, x) = k
<1> DEFINE T == {x \in Nat : Rank(S, x) > k}
<1>0. IsFiniteSet(S)
  <2>1. IsFiniteSet(1..m) BY FS_Interval, SMT
  <2> QED BY <2>1, FS_Subset
<1>1. m + 1 \in T
  <2>0. \A y \in S : y < m + 1 BY SMT
  <2>1. {y \in S : y < m + 1} = S BY <2>0
  <2>2. Rank(S, m + 1) = Cardinality(S) BY <2>1 DEF Rank
  <2>3. Cardinality(S) \in Nat BY <1>0, FS_CardinalityType
  <2> QED BY <2>2, <2>3, SMT
<1>2. PICK x \in T : \A y \in T : ~(<<y, x>> \in OpToRel(<, Nat))
  <2>1. T \subseteq Nat /\ T # {} BY <1>1
  <2> HIDE DEF T
  <2> QED BY <2>1, NatLessThanWellFounded, WFMin
<1>3. x \in Nat /\ Rank(S, x) > k OBVIOUS
<1>4. x # 0
  <2> SUFFICES ASSUME x = 0 PROVE FALSE OBVIOUS
  <2>0. \A y \in S : ~(y < x) BY SMT
  <2>1. {y \in S : y < x} = {} BY <2>0
  <2>2. Rank(S, x) = 0 BY <2>1, FS_EmptySet DEF Rank
  <2> QED BY <2>2, <1>3, SMT
<1> DEFINE z == x - 1
<1>5. z \in Nat /\ z < x /\ x = z + 1 BY <1>3, <1>4, SMT
<1>6. ~(Rank(S, z) > k)
  <2>1. <<z, x>> \in OpToRel(<, Nat) BY <1>3, <1>5 DEF OpToRel
  <2>2. z \notin T BY <2>1, <1>2
  <2> QED BY <2>2, <1>5
<1>7. Rank(S, z) \in Nat /\ Rank(S, x) \in Nat /\ IsFiniteSet({y \in S : y < z}) BY <1>0, RankIs
<1> HIDE DEF z, T
<1>8. z \in S
  <2> SUFFICES ASSUME z \notin S PROVE FALSE OBVIOUS
  <2>0. \A y \in S : y \in Nat /\ y # z BY SMT
  <2>1. ASSUME NEW y \in S PROVE y < x <=> y < z BY <1>5, <2>0, SMT
  <2>2. {y \in S : y < x} = {y \in S : y < z} BY <2>1
  <2>3. Rank(S, x) = Rank(S, z) BY <2>2 DEF Rank
  <2> QED BY <2>3, <1>3, <1>6, SMT
<1>9. Rank(S, x) = Rank(S, z) + 1
  <2>0. \A y \in S : y \in Nat BY SMT
  <2>1. ASSUME NEW y \in S PROVE y < x <=> y < z \/ y = z BY <1>5, <2>0, SMT
  <2>2. {y \in S : y < x} = {y \in S : y < z} \cup {z} BY <2>1, <1>8
  <2>3. z \notin {y \in S : y < z} BY <1>5, SMT
  <2> QED BY <2>2, <2>3, <1>7, FS_AddElement DEF Rank
<1>10. Rank(S, z) = k BY <1>3, <1>6, <1>7, <1>9, SMT
<1> QED BY <1>8, <1>10

\* The k-th number of a set is one of it, with k below it.
LEMMA NthIs ==
  ASSUME NEW m \in Nat, NEW S \in SUBSET (1..m), NEW k \in Nat, k < Cardinality(S)
  PROVE  Nth(S, k) \in S /\ Rank(S, Nth(S, k)) = k
BY NthExists DEF Nth

\* A write that is neither out of range nor out of blocks.
Fits(f, i, off, n) ==
  /\ off \in Nat /\ n \in Nat /\ off + n <= MaxFile
  /\ Cardinality(Missing(f, i, off, n)) <= Cardinality(FreeBlocks(f))

\* The missing blocks get free ones, each another one.
LEMMA BAllocIs ==
  ASSUME NEW f, NEW i, NEW off, NEW n, Fits(f, i, off, n)
  PROVE  LET M == Missing(f, i, off, n)
             new == BAlloc(f, i, off, n)
         IN /\ M \subseteq Pos /\ DOMAIN new = M
            /\ \A bn \in M : new[bn] \in Block /\ new[bn] \notin f.used
            /\ \A bn, bm \in M : new[bn] = new[bm] => bn = bm
<1> DEFINE M == Missing(f, i, off, n)
           S == FreeBlocks(f)
           new == BAlloc(f, i, off, n)
<1>1. off \in Nat /\ n \in Nat /\ off + n <= MaxFile /\ Cardinality(M) <= Cardinality(S) BY DEF Fits
<1>2. M \subseteq Pos
  <2>1. off..(off + n - 1) \subseteq Pos BY <1>1, Constants, SMT DEF Pos
  <2> QED BY <2>1 DEF Missing
<1>3. Pos \subseteq Nat BY SMT DEF Pos
<1>4. IsFiniteSet(M)
  <2>1. IsFiniteSet(Pos)
    <3>1. 0 \in Int /\ MaxFile - 1 \in Int BY Constants, SMT
    <3> QED BY <3>1, FS_Interval DEF Pos
  <2> QED BY <2>1, <1>2, FS_Subset
<1>5. S \in SUBSET (1..NBlocks) BY DEF FreeBlocks, Block
<1>6. Cardinality(M) \in Nat /\ Cardinality(S) \in Nat
  <2>1. IsFiniteSet(Block) /\ S \in SUBSET Block BY Constants DEF FreeBlocks
  <2>2. IsFiniteSet(S) BY <2>1, FS_Subset
  <2> QED BY <2>2, <1>4, FS_CardinalityType
<1>7. new = [bn \in M |-> Nth(S, Rank(M, bn))] BY DEF BAlloc
<1> HIDE DEF M, S, new
<1>8. ASSUME NEW bn \in M PROVE Rank(M, bn) \in Nat /\ Rank(M, bn) < Cardinality(M)
  <2>1. Rank(M, bn) \in Nat BY <1>4, RankIs
  <2>2. M \in SUBSET Nat BY <1>2, <1>3
  <2> QED BY <2>1, <2>2, <1>4, RankLess
<1>9. ASSUME NEW bn \in M PROVE new[bn] \in S /\ Rank(S, new[bn]) = Rank(M, bn)
  <2>1. Rank(M, bn) \in Nat /\ Rank(M, bn) < Cardinality(S) BY <1>8, <1>1, <1>6, SMT
  <2>2. NBlocks \in Nat BY Constants
  <2>3. Nth(S, Rank(M, bn)) \in S /\ Rank(S, Nth(S, Rank(M, bn))) = Rank(M, bn) BY <2>1, <2>2, <1>5, NthIs
  <2> QED BY <2>3, <1>7
<1>10. ASSUME NEW bn \in M, NEW bm \in M, bn < bm PROVE Rank(M, bn) < Rank(M, bm)
  <2> DEFINE T == {y \in M : y < bm}
  <2>1. M \in SUBSET Nat /\ bn \in Nat /\ bm \in Nat BY <1>2, <1>3
  <2>2. \A y \in M : y < bn => y \in T BY <2>1, <1>10, SMT
  <2>3. IsFiniteSet(T) /\ bn \in T /\ Rank(M, bm) = Cardinality(T) BY <1>4, <1>10, RankIs DEF Rank
  <2> HIDE DEF T
  <2>4. Rank(M, bn) < Cardinality(T) BY <2>1, <2>2, <2>3, <1>4, RankLess
  <2> QED BY <2>3, <2>4
<1>11. ASSUME NEW bn \in M, NEW bm \in M, new[bn] = new[bm] PROVE bn = bm
  <2>1. Rank(M, bn) = Rank(M, bm) BY <1>9, <1>11
  <2>2. Rank(M, bn) \in Nat /\ Rank(M, bm) \in Nat /\ bn \in Nat /\ bm \in Nat BY <1>2, <1>3, <1>8
  <2>3. ~(bn < bm) BY <2>1, <2>2, <1>10, SMT
  <2>4. ~(bm < bn) BY <2>1, <2>2, <1>10, SMT
  <2> QED BY <2>2, <2>3, <2>4, SMT
<1>12. DOMAIN new = M BY <1>7
<1>13. \A bn \in M : new[bn] \in Block /\ new[bn] \notin f.used BY <1>9 DEF S, FreeBlocks
<1> QED BY <1>2, <1>11, <1>12, <1>13 DEF M, new

\* The places of a file once the missing blocks are there, and its size.
Filling(a, new) == [bn \in DOMAIN a |-> IF bn \in DOMAIN new THEN new[bn] ELSE a[bn]]
Grown(size, end) == IF end > size THEN end ELSE size

\* What writei leaves of inode i.
Written(f, g, i, off, n, new) ==
  /\ g = Fs(g.inode, g.ents, g.used) /\ g.inode \in RawMap /\ g.ents = f.ents
  /\ \A j \in Inum : j # i => g.inode[j] = f.inode[j]
  /\ g.inode[i].type = f.inode[i].type /\ g.inode[i].nlink = f.inode[i].nlink
  /\ g.inode[i].size = Grown(f.inode[i].size, off + n)
  /\ g.inode[i].addrs = Filling(f.inode[i].addrs, new)
  /\ g.used = f.used \cup {new[bn] : bn \in DOMAIN new}

\* writei fills the missing places, marks the new blocks, and moves the end.
LEMMA WriteForm ==
  ASSUME NEW f \in FsType, NEW i \in Inum, NEW off, NEW n, Fits(f, i, off, n)
  PROVE  Written(f, WriteI(f, i, off, n), i, off, n, BAlloc(f, i, off, n))
<1> DEFINE I == f.inode
           E == f.ents
           U == f.used
           new == BAlloc(f, i, off, n)
           V == U \cup {new[bn] : bn \in DOMAIN new}
           A == Filling(I[i].addrs, new)
           z == Grown(I[i].size, off + n)
           x == Node(I[i].type, I[i].nlink, z, A)
           J == SetAt(I, i, x)
           g == WriteI(f, i, off, n)
<1>1. f = Fs(I, E, U) /\ I \in RawMap /\ E \in EntsType /\ U \in BlockSet BY FsParts
<1>2. /\ I[i] \in Raw /\ I[i].type \in Types /\ I[i].nlink \in Int /\ I[i].size \in 0..MaxFile
      /\ I[i].addrs \in AddrsType
      /\ I[i] = Node(I[i].type, I[i].nlink, I[i].size, I[i].addrs)
  <2>1. I[i] \in Raw BY <1>1 DEF RawMap
  <2> QED BY <2>1, RawIs
<1>3. z \in 0..MaxFile
  <2>1. off \in Nat /\ n \in Nat /\ off + n <= MaxFile BY DEF Fits
  <2> HIDE DEF I
  <2> QED BY <2>1, <1>2, Constants, SMT DEF Grown
<1>4. DOMAIN I[i].addrs = Pos /\ \A bn \in DOMAIN new : new[bn] \in Block
  <2>1. DOMAIN I[i].addrs = Pos BY <1>2 DEF AddrsType
  <2> QED BY <2>1, BAllocIs
<1>5. A \in AddrsType
  <2> HIDE DEF new, I
  <2> QED BY <1>2, <1>4 DEF Filling, AddrsType
<1> HIDE DEF new
<1>6. x \in Raw /\ x.type = I[i].type /\ x.nlink = I[i].nlink /\ x.size = z /\ x.addrs = A
  <2>1. x.type = I[i].type /\ x.nlink = I[i].nlink /\ x.size = z /\ x.addrs = A BY NodeIs, SMT
  <2> HIDE DEF z, A, I
  <2> QED BY <2>1, <1>2, <1>3, <1>5, NodeIs, ZenonT(40)
<1> DEFINE y == [I[i] EXCEPT !.addrs = A]
           F1 == Fs(SetAt(I, i, y), E, U)
           F2 == Fs(J, E, U)
<1>7. g = [[[f EXCEPT !.inode[i].addrs = A] EXCEPT !.inode[i].size = z] EXCEPT !.used = V]
  BY DEF WriteI, Filling, Grown, new
<1>8. [f EXCEPT !.inode[i].addrs = A] = F1
  <2>1. [f EXCEPT !.inode[i].addrs = A] = [f EXCEPT !.inode = SetAt(I, i, y)]
    BY DEF SetAt
  <2>2. \A X : [Fs(I, E, U) EXCEPT !.inode = X] = Fs(X, E, U) BY SMT DEF Fs
  <2> HIDE DEF I, E, U, y
  <2> QED BY <2>1, <2>2, <1>1
<1>9. y = Node(I[i].type, I[i].nlink, I[i].size, A)
  <2> HIDE DEF I, A
  <2> QED BY <1>2, SMT DEF Node
<1>10. [y EXCEPT !.size = z] = x
  <2> HIDE DEF I, A, z, y
  <2> QED BY <1>9, SMT DEF Node
<1>11. [F1 EXCEPT !.inode[i].size = z] = F2
  <2>1. F1.inode = SetAt(I, i, y) BY DEF Fs
  <2>2. SetAt(I, i, y)[i] = y
    <3> HIDE DEF y, I
    <3> QED BY <1>1 DEF SetAt, RawMap
  <2>3. [F1 EXCEPT !.inode[i].size = z]
          = [F1 EXCEPT !.inode = SetAt(F1.inode, i, [F1.inode[i] EXCEPT !.size = z])]
    <3> HIDE DEF F1, z
    <3> QED BY DEF SetAt
  <2>4. SetAt(SetAt(I, i, y), i, x) = SetAt(I, i, x)
    <3> HIDE DEF y, x, I
    <3> QED BY DEF SetAt
  <2>5. \A X : [F1 EXCEPT !.inode = X] = Fs(X, E, U)
    <3> HIDE DEF I, E, U, y
    <3> QED BY SMT DEF Fs
  <2> HIDE DEF F1, y, x, I
  <2> QED BY <2>1, <2>2, <2>3, <2>4, <2>5, <1>10
<1>12. [F2 EXCEPT !.used = V] = Fs(J, E, V)
  <2> HIDE DEF V, J, E, U
  <2> QED BY SMT DEF Fs
<1> HIDE DEF F1, F2, y
<1>13. g = Fs(J, E, V)
  <2> HIDE DEF V, J, E, A, z
  <2> QED BY <1>7, <1>8, <1>11, <1>12
<1> HIDE DEF g, x
<1>14. NodeSet(I, J, i, x) BY <1>1, <1>6, SetNode
<1> HIDE DEF J
<1>15. g.inode = J /\ g.ents = E /\ g.used = V
  <2> HIDE DEF V, E
  <2> QED BY <1>13 DEF Fs
<1> QED BY <1>6, <1>13, <1>14, <1>15 DEF Written, NodeSet, g, new

\* A write that starts inside the file or at its end gives every new block to
\* one place, and leaves no hole.
LEMMA WriteBlocks ==
  ASSUME NEW f \in FsType, BlocksOK(f), NEW i \in Inum, f.inode[i].type # "free",
         NEW off, NEW n, Fits(f, i, off, n), off <= f.inode[i].size,
         NEW g, Written(f, g, i, off, n, BAlloc(f, i, off, n))
  PROVE  BlocksOK(g) /\ g.used \subseteq Block
<1> DEFINE M == Missing(f, i, off, n)
           new == BAlloc(f, i, off, n)
<1>1. /\ M \subseteq Pos /\ DOMAIN new = M
      /\ \A bn \in M : new[bn] \in Block /\ new[bn] \notin f.used
      /\ \A bn, bm \in M : new[bn] = new[bm] => bn = bm
  BY BAllocIs
<1>2. \A bn \in Pos : bn \in M <=> bn \in off..(off + n - 1) /\ f.inode[i].addrs[bn] = NoBlock
  BY DEF Missing
<1>3. f.inode[i].addrs \in AddrsType /\ f.inode[i].size \in 0..MaxFile BY FsPoint
<1> HIDE DEF M, new
<1>4. \A bn \in Pos : g.inode[i].addrs[bn] = IF bn \in M THEN new[bn] ELSE f.inode[i].addrs[bn]
  <2>1. g.inode[i].addrs = Filling(f.inode[i].addrs, new) BY DEF Written, new
  <2>2. DOMAIN f.inode[i].addrs = Pos BY <1>3 DEF AddrsType
  <2> QED BY <2>1, <2>2, <1>1 DEF Filling
<1>5. g.used = f.used \cup {new[bn] : bn \in M} BY <1>1 DEF Written, new
<1>6. \A j \in Inum : j # i => g.inode[j] = f.inode[j] BY DEF Written
<1>7. f.used \subseteq Block BY FsParts DEF BlockSet
<1>8. g.used \subseteq Block
  <2> SUFFICES ASSUME NEW b \in g.used PROVE b \in Block OBVIOUS
  <2>1. b \in f.used \/ \E bn \in M : b = new[bn] BY <1>5
  <2> QED BY <2>1, <1>1, <1>7
<1>9. \A bn \in M : new[bn] # NoBlock BY <1>1, Constants
<1>10. \A j \in Inum, bn \in Pos : \A b : j # i => (Has(g, j, bn, b) <=> Has(f, j, bn, b)) BY <1>6 DEF Has
<1>11. \A bn \in Pos : \A b : Has(g, i, bn, b) <=> Has(f, i, bn, b) \/ (bn \in M /\ b = new[bn])
  <2> TAKE bn \in Pos
  <2> TAKE b
  <2>1. CASE bn \in M
    <3>1. g.inode[i].addrs[bn] = new[bn] /\ f.inode[i].addrs[bn] = NoBlock /\ new[bn] # NoBlock
      BY <2>1, <1>2, <1>4, <1>9
    <3> QED BY <2>1, <3>1 DEF Has
  <2>2. CASE bn \notin M
    <3>1. g.inode[i].addrs[bn] = f.inode[i].addrs[bn] BY <2>2, <1>4
    <3> QED BY <2>2, <3>1 DEF Has
  <2> QED BY <2>1, <2>2
<1>12. \A b : b \in f.used <=> \E j \in Inum, bn \in Pos : Has(f, j, bn, b) BY DEF BlocksOK, Bitmap
<1>13. \A bn \in M, j \in Inum, bm \in Pos : ~Has(f, j, bm, new[bn]) BY <1>1, <1>12
<1>14. Bitmap(g)
  <2> SUFFICES ASSUME NEW b PROVE b \in g.used <=> \E j \in Inum, bn \in Pos : Has(g, j, bn, b)
    BY DEF Bitmap
  <2>1. ASSUME b \in f.used PROVE \E j \in Inum, bn \in Pos : Has(g, j, bn, b)
    <3>1. PICK j \in Inum, bn \in Pos : Has(f, j, bn, b) BY <2>1, <1>12
    <3>2. Has(g, j, bn, b) BY <3>1, <1>10, <1>11
    <3> QED BY <3>2
  <2>2. ASSUME NEW bn \in M, b = new[bn] PROVE \E j \in Inum, bm \in Pos : Has(g, j, bm, b)
    BY <2>2, <1>1, <1>11
  <2>3. ASSUME NEW j \in Inum, NEW bn \in Pos, Has(g, j, bn, b) PROVE b \in g.used
    <3>1. CASE Has(f, j, bn, b) BY <3>1, <1>5, <1>12
    <3>2. CASE ~Has(f, j, bn, b)
      <4>1. j = i BY <3>2, <2>3, <1>10
      <4>2. bn \in M /\ b = new[bn] BY <4>1, <3>2, <2>3, <1>11
      <4> QED BY <4>2, <1>5
    <3> QED BY <3>1, <3>2
  <2> QED BY <2>1, <2>2, <2>3, <1>5
<1>15. OwnedOnce(g)
  <2> SUFFICES ASSUME NEW k \in Inum, NEW j \in Inum, NEW bn \in Pos, NEW bm \in Pos, NEW b \in Block,
                      Has(g, k, bn, b), Has(g, j, bm, b)
               PROVE  k = j /\ bn = bm
    BY DEF OwnedOnce
  <2>1. Has(f, k, bn, b) \/ (k = i /\ bn \in M /\ b = new[bn]) BY <1>10, <1>11
  <2>2. Has(f, j, bm, b) \/ (j = i /\ bm \in M /\ b = new[bm]) BY <1>10, <1>11
  <2>3. CASE Has(f, k, bn, b) /\ Has(f, j, bm, b) BY <2>3 DEF BlocksOK, OwnedOnce
  <2>4. CASE k = i /\ bn \in M /\ b = new[bn] BY <2>2, <2>4, <1>1, <1>13
  <2>5. CASE j = i /\ bm \in M /\ b = new[bm] BY <2>1, <2>5, <1>1, <1>13
  <2> QED BY <2>1, <2>2, <2>3, <2>4, <2>5
<1>16. \A j \in Inum : j # i => Filled(g, j) /\ FreeIsEmpty(g, j)
  BY <1>6, ZenonT(40) DEF BlocksOK, Filled, FreeIsEmpty
<1>17. FreeIsEmpty(g, i) BY DEF Written, FreeIsEmpty
<1>18. Filled(g, i)
  <2> SUFFICES ASSUME NEW bn \in Pos, bn < g.inode[i].size PROVE g.inode[i].addrs[bn] # NoBlock
    BY DEF Filled
  <2>1. CASE bn \in M BY <2>1, <1>4, <1>9
  <2>2. CASE bn \notin M
    <3>1. g.inode[i].addrs[bn] = f.inode[i].addrs[bn] BY <2>2, <1>4
    <3>2. bn < f.inode[i].size \/ bn \in off..(off + n - 1)
      <4>1. g.inode[i].size = Grown(f.inode[i].size, off + n) BY DEF Written
      <4>2. off \in Nat /\ n \in Nat BY DEF Fits
      <4>3. bn \in Nat BY SMT DEF Pos
      <4> DEFINE z == f.inode[i].size
      <4>4. z \in Nat /\ off <= z BY <1>3, SMT
      <4>5. bn < Grown(z, off + n) BY <4>1
      <4> HIDE DEF z
      <4>6. bn < z \/ bn \in off..(off + n - 1) BY <4>2, <4>3, <4>4, <4>5, SMT DEF Grown
      <4> QED BY <4>6 DEF z
    <3>3. CASE bn < f.inode[i].size BY <3>1, <3>3 DEF BlocksOK, Filled
    <3>4. CASE bn \in off..(off + n - 1) BY <3>1, <3>4, <2>2, <1>2
    <3> QED BY <3>2, <3>3, <3>4
  <2> QED BY <2>1, <2>2
<1> QED BY <1>8, <1>14, <1>15, <1>16, <1>17, <1>18 DEF BlocksOK

-----------------------------------------------------------------------------
\* The file system that mkfs makes, with no file open.
LEMMA NewFsOK == FsOK(NewFs)
<1> DEFINE f == NewFs
           R == Node("dir", 1, 0, NoAddrs)
           E == Node("free", 0, 0, NoAddrs)
<1>1. /\ [FreeInode EXCEPT !.type = "dir", !.nlink = 1] = R
      /\ FreeInode = E
  <2>1. [FreeInode EXCEPT !.type = "dir"] = Node("dir", 0, 0, NoAddrs) BY SMT DEF FreeInode, Node
  <2>2. [Node("dir", 0, 0, NoAddrs) EXCEPT !.nlink = 1] = R BY SMT DEF Node
  <2>3. FreeInode = E BY DEF FreeInode, Node
  <2> QED BY <2>1, <2>2, <2>3
<1>2. NoAddrs \in AddrsType /\ \A bn \in Pos : NoAddrs[bn] = NoBlock BY NoAddrsIs
<1>3. /\ R.type = "dir" /\ R.nlink = 1 /\ R.size = 0 /\ R.addrs = NoAddrs
      /\ E.type = "free" /\ E.nlink = 0 /\ E.size = 0 /\ E.addrs = NoAddrs
  BY NodeIs, SMT
<1>4. R \in Raw /\ E \in Raw
  <2>1. "dir" \in Types /\ "free" \in Types /\ 0 \in Int /\ 1 \in Int /\ 0 \in 0..MaxFile BY Constants, SMT DEF Types
  <2> QED BY <2>1, <1>2, NodeIs
<1> HIDE DEF R, E
<1>5. /\ f.inode = [i \in Inum |-> IF i = ROOTINO THEN R ELSE E]
      /\ f.ents = [i \in Inum |-> NoEntries] /\ f.used = {}
      /\ f = Fs(f.inode, f.ents, f.used)
  BY <1>1 DEF NewFs, Fs
<1> HIDE DEF f
<1>6. f.inode[ROOTINO] = R /\ \A i \in Inum : i # ROOTINO => f.inode[i] = E BY <1>5, Constants
<1>7. \A d \in Inum, n \in Name : f.ents[d][n] = NoInode BY <1>5, NoEntriesIs
<1>8. \A i \in Inum : f.ents[i] = NoEntries BY <1>5
<1>9. \A i \in Inum : f.inode[i].addrs = NoAddrs /\ f.inode[i].size = 0 BY <1>3, <1>6
<1>10. f \in FsType
  <2>1. f.inode \in RawMap BY <1>4, <1>5 DEF RawMap
  <2>2. f.ents \in EntsType BY <1>5, NoEntriesIs DEF EntsType
  <2>3. f.used \subseteq Block BY <1>5
  <2>4. 0 \in Nat /\ 1 \in Nat OBVIOUS
  <2>5. \A j \in Inum : f.inode[j].nlink \in Nat BY <2>4, <1>3, <1>6
  <2> QED BY <2>1, <2>2, <2>3, <2>5, <1>5, FsTyped
<1>11. LinksOK(f)
  <2>1. IsDir(f, ROOTINO) BY <1>3, <1>6 DEF IsDir
  <2>2. \A i \in Inum : Entries(f, i) = {}
    <3> SUFFICES ASSUME NEW i \in Inum, NEW e \in Entries(f, i) PROVE FALSE OBVIOUS
    <3>1. PICK d \in Inum, n \in Name : e = <<d, n>> BY SMT DEF Entries
    <3>2. <<d, n>> \in Entries(f, i) BY <3>1
    <3>3. f.ents[d][n] = i BY <3>2 DEF Entries
    <3> QED BY <3>3, <1>7, Constants
  <2>3. \A i \in Inum : Subdirs(f, i) = {} BY <1>7 DEF Subdirs
  <2>4. Cardinality({}) = 0 BY FS_EmptySet
  <2>5. \A i \in Inum : LinkOK(f, i)
    <3> TAKE i \in Inum
    <3>1. CASE i = ROOTINO
      <4>1. f.inode[i].type = "dir" /\ f.inode[i].nlink = 1 BY <3>1, <1>3, <1>6
      <4>2. Cardinality(Subdirs(f, i)) = 0 /\ Cardinality(Entries(f, i)) = 0 BY <2>2, <2>3, <2>4
      <4> QED BY <3>1, <4>1, <4>2, <2>2, SMT DEF LinkOK, IsDir
    <3>2. CASE i # ROOTINO
      <4>1. f.inode[i].type = "free" BY <3>2, <1>3, <1>6
      <4> QED BY <4>1, <2>2, <1>8 DEF LinkOK, IsDir
    <3> QED BY <3>1, <3>2
  <2> QED BY <2>1, <2>5 DEF LinksOK
<1>12. BlocksOK(f)
  <2>1. \A i \in Inum, bn \in Pos : \A b : ~Has(f, i, bn, b) BY <1>2, <1>9 DEF Has
  <2>2. Bitmap(f) BY <2>1, <1>5 DEF Bitmap
  <2>3. OwnedOnce(f) BY <2>1 DEF OwnedOnce
  <2>4. \A bn \in Pos : ~(bn < 0) BY SMT DEF Pos
  <2>5. \A i \in Inum : Filled(f, i) BY <2>4, <1>9 DEF Filled
  <2>6. \A i \in Inum : FreeIsEmpty(f, i) BY <1>2, <1>9 DEF FreeIsEmpty
  <2> QED BY <2>2, <2>3, <2>5, <2>6 DEF BlocksOK
<1> QED BY <1>10, <1>11, <1>12 DEF FsOK, f

-----------------------------------------------------------------------------
\* What the invariant says of the blocks of one file system.
LEMMA Owned ==
  ASSUME NEW f, FsOK(f)
  PROVE  /\ f.used = UNION {Addrs(f.inode[i]) : i \in Inum}
         /\ \A i, j \in Inum : i # j => Addrs(f.inode[i]) \cap Addrs(f.inode[j]) = {}
         /\ \A i \in Inum : \A bn, bm \in DOMAIN f.inode[i].addrs :
              bn # bm /\ f.inode[i].addrs[bn] # NoBlock => f.inode[i].addrs[bn] # f.inode[i].addrs[bm]
         /\ \A i \in Inum : \A bn \in 0..(f.inode[i].size - 1) : f.inode[i].addrs[bn] # NoBlock
<1>1. f \in FsType /\ Bitmap(f) /\ OwnedOnce(f) /\ \A i \in Inum : Filled(f, i) BY DEF FsOK, BlocksOK
<1>2. \A i \in Inum : f.inode[i].addrs \in AddrsType /\ f.inode[i].size \in 0..MaxFile BY <1>1, FsPoint
<1>3. \A i \in Inum : \A b : b \in Addrs(f.inode[i]) <=> \E bn \in Pos : Has(f, i, bn, b) BY <1>2, AddrsIs
<1>4. \A i \in Inum : DOMAIN f.inode[i].addrs = Pos BY <1>2 DEF AddrsType
<1>5. \A i \in Inum, bn \in Pos : f.inode[i].addrs[bn] # NoBlock => f.inode[i].addrs[bn] \in Block
  <2> SUFFICES ASSUME NEW i \in Inum, NEW bn \in Pos PROVE f.inode[i].addrs[bn] \in Block \cup {NoBlock} OBVIOUS
  <2> QED BY <1>2 DEF AddrsType
<1>6. f.used = UNION {Addrs(f.inode[i]) : i \in Inum}
  <2>1. ASSUME NEW b \in f.used PROVE b \in UNION {Addrs(f.inode[i]) : i \in Inum}
    <3>1. PICK i \in Inum, bn \in Pos : Has(f, i, bn, b) BY <2>1, <1>1 DEF Bitmap
    <3>2. b \in Addrs(f.inode[i]) BY <3>1, <1>3
    <3> QED BY <3>2
  <2>2. ASSUME NEW b \in UNION {Addrs(f.inode[i]) : i \in Inum} PROVE b \in f.used
    <3>1. PICK i \in Inum : b \in Addrs(f.inode[i]) BY <2>2
    <3>2. PICK bn \in Pos : Has(f, i, bn, b) BY <3>1, <1>3
    <3> QED BY <3>2, <1>1 DEF Bitmap
  <2> QED BY <2>1, <2>2
<1>7. ASSUME NEW i \in Inum, NEW j \in Inum, i # j, NEW b, b \in Addrs(f.inode[i]), b \in Addrs(f.inode[j]) PROVE FALSE
  <2>1. PICK bn \in Pos : Has(f, i, bn, b) BY <1>7, <1>3
  <2>2. PICK bm \in Pos : Has(f, j, bm, b) BY <1>7, <1>3
  <2>3. b \in Block BY <2>1, <1>5 DEF Has
  <2> QED BY <1>7, <2>1, <2>2, <2>3, <1>1 DEF OwnedOnce
<1>8. ASSUME NEW i \in Inum, NEW bn \in DOMAIN f.inode[i].addrs, NEW bm \in DOMAIN f.inode[i].addrs,
             bn # bm, f.inode[i].addrs[bn] # NoBlock, f.inode[i].addrs[bn] = f.inode[i].addrs[bm]
      PROVE  FALSE
  <2>1. bn \in Pos /\ bm \in Pos BY <1>8, <1>4
  <2>2. f.inode[i].addrs[bn] \in Block BY <1>8, <2>1, <1>5
  <2>3. PICK b \in Block : Has(f, i, bn, b) /\ Has(f, i, bm, b) BY <1>8, <2>2 DEF Has
  <2> QED BY <1>8, <2>1, <2>3, <1>1 DEF OwnedOnce
<1>9. ASSUME NEW i \in Inum, NEW bn \in 0..(f.inode[i].size - 1) PROVE f.inode[i].addrs[bn] # NoBlock
  <2> DEFINE z == f.inode[i].size
  <2>1. z \in 0..MaxFile BY <1>2
  <2>2. bn \in 0..(z - 1) BY <1>9
  <2> HIDE DEF z
  <2>3. bn \in Pos /\ bn < z BY <2>1, <2>2, Constants, SMT DEF Pos
  <2>4. bn < f.inode[i].size BY <2>3 DEF z
  <2> QED BY <2>3, <2>4, <1>1 DEF Filled
<1> QED BY <1>6, <1>7, <1>8, <1>9

-----------------------------------------------------------------------------
\* An open file has an inode of type file.
OpenOK(f, o) == \A s \in File : o[s] # Closed => o[s].ip \in Inum /\ f.inode[o[s].ip].type = "file"

RefsOf(o, i) == {s \in File : o[s].ip = i}

\* An inode without links is open, or a crash closed it.
HeldOK(f, o, l) ==
  \A i \in Inum : f.inode[i].type # "free" /\ f.inode[i].nlink = 0 => RefsOf(o, i) # {} \/ i \in l

\* A running write has an open file and blocks left to write.
CallOK(c, o) ==
  /\ c \in [file : File \cup {NoInode}, off : 0..MaxFile, n : 0..MaxFile]
  /\ c # NoCall => c.file \in File /\ o[c.file] # Closed /\ c.n > 0

OpenType == [File -> [ip : Inum \cup {NoInode}, writable : BOOLEAN]]
SysOK(f, o, l) == FsOK(f) /\ o \in OpenType /\ OpenOK(f, o) /\ HeldOK(f, o, l)

\* The inductive invariant.
IInv ==
  /\ SysOK(fs, open, lost)
  /\ FsOK(stable)
  /\ outstanding \in -MaxUnderrun..0
  /\ CallOK(call, open)
  /\ lost \subseteq Inum

-----------------------------------------------------------------------------
\* The file system, with the open files and the inodes that a crash left.
\* References are counted in a finite table.
LEMMA RefsAre ==
  ASSUME NEW o, NEW i
  PROVE  /\ IsFiniteSet(RefsOf(o, i)) /\ Cardinality(RefsOf(o, i)) \in Nat
         /\ Cardinality(RefsOf(o, i)) = 0 <=> RefsOf(o, i) = {}
<1>1. RefsOf(o, i) \in SUBSET File BY DEF RefsOf
<1>2. IsFiniteSet(File) BY Xv6SysAssumption
<1>3. IsFiniteSet(RefsOf(o, i)) BY <1>1, <1>2, FS_Subset
<1> QED BY <1>3, FS_CardinalityType, FS_EmptySet

\* A closed slot refers to no inode, and an open one to a file.
LEMMA ClosedIs == Closed.ip = NoInode /\ Closed.writable = FALSE
BY DEF Closed

\* An inode that an open file refers to is a file.
LEMMA RefIsFile ==
  ASSUME NEW f, NEW o, OpenOK(f, o), NEW i \in Inum, RefsOf(o, i) # {}
  PROVE  f.inode[i].type = "file"
<1>1. PICK s \in File : o[s].ip = i BY DEF RefsOf
<1>2. o[s] # Closed BY <1>1, ClosedIs, Constants
<1> QED BY <1>1, <1>2 DEF OpenOK

\* Only a directory has a link for itself.
LEMMA DirHasLinks ==
  ASSUME NEW f, LinksOK(f), NEW d \in Inum, IsDir(f, d)
  PROVE  f.inode[d].nlink # 0
<1>1. f.inode[d].nlink = 1 + Cardinality(Subdirs(f, d)) BY DEF LinksOK, LinkOK
<1>2. Cardinality(Subdirs(f, d)) \in Nat BY FiniteEntries
<1> QED BY <1>1, <1>2, SMT

\* sys_dounlink keeps links, blocks and references right: what is open is not freed.
LEMMA UnlinkSys ==
  ASSUME NEW f, NEW o, NEW l, SysOK(f, o, l), NEW d \in Inum, NEW n \in Name, UnlinkResult(f, d, n) = "ok",
         NEW refs, \A i \in Inum : refs[i] = Cardinality(RefsOf(o, i))
  PROVE  /\ SysOK(DoUnlink(f, d, n, refs), o, l)
         /\ IsDir(DoUnlink(f, d, n, refs), d)
         /\ Changed(f.ents, DoUnlink(f, d, n, refs).ents, d, n, NoInode)
<1> DEFINE i == f.ents[d][n]
           g == DoUnlink(f, d, n, refs)
           freed == refs[i] = 0 /\ f.inode[i].nlink = 1
<1>1. f \in FsType /\ LinksOK(f) /\ BlocksOK(f) /\ o \in OpenType /\ OpenOK(f, o) /\ HeldOK(f, o, l)
  BY DEF SysOK, FsOK
<1>2. i \in Inum /\ (IsDir(f, i) => IsDirEmpty(f, i))
  <2>1. i # NoInode /\ (IsDir(f, i) => IsDirEmpty(f, i)) BY DEF UnlinkResult, DirLookup
  <2> QED BY <2>1, <1>1, FsPoint
<1> HIDE DEF i
<1>3. i = f.ents[d][n] BY DEF i
<1>4. IsDir(f, d) /\ f.inode[i].type # "free" /\ (IsDir(f, i) => i # d /\ f.inode[i].nlink = 1)
  BY <1>1, <1>2, <1>3, EntryIs, SMT
<1>5. i # d BY <1>4
<1>6. IsDir(f, i) => freed
  <2> SUFFICES ASSUME IsDir(f, i) PROVE refs[i] = 0 BY <1>4
  <2>1. RefsOf(o, i) = {}
    <3>1. f.inode[i].type # "file" BY DEF IsDir
    <3> QED BY <3>1, <1>1, <1>2, RefIsFile
  <2>2. Cardinality(RefsOf(o, i)) = 0 BY <2>1, RefsAre
  <2> QED BY <2>2, <1>2
<1>7. Unlinked(f, g, d, n, i, freed)
  <2> HIDE DEF g, freed
  <2>1. Unlinked(f, DoUnlink(f, d, n, refs), d, n, i, refs[i] = 0 /\ f.inode[i].nlink = 1)
    BY <1>1, <1>2, <1>3, <1>5, DoUnlinkForm, ZenonT(40)
  <2> QED BY <2>1 DEF g, freed
<1>8. freed \in BOOLEAN /\ (freed => f.inode[i].nlink = 1) OBVIOUS
<1>9. (freed => RefsOf(o, i) = {}) /\ (~freed /\ f.inode[i].nlink = 1 => RefsOf(o, i) # {})
  BY <1>2, RefsAre
<1> HIDE DEF g, freed
<1>10. LinksOK(g) /\ \A j \in Inum : g.inode[j].nlink \in Nat
  <2>1. f \in FsType /\ LinksOK(f) /\ i \in Inum /\ (IsDir(f, i) => freed /\ IsDirEmpty(f, i)) BY <1>1, <1>2, <1>6
  <2> QED BY <2>1, <1>3, <1>5, <1>7, <1>8, UnlinkLinks, ZenonT(40)
<1>11. BlocksOK(g) /\ g.used \subseteq Block BY <1>1, <1>2, <1>7, <1>8, UnlinkBlocks, ZenonT(40)
<1>12. /\ g = Fs(g.inode, g.ents, g.used) /\ g.inode \in RawMap /\ Changed(f.ents, g.ents, d, n, NoInode)
       /\ \A j \in Inum : j # i => Same(f.inode[j], g.inode[j], IF j = d /\ IsDir(f, i) THEN -1 ELSE 0)
       /\ freed => g.inode[i] = Freed
       /\ ~freed => Same(f.inode[i], g.inode[i], -1)
  BY <1>7 DEF Unlinked
<1>13. g.ents \in EntsType BY <1>12 DEF Changed
<1>14. g \in FsType BY <1>10, <1>11, <1>12, <1>13, FsTyped
<1>15. IsDir(g, d) BY <1>4, <1>5, <1>12 DEF Same, IsDir
<1>16. \A j \in Inum : j # i => g.inode[j].type = f.inode[j].type BY <1>12 DEF Same
<1>17. ~freed => g.inode[i].type = f.inode[i].type BY <1>12 DEF Same
<1>18. OpenOK(g, o)
  <2> SUFFICES ASSUME NEW s \in File, o[s] # Closed PROVE o[s].ip \in Inum /\ g.inode[o[s].ip].type = "file"
    BY DEF OpenOK
  <2>1. o[s].ip \in Inum /\ f.inode[o[s].ip].type = "file" BY <1>1 DEF OpenOK
  <2>2. s \in RefsOf(o, o[s].ip) BY DEF RefsOf
  <2>3. o[s].ip = i => ~freed BY <2>2, <1>9
  <2> QED BY <2>1, <2>3, <1>16, <1>17
<1>19. HeldOK(g, o, l)
  <2> SUFFICES ASSUME NEW j \in Inum, g.inode[j].type # "free", g.inode[j].nlink = 0
               PROVE  RefsOf(o, j) # {} \/ j \in l
    BY DEF HeldOK
  <2>1. CASE j = i
    <3>1. ~freed BY <2>1, <1>12, FreedIs
    <3>2. g.inode[i].nlink = f.inode[i].nlink + (-1) BY <3>1, <1>12 DEF Same
    <3>3. f.inode[i].nlink \in Nat BY <1>1, <1>2, FsPoint
    <3>4. f.inode[i].nlink = 1 BY <2>1, <3>2, <3>3, SMT
    <3> QED BY <2>1, <3>1, <3>4, <1>9
  <2>2. CASE j # i
    <3>1. j # d BY <1>10, <1>15, DirHasLinks
    <3>2. g.inode[j].nlink = f.inode[j].nlink + 0 BY <2>2, <3>1, <1>12 DEF Same
    <3>3. f.inode[j].nlink \in Nat BY <1>1, FsPoint
    <3>4. f.inode[j].nlink = 0 BY <3>2, <3>3, SMT
    <3> QED BY <3>4, <2>2, <1>1, <1>16 DEF HeldOK
  <2> QED BY <2>1, <2>2
<1> QED BY <1>1, <1>10, <1>11, <1>12, <1>14, <1>15, <1>18, <1>19 DEF SysOK, FsOK, g

\* So do create and sys_dolink.
LEMMA GainedSys ==
  ASSUME NEW f, NEW o, NEW l, SysOK(f, o, l), NEW d \in Inum, NEW n \in Name, NEW i \in Inum,
         f.ents[d][n] = NoInode, IsDir(f, d), NEW g, Gained(f, g, d, n, i)
  PROVE  SysOK(g, o, l)
<1>1. f \in FsType /\ LinksOK(f) /\ BlocksOK(f) /\ o \in OpenType /\ OpenOK(f, o) /\ HeldOK(f, o, l)
  BY DEF SysOK, FsOK
<1>2. /\ g = Fs(g.inode, g.ents, g.used) /\ g.inode \in RawMap /\ Changed(f.ents, g.ents, d, n, i)
      /\ \A j \in Inum : j # i => Same(f.inode[j], g.inode[j], IF j = d /\ IsDir(g, i) THEN 1 ELSE 0)
      /\ \/ f.inode[i].type \in {"file", "sock"} /\ Same(f.inode[i], g.inode[i], 1)
         \/ f.inode[i].type = "free" /\ g.inode[i].nlink = 1
  BY DEF Gained
<1>3. LinksOK(g) /\ \A j \in Inum : g.inode[j].nlink \in Nat BY <1>1, GainedLinks
<1>4. BlocksOK(g) /\ g.used \subseteq Block BY <1>1, GainedBlocks
<1>5. g.ents \in EntsType BY <1>2 DEF Changed
<1>6. g \in FsType BY <1>2, <1>3, <1>4, <1>5, FsTyped
<1>7. \A j \in Inum : f.inode[j].type # "free" => g.inode[j].type = f.inode[j].type BY <1>2 DEF Same
<1>8. OpenOK(g, o)
  <2> SUFFICES ASSUME NEW s \in File, o[s] # Closed PROVE o[s].ip \in Inum /\ g.inode[o[s].ip].type = "file"
    BY DEF OpenOK
  <2>1. o[s].ip \in Inum /\ f.inode[o[s].ip].type = "file" BY <1>1 DEF OpenOK
  <2>2. f.inode[o[s].ip].type # "free" BY <2>1
  <2> QED BY <2>1, <2>2, <1>7
<1>9. HeldOK(g, o, l)
  <2> SUFFICES ASSUME NEW j \in Inum, g.inode[j].type # "free", g.inode[j].nlink = 0
               PROVE  RefsOf(o, j) # {} \/ j \in l
    BY DEF HeldOK
  <2>0. f.inode[j].nlink \in Nat /\ f.inode[i].nlink \in Nat BY <1>1, FsPoint
  <2>1. j # i
    <3>1. CASE Same(f.inode[i], g.inode[i], 1)
      <4>1. g.inode[i].nlink = f.inode[i].nlink + 1 BY <3>1 DEF Same
      <4>2. g.inode[i].nlink # 0 BY <4>1, <2>0, SMT
      <4> QED BY <4>2
    <3>2. CASE g.inode[i].nlink = 1
      <4>1. g.inode[i].nlink # 0 BY <3>2, SMT
      <4> QED BY <4>1
    <3> QED BY <3>1, <3>2, <1>2
  <2>2. j # d
    <3>1. IsDir(g, d)
      <4>1. f.inode[d].type # "free" BY DEF IsDir
      <4> QED BY <4>1, <1>7 DEF IsDir
    <3> QED BY <3>1, <1>3, DirHasLinks
  <2>3. g.inode[j].nlink = f.inode[j].nlink + 0 /\ g.inode[j].type = f.inode[j].type
    BY <2>1, <2>2, <1>2 DEF Same
  <2>4. f.inode[j].nlink = 0 BY <2>0, <2>3, SMT
  <2> QED BY <2>3, <2>4, <1>1 DEF HeldOK
<1> QED BY <1>1, <1>3, <1>4, <1>6, <1>8, <1>9 DEF SysOK, FsOK

\* itrunc keeps all of it right, whoever has the file open.
LEMMA TruncSys ==
  ASSUME NEW f, NEW o, NEW l, SysOK(f, o, l), NEW i \in Inum
  PROVE  SysOK(ITrunc(f, i), o, l)
<1> DEFINE x == Node(f.inode[i].type, f.inode[i].nlink, 0, NoAddrs)
           g == ITrunc(f, i)
<1>1. FsOK(f) /\ f \in FsType /\ o \in OpenType /\ OpenOK(f, o) /\ HeldOK(f, o, l) BY DEF SysOK, FsOK
<1>2. x.type = f.inode[i].type /\ x.nlink = f.inode[i].nlink /\ x.size = 0 /\ x.addrs = NoAddrs BY NodeIs, SMT
<1>3. x \in Raw
  <2>1. 0 \in 0..MaxFile BY Constants, SMT
  <2>2. f.inode[i].type \in Types /\ f.inode[i].nlink \in Int BY <1>1, FsPoint, RawIs
  <2> QED BY <2>1, <2>2, NoAddrsIs, NodeIs, ZenonT(40)
<1>4. g = Fs(SetAt(f.inode, i, x), f.ents, f.used \ Addrs(f.inode[i]))
  <2> DEFINE I == f.inode
             E == f.ents
             U == f.used
  <2>1. f = Fs(I, E, U) /\ I \in RawMap /\ E \in EntsType /\ U \in BlockSet BY <1>1, FsParts
  <2>2. ITrunc(Fs(I, E, U), i) = Fs(SetAt(I, i, Node(I[i].type, I[i].nlink, 0, NoAddrs)), E, U \ Addrs(I[i]))
    <3> HIDE DEF I, E, U
    <3> QED BY <2>1, ITruncForm, ZenonT(40)
  <2> QED BY <2>1, <2>2
<1> HIDE DEF x
<1>5. Emptied(f, g, i, x) BY <1>1, <1>3, <1>4, EmptiedIs
<1> HIDE DEF g
<1>6. KeepsLinks(f, g, i) BY <1>2, <1>5 DEF Emptied, KeepsLinks
<1>7. FsOK(g) BY <1>1, <1>2, <1>5, <1>6, EmptiedFs
<1>8. \A j \in Inum : g.inode[j].type = f.inode[j].type /\ g.inode[j].nlink = f.inode[j].nlink
  BY <1>2, <1>5 DEF Emptied
<1>9. OpenOK(g, o) BY <1>1, <1>8 DEF OpenOK
<1>10. HeldOK(g, o, l) BY <1>1, <1>8 DEF HeldOK
<1> QED BY <1>1, <1>7, <1>9, <1>10 DEF SysOK, g

-----------------------------------------------------------------------------
\* A slot of the table of open files changes.
LEMMA SetSlot ==
  ASSUME NEW o \in OpenType, NEW s \in File, NEW x \in [ip : Inum \cup {NoInode}, writable : BOOLEAN]
  PROVE  /\ SetAt(o, s, x) \in OpenType
         /\ SetAt(o, s, x)[s] = x
         /\ \A r \in File : r # s => SetAt(o, s, x)[r] = o[r]
BY DEF SetAt, OpenType

\* sys_open of a file: one more reference.
LEMMA OpenSys ==
  ASSUME NEW f, NEW o, NEW l, SysOK(f, o, l), NEW s \in File, o[s] = Closed,
         NEW i \in Inum, f.inode[i].type = "file", NEW w \in BOOLEAN
  PROVE  SysOK(f, [o EXCEPT ![s] = [ip |-> i, writable |-> w]], l)
<1> DEFINE x == [ip |-> i, writable |-> w]
           p == SetAt(o, s, x)
<1>1. FsOK(f) /\ o \in OpenType /\ OpenOK(f, o) /\ HeldOK(f, o, l) BY DEF SysOK
<1>2. x \in [ip : Inum \cup {NoInode}, writable : BOOLEAN] /\ x.ip = i OBVIOUS
<1> HIDE DEF x
<1>3. p \in OpenType /\ p[s] = x /\ \A r \in File : r # s => p[r] = o[r] BY <1>1, <1>2, SetSlot, SMT
<1> HIDE DEF p
<1>4. OpenOK(f, p) BY <1>1, <1>2, <1>3 DEF OpenOK
<1>5. \A j \in Inum : RefsOf(o, j) \subseteq RefsOf(p, j)
  <2>1. \A j \in Inum : o[s].ip # j BY ClosedIs, Constants
  <2> QED BY <2>1, <1>3 DEF RefsOf
<1>6. HeldOK(f, p, l)
  <2> SUFFICES ASSUME NEW j \in Inum, f.inode[j].type # "free", f.inode[j].nlink = 0
               PROVE  RefsOf(p, j) # {} \/ j \in l
    BY DEF HeldOK
  <2>1. RefsOf(o, j) # {} \/ j \in l BY <1>1 DEF HeldOK
  <2>2. RefsOf(o, j) \subseteq RefsOf(p, j) BY <1>5
  <2> QED BY <2>1, <2>2
<1>7. SysOK(f, p, l) BY <1>1, <1>3, <1>4, <1>6 DEF SysOK
<1> QED BY <1>7 DEF p, x, SetAt

\* fileclose: one reference less.
Closes(o, p, s) ==
  /\ p \in OpenType /\ p[s] = Closed /\ \A r \in File : r # s => p[r] = o[r]
  /\ \A j \in Inum : RefsOf(p, j) = RefsOf(o, j) \ {s}

\* Closing slot s takes s from the references of its inode.
LEMMA ClosedRefs ==
  ASSUME NEW o \in OpenType, NEW s \in File
  PROVE  Closes(o, SetAt(o, s, Closed), s)
<1> DEFINE p == SetAt(o, s, Closed)
<1>1. Closed \in [ip : Inum \cup {NoInode}, writable : BOOLEAN] BY DEF Closed
<1>2. p \in OpenType /\ p[s] = Closed /\ \A r \in File : r # s => p[r] = o[r] BY <1>1, SetSlot, SMT
<1> HIDE DEF p
<1>3. ASSUME NEW j \in Inum PROVE RefsOf(p, j) = RefsOf(o, j) \ {s}
  <2>1. p[s].ip # j BY <1>2, ClosedIs, Constants
  <2> QED BY <2>1, <1>2 DEF RefsOf
<1> QED BY <1>2, <1>3 DEF Closes, p

\* fileclose of a reference that is not the last, or of an inode with links.
LEMMA CloseKeeps ==
  ASSUME NEW f, NEW o, NEW l, SysOK(f, o, l), NEW s \in File, o[s] # Closed,
         ~(Cardinality(RefsOf(o, o[s].ip)) = 1 /\ f.inode[o[s].ip].nlink = 0)
  PROVE  SysOK(f, [o EXCEPT ![s] = Closed], l)
<1> DEFINE i == o[s].ip
           p == SetAt(o, s, Closed)
<1>1. FsOK(f) /\ o \in OpenType /\ OpenOK(f, o) /\ HeldOK(f, o, l) BY DEF SysOK
<1>2. /\ p \in OpenType /\ p[s] = Closed /\ \A r \in File : r # s => p[r] = o[r]
      /\ \A j \in Inum : RefsOf(p, j) = RefsOf(o, j) \ {s}
  <2>1. Closes(o, p, s) BY <1>1, ClosedRefs
  <2> QED BY <2>1 DEF Closes
<1> HIDE DEF p
<1>3. OpenOK(f, p) BY <1>1, <1>2 DEF OpenOK
<1>4. HeldOK(f, p, l)
  <2> SUFFICES ASSUME NEW j \in Inum, f.inode[j].type # "free", f.inode[j].nlink = 0
               PROVE  RefsOf(p, j) # {} \/ j \in l
    BY DEF HeldOK
  <2>1. RefsOf(o, j) # {} \/ j \in l BY <1>1 DEF HeldOK
  <2>2. RefsOf(p, j) = RefsOf(o, j) \ {s} BY <1>2
  <2>3. CASE j # i
    <3>1. s \notin RefsOf(o, j) BY <2>3 DEF RefsOf
    <3> QED BY <3>1, <2>1, <2>2
  <2>4. CASE j = i
    <3>1. Cardinality(RefsOf(o, j)) # 1 BY <2>4
    <3>2. IsFiniteSet(RefsOf(o, j)) BY RefsAre
    <3>3. RefsOf(o, j) # {s} BY <3>1, FS_Singleton
    <3> QED BY <3>3, <2>1, <2>2
  <2> QED BY <2>3, <2>4
<1>5. SysOK(f, p, l) BY <1>1, <1>2, <1>3, <1>4 DEF SysOK
<1> QED BY <1>5 DEF p, SetAt

\* fileclose of the last reference frees an inode without links.
LEMMA CloseFrees ==
  ASSUME NEW f, NEW o, NEW l, SysOK(f, o, l), NEW s \in File, o[s] # Closed,
         Cardinality(RefsOf(o, o[s].ip)) = 1, f.inode[o[s].ip].nlink = 0
  PROVE  SysOK(IPut(f, o[s].ip), [o EXCEPT ![s] = Closed], l)
<1> DEFINE i == o[s].ip
           p == SetAt(o, s, Closed)
           g == IPut(f, i)
<1>1. FsOK(f) /\ f \in FsType /\ o \in OpenType /\ OpenOK(f, o) /\ HeldOK(f, o, l) BY DEF SysOK, FsOK
<1>2. i \in Inum /\ f.inode[i].type = "file" BY <1>1 DEF OpenOK
<1>3. g = Fs(SetAt(f.inode, i, Freed), f.ents, f.used \ Addrs(f.inode[i]))
  <2> DEFINE I == f.inode
             E == f.ents
             U == f.used
  <2>1. f = Fs(I, E, U) /\ I \in RawMap /\ E \in EntsType /\ U \in BlockSet BY <1>1, FsParts
  <2>2. I[i].nlink = 0 OBVIOUS
  <2>3. IPut(Fs(I, E, U), i) = Fs(SetAt(I, i, Freed), E, U \ Addrs(I[i]))
    <3> HIDE DEF I, E, U, i
    <3> QED BY <2>1, <2>2, <1>2, IPutForm, SMT DEF Freed
  <2> QED BY <2>1, <2>3
<1>4. RefsOf(o, i) = {s}
  <2>1. PICK x : RefsOf(o, i) = {x} BY RefsAre, FS_Singleton
  <2>2. s \in RefsOf(o, i) BY DEF RefsOf
  <2> QED BY <2>1, <2>2
<1>5. f.inode[i].nlink = 0 OBVIOUS
<1> HIDE DEF i
<1>6. Emptied(f, g, i, Freed)
  <2> HIDE DEF g
  <2> QED BY <1>1, <1>2, <1>3, FreedIs, EmptiedIs
<1> HIDE DEF g
<1>7. KeepsLinks(f, g, i) BY <1>2, <1>5, <1>6, FreedIs DEF Emptied, KeepsLinks
<1>8. FsOK(g) BY <1>1, <1>2, <1>6, <1>7, FreedIs, EmptiedFs
<1>9. /\ p \in OpenType /\ p[s] = Closed /\ \A r \in File : r # s => p[r] = o[r]
      /\ \A j \in Inum : RefsOf(p, j) = RefsOf(o, j) \ {s}
  <2>1. Closes(o, p, s) BY <1>1, ClosedRefs
  <2> QED BY <2>1 DEF Closes
<1> HIDE DEF p
<1>10. OpenOK(g, p)
  <2> SUFFICES ASSUME NEW r \in File, p[r] # Closed PROVE p[r].ip \in Inum /\ g.inode[p[r].ip].type = "file"
    BY DEF OpenOK
  <2>1. r # s /\ p[r] = o[r] BY <1>9
  <2>2. o[r].ip \in Inum /\ f.inode[o[r].ip].type = "file" BY <2>1, <1>1 DEF OpenOK
  <2>3. o[r].ip # i BY <2>1, <1>4 DEF RefsOf
  <2> QED BY <2>1, <2>2, <2>3, <1>6 DEF Emptied
<1>11. HeldOK(g, p, l)
  <2> SUFFICES ASSUME NEW j \in Inum, g.inode[j].type # "free", g.inode[j].nlink = 0
               PROVE  RefsOf(p, j) # {} \/ j \in l
    BY DEF HeldOK
  <2>1. j # i BY <1>6, FreedIs DEF Emptied
  <2>2. g.inode[j] = f.inode[j] BY <2>1, <1>6 DEF Emptied
  <2>3. RefsOf(o, j) # {} \/ j \in l BY <2>2, <1>1 DEF HeldOK
  <2>4. s \notin RefsOf(o, j) BY <2>1 DEF RefsOf, i
  <2> QED BY <2>3, <2>4, <1>9
<1>12. SysOK(g, p, l) BY <1>8, <1>9, <1>10, <1>11 DEF SysOK
<1> QED BY <1>12 DEF g, i, p, SetAt

\* A crash closes all files; what it leaves without links is in lost.
LEMMA DieSys ==
  ASSUME NEW f, FsOK(f)
  PROVE  SysOK(f, [s \in File |-> Closed], {i \in Inum : f.inode[i].type # "free" /\ f.inode[i].nlink = 0})
<1> DEFINE o == [s \in File |-> Closed]
           l == {i \in Inum : f.inode[i].type # "free" /\ f.inode[i].nlink = 0}
<1>1. o \in OpenType BY DEF OpenType, Closed
<1>2. OpenOK(f, o) BY DEF OpenOK
<1>3. HeldOK(f, o, l) BY DEF HeldOK
<1> QED BY <1>1, <1>2, <1>3 DEF SysOK

\* A transaction of filewrite keeps the system sound.
LEMMA WriteSys ==
  ASSUME NEW f, NEW o, NEW l, SysOK(f, o, l), NEW i \in Inum, f.inode[i].type # "free",
         NEW off \in Nat, NEW n \in Nat, CanWrite(f, i, off, n), off <= f.inode[i].size
  PROVE  SysOK(WriteI(f, i, off, n), o, l)
<1> DEFINE g == WriteI(f, i, off, n)
<1>1. f \in FsType /\ LinksOK(f) /\ BlocksOK(f) /\ o \in OpenType /\ OpenOK(f, o) /\ HeldOK(f, o, l)
  BY DEF SysOK, FsOK
<1>2. Fits(f, i, off, n) BY DEF Fits, CanWrite
<1>3. Written(f, g, i, off, n, BAlloc(f, i, off, n)) BY <1>1, <1>2, WriteForm
<1> HIDE DEF g
<1>4. \A j \in Inum : g.inode[j].type = f.inode[j].type /\ g.inode[j].nlink = f.inode[j].nlink
  BY <1>3 DEF Written
<1>5. g = Fs(g.inode, g.ents, g.used) /\ g.inode \in RawMap /\ g.ents = f.ents BY <1>3 DEF Written
<1>6. \A j \in Inum : KeepsLinks(f, g, j) BY <1>4 DEF KeepsLinks
<1>7. LinksOK(g) /\ \A j \in Inum : g.inode[j].nlink \in Nat BY <1>1, <1>5, <1>6, LinksKept
<1>8. BlocksOK(g) /\ g.used \subseteq Block BY <1>1, <1>2, <1>3, WriteBlocks
<1>9. g.ents \in EntsType BY <1>1, <1>5, FsParts
<1>10. g \in FsType BY <1>5, <1>7, <1>8, <1>9, FsTyped
<1>11. OpenOK(g, o) BY <1>1, <1>4 DEF OpenOK
<1>12. HeldOK(g, o, l) BY <1>1, <1>4 DEF HeldOK
<1> QED BY <1>1, <1>7, <1>8, <1>10, <1>11, <1>12 DEF SysOK, FsOK, g

-----------------------------------------------------------------------------
\* No call is running.
LEMMA NoCallOK ==
  ASSUME NEW o
  PROVE  CallOK(NoCall, o)
BY Constants, SMT DEF CallOK, NoCall

\* The start, after mkfs.
LEMMA InitStep == Init => IInv
<1> SUFFICES ASSUME Init PROVE IInv OBVIOUS
<1> DEFINE o == [s \in File |-> Closed]
<1>1. FsOK(NewFs) BY NewFsOK
<1>2. SysOK(NewFs, o, {i \in Inum : NewFs.inode[i].type # "free" /\ NewFs.inode[i].nlink = 0})
  BY <1>1, DieSys
<1>3. {i \in Inum : NewFs.inode[i].type # "free" /\ NewFs.inode[i].nlink = 0} = {}
  BY SMT DEF NewFs, FreeInode
<1> HIDE DEF o
<1>4. SysOK(NewFs, o, {}) BY <1>2, <1>3
<1>5. 0 \in -MaxUnderrun..0 BY Xv6SysAssumption, SMT
<1>6. CallOK(NoCall, open) BY NoCallOK
<1> QED BY <1>1, <1>4, <1>5, <1>6 DEF Init, IInv, o

\* A crash or a panic goes back to the last commit.
LEMMA DieStep ==
  ASSUME IInv, Die
  PROVE  IInv'
<1> DEFINE o == [s \in File |-> Closed]
           l == {i \in Inum : stable.inode[i].type # "free" /\ stable.inode[i].nlink = 0}
<1>1. FsOK(stable) BY DEF IInv
<1>2. SysOK(stable, o, l) BY <1>1, DieSys
<1>3. l \subseteq Inum OBVIOUS
<1>4. /\ fs' = stable /\ outstanding' = 0 /\ open' = o /\ call' = NoCall /\ lost' = l
      /\ stable' = stable
  BY DEF Die
<1> HIDE DEF o, l
<1>5. SysOK(fs', open', lost') /\ lost' \subseteq Inum BY <1>2, <1>3, <1>4
<1>6. FsOK(stable') BY <1>1, <1>4
<1>7. outstanding' \in -MaxUnderrun..0 BY <1>4, Xv6SysAssumption, SMT
<1>8. CallOK(call', open') BY <1>4, NoCallOK
<1> QED BY <1>5, <1>6, <1>7, <1>8 DEF IInv

\* A transaction that leaves a sound file system commits one, or nothing.
LEMMA RunsStep ==
  ASSUME IInv, NEW g, NEW ends \in {1, 2}, Runs(g, ends), ends = 2 => outstanding > -MaxUnderrun,
         SysOK(g, open', lost), CallOK(call', open')
  PROVE  IInv'
<1>1. fs' = g /\ lost' = lost BY DEF Runs
<1>2. SysOK(fs', open', lost') /\ lost' \subseteq Inum BY <1>1 DEF IInv
<1>3. FsOK(stable')
  <2>1. FsOK(g) /\ FsOK(stable) BY DEF SysOK, IInv
  <2>2. stable' = g \/ stable' = stable BY DEF Runs
  <2> QED BY <2>1, <2>2
<1>4. outstanding' \in -MaxUnderrun..0
  <2>1. outstanding \in -MaxUnderrun..0 /\ MaxUnderrun \in Nat BY Xv6SysAssumption DEF IInv
  <2>2. outstanding' = outstanding + 1 - ends BY DEF Runs
  <2> QED BY <2>1, <2>2, SMT
<1> QED BY <1>2, <1>3, <1>4 DEF IInv

\* The transaction of a call other than write.
LEMMA TxnStep ==
  ASSUME IInv, Idle, NEW g, NEW ends \in {1, 2}, Txn(g, ends), ends = 2 => outstanding > -MaxUnderrun,
         SysOK(g, open', lost)
  PROVE  IInv'
<1>1. Runs(g, ends) /\ call' = NoCall BY DEF Txn, Idle
<1>2. CallOK(call', open') BY <1>1, NoCallOK
<1> QED BY <1>1, <1>2, RunsStep

-----------------------------------------------------------------------------
\* What the calls know about the path they are given.
LEMMA DirsAre ==
  ASSUME NEW d \in Dirs
  PROVE  d \in Inum /\ IsDir(fs, d)
BY DEF Dirs, Linked

\* An entry that the call finds is an inode of the right type.
LEMMA EntryFound ==
  ASSUME IInv, NEW d \in Inum, NEW n \in Name, NEW types, Entry(d, n, types)
  PROVE  /\ DirLookup(fs, d, n) \in Inum
         /\ fs.inode[DirLookup(fs, d, n)].type \in types
<1>1. fs \in FsType BY DEF IInv, SysOK, FsOK
<1>2. fs.ents[d][n] \in Inum \/ fs.ents[d][n] = NoInode BY <1>1, FsPoint
<1> QED BY <1>2 DEF Entry, DirLookup

\* ip->ref counts the open files of an inode.
LEMMA RefsIs == \A i \in Inum : Refs[i] = Cardinality(RefsOf(open, i))
BY DEF Refs, RefsOf

\* sys_open.
LEMMA OpenStep ==
  ASSUME IInv, NEW d \in Dirs, NEW n \in Name, NEW w \in BOOLEAN, SysOpen(d, n, w)
  PROVE  IInv'
<1> DEFINE i == DirLookup(fs, d, n)
<1>1. Idle /\ Txn(fs, 1) /\ Entry(d, n, {"file"}) BY DEF SysOpen
<1>2. PICK s \in File : open[s] = Closed /\ open' = [open EXCEPT ![s] = [ip |-> i, writable |-> w]]
  BY DEF SysOpen
<1>3. i \in Inum /\ fs.inode[i].type \in {"file"} BY <1>1, DirsAre, EntryFound
<1>4. fs.inode[i].type = "file" BY <1>3
<1>5. SysOK(fs, open, lost) BY DEF IInv
<1> HIDE DEF i
<1>6. SysOK(fs, open', lost) BY <1>2, <1>3, <1>4, <1>5, OpenSys
<1>7. 1 \in {1, 2} /\ 1 # 2 BY SMT
<1> QED BY <1>1, <1>6, <1>7, TxnStep

\* create makes a new inode with one entry, and mkdir a new subdirectory.
LEMMA CreateSys ==
  ASSUME IInv, NEW d \in Dirs, NEW n \in Name, NEW type \in {"dir", "file", "sock"},
         DirLookup(fs, d, n) = NoInode, FreeInums(fs) # {}
  PROVE  /\ SysOK(Create(fs, d, n, type), open, lost)
         /\ IAlloc(fs) \in Inum
         /\ Create(fs, d, n, type).inode[IAlloc(fs)].type = type
<1> DEFINE i == IAlloc(fs)
<1>1. SysOK(fs, open, lost) /\ fs \in FsType /\ LinksOK(fs) BY DEF IInv, SysOK, FsOK
<1>2. d \in Inum /\ IsDir(fs, d) BY DirsAre
<1>3. i \in Inum /\ fs.inode[i].type = "free" BY IAllocIs
<1>4. Gained(fs, Create(fs, d, n, type), d, n, i) /\ Create(fs, d, n, type).inode[i].type = type
  BY <1>1, <1>2, <1>3, CreateForm, SMT
<1>5. fs.ents[d][n] = NoInode BY DEF DirLookup
<1>6. SysOK(Create(fs, d, n, type), open, lost) BY <1>1, <1>2, <1>3, <1>4, <1>5, GainedSys
<1> QED BY <1>3, <1>4, <1>6

\* sys_open with O_CREATE, also when ftable is full.
LEMMA CreateStep ==
  ASSUME IInv, NEW d \in Dirs, NEW n \in Name, NEW w \in BOOLEAN, SysCreate(d, n, w)
  PROVE  IInv'
<1> DEFINE i == IAlloc(fs)
           g == Create(fs, d, n, "file")
<1>1. CASE Die BY <1>1, DieStep
<1>2. CASE ~Die
  <2>1. Idle /\ Txn(g, 1) /\ DirLookup(fs, d, n) = NoInode /\ FreeInums(fs) # {} BY <1>2 DEF SysCreate
  <2>2. open' = open \/ \E s \in File : open[s] = Closed /\ open' = [open EXCEPT ![s] = [ip |-> i, writable |-> w]]
    BY <1>2 DEF SysCreate
  <2>3. "file" \in {"dir", "file", "sock"} OBVIOUS
  <2>4. SysOK(g, open, lost) /\ i \in Inum /\ g.inode[i].type = "file" BY <2>1, <2>3, CreateSys
  <2> HIDE DEF i, g
  <2>5. SysOK(g, open', lost)
    <3>1. CASE open' = open BY <3>1, <2>4
    <3>2. ASSUME NEW s \in File, open[s] = Closed, open' = [open EXCEPT ![s] = [ip |-> i, writable |-> w]]
          PROVE  SysOK(g, open', lost)
      BY <3>2, <2>4, OpenSys
    <3> QED BY <3>1, <3>2, <2>2
  <2>6. 1 \in {1, 2} /\ 1 # 2 BY SMT
  <2> QED BY <2>1, <2>5, <2>6, TxnStep
<1> QED BY <1>1, <1>2

\* sys_mkdir and sys_mksock.
LEMMA MakeStep ==
  ASSUME IInv, NEW d \in Dirs, NEW n \in Name, NEW type \in {"dir", "sock"}, SysMake(d, n, type)
  PROVE  IInv'
<1> DEFINE g == Create(fs, d, n, type)
<1>1. CASE Die BY <1>1, DieStep
<1>2. CASE ~Die
  <2>1. /\ Idle /\ Txn(g, 1) /\ DirLookup(fs, d, n) = NoInode /\ FreeInums(fs) # {}
        /\ open' = open
    BY <1>2 DEF SysMake
  <2>2. type \in {"dir", "file", "sock"} OBVIOUS
  <2>3. SysOK(g, open, lost) BY <2>1, <2>2, CreateSys
  <2> HIDE DEF g
  <2>4. 1 \in {1, 2} /\ 1 # 2 /\ SysOK(g, open', lost) BY <2>1, <2>3, SMT
  <2> QED BY <2>1, <2>4, TxnStep
<1> QED BY <1>1, <1>2

\* fileclose.
LEMMA CloseStep ==
  ASSUME IInv, NEW s \in File, FileClose(s)
  PROVE  IInv'
<1> DEFINE i == open[s].ip
           frees == Refs[i] = 1 /\ fs.inode[i].nlink = 0
           g == IF frees THEN IPut(fs, i) ELSE fs
<1>1. CASE Die BY <1>1, DieStep
<1>2. CASE ~Die
  <2>1. Idle /\ open[s] # Closed /\ Txn(g, 1) /\ open' = [open EXCEPT ![s] = Closed]
    BY <1>2 DEF FileClose
  <2>2. SysOK(fs, open, lost) BY DEF IInv
  <2>3. i \in Inum BY <2>1, <2>2 DEF SysOK, OpenOK
  <2>4. Refs[i] = Cardinality(RefsOf(open, i)) BY <2>3, RefsIs
  <2>5. CASE frees
    <3>1. SysOK(IPut(fs, i), [open EXCEPT ![s] = Closed], lost) BY <2>5, <2>1, <2>2, <2>4, CloseFrees
    <3>2. g = IPut(fs, i) BY <2>5
    <3> HIDE DEF g
    <3>3. SysOK(g, open', lost) BY <3>1, <3>2, <2>1
    <3>4. 1 \in {1, 2} /\ 1 # 2 BY SMT
    <3> QED BY <2>1, <3>3, <3>4, TxnStep
  <2>6. CASE ~frees
    <3>1. SysOK(fs, [open EXCEPT ![s] = Closed], lost) BY <2>6, <2>1, <2>2, <2>4, CloseKeeps
    <3>2. g = fs BY <2>6
    <3> HIDE DEF g
    <3>3. SysOK(g, open', lost) BY <3>1, <3>2, <2>1
    <3>4. 1 \in {1, 2} /\ 1 # 2 BY SMT
    <3> QED BY <2>1, <3>3, <3>4, TxnStep
  <2> QED BY <2>5, <2>6
<1> QED BY <1>1, <1>2

\* sys_truncate.
LEMMA TruncateStep ==
  ASSUME IInv, NEW d \in Dirs, NEW n \in Name, SysTruncate(d, n)
  PROVE  IInv'
<1> DEFINE i == DirLookup(fs, d, n)
           g == ITrunc(fs, i)
<1>1. CASE Die BY <1>1, DieStep
<1>2. CASE ~Die
  <2>1. Idle /\ Entry(d, n, {"file"}) /\ Txn(g, 1) /\ open' = open BY <1>2 DEF SysTruncate
  <2>2. i \in Inum BY <2>1, DirsAre, EntryFound
  <2>3. SysOK(fs, open, lost) BY DEF IInv
  <2>4. SysOK(g, open, lost) BY <2>2, <2>3, TruncSys
  <2> HIDE DEF g
  <2>5. 1 \in {1, 2} /\ 1 # 2 /\ SysOK(g, open', lost) BY <2>1, <2>4, SMT
  <2> QED BY <2>1, <2>5, TxnStep
<1> QED BY <1>1, <1>2

\* sys_utime.
LEMMA UtimeStep ==
  ASSUME IInv, NEW d \in Dirs, NEW n \in Name, SysUtime(d, n)
  PROVE  IInv'
<1>1. CASE Die BY <1>1, DieStep
<1>2. CASE ~Die
  <2>1. Idle /\ Txn(fs, 1) /\ open' = open BY <1>2 DEF SysUtime
  <2>2. SysOK(fs, open, lost) BY DEF IInv
  <2>3. 1 \in {1, 2} /\ 1 # 2 /\ SysOK(fs, open', lost) BY <2>1, <2>2, SMT
  <2> QED BY <2>1, <2>3, TxnStep
<1> QED BY <1>1, <1>2

\* sys_unlink.
LEMMA UnlinkStep ==
  ASSUME IInv, NEW d \in Dirs, NEW n \in Name, SysUnlink(d, n)
  PROVE  IInv'
<1> DEFINE g == DoUnlink(fs, d, n, Refs)
<1>1. CASE Die BY <1>1, DieStep
<1>2. CASE ~Die
  <2>1. Idle /\ UnlinkResult(fs, d, n) = "ok" /\ Txn(g, 1) /\ open' = open BY <1>2 DEF SysUnlink
  <2>2. SysOK(fs, open, lost) /\ d \in Inum BY DirsAre DEF IInv
  <2>3. SysOK(g, open, lost) BY <2>1, <2>2, RefsIs, UnlinkSys, SMT
  <2> HIDE DEF g
  <2>4. 1 \in {1, 2} /\ 1 # 2 /\ SysOK(g, open', lost) BY <2>1, <2>3, SMT
  <2> QED BY <2>1, <2>4, TxnStep
<1> QED BY <1>1, <1>2

\* The link and the unlink that make up the second half of a rename: the entry
\* moves from one path to the other, and the count comes back.
LEMMA MoveSys ==
  ASSUME NEW f, NEW o, NEW l, SysOK(f, o, l), NEW d \in Inum, NEW n \in Name, NEW e \in Inum, NEW m \in Name,
         d # e \/ n # m, IsDir(f, e), f.ents[e][m] = NoInode,
         NEW i \in Inum, f.ents[d][n] = i, ~IsDir(f, i),
         NEW refs, \A j \in Inum : refs[j] = Cardinality(RefsOf(o, j))
  PROVE  SysOK(DoUnlink(DirLink(AddLinks(f, i, 1), e, m, i), d, n, refs), o, l)
<1> DEFINE g == DirLink(AddLinks(f, i, 1), e, m, i)
<1>1. f \in FsType /\ LinksOK(f) BY DEF SysOK, FsOK
<1>2. f.inode[i].type # "free" BY <1>1, EntryIs, SMT
<1>3. f.inode[i].type \in Types BY <1>1, FsPoint
<1>4. f.inode[i].type \in {"file", "sock"} BY <1>2, <1>3 DEF Types, IsDir
<1>5. Gained(f, g, e, m, i) BY <1>1, <1>4, LinkForm
<1> HIDE DEF g
<1>6. SysOK(g, o, l) BY <1>5, GainedSys
<1>7. g.ents[d][n] = i BY <1>5 DEF Gained, Changed
<1>8. ~IsDir(g, i)
  <2>1. Same(f.inode[i], g.inode[i], 1) BY <1>2, <1>5 DEF Gained
  <2> QED BY <2>1 DEF Same, IsDir
<1>9. UnlinkResult(g, d, n) = "ok" BY <1>7, <1>8, Constants DEF UnlinkResult, DirLookup
<1> QED BY <1>6, <1>9, UnlinkSys, SMT DEF g

\* sys_rename, also when the link fails after the target is gone.
LEMMA RenameStep ==
  ASSUME IInv, NEW d1 \in Dirs, NEW n1 \in Name, NEW d2 \in Dirs, NEW n2 \in Name, SysRename(d1, n1, d2, n2)
  PROVE  IInv'
<1> DEFINE r == UnlinkResult(fs, d2, n2)
           g == IF r = "ok" THEN DoUnlink(fs, d2, n2, Refs) ELSE fs
           i == DirLookup(g, d1, n1)
           fails == i = NoInode \/ IsDir(g, i)
           h == DoUnlink(DirLink(AddLinks(g, i, 1), d2, n2, i), d1, n1, Refs)
<1>1. CASE Die BY <1>1, DieStep
<1>2. CASE ~Die
  <2>1. /\ Idle /\ r # "error" /\ <<d1, n1>> # <<d2, n2>> /\ outstanding > -MaxUnderrun /\ open' = open
        /\ IF fails THEN Txn(g, 2) ELSE Txn(h, 1)
    BY <1>2 DEF SysRename, Renames
  <2>2. SysOK(fs, open, lost) /\ d1 \in Inum /\ d2 \in Inum /\ IsDir(fs, d2) BY DirsAre DEF IInv
  <2>3. \A j \in Inum : Refs[j] = Cardinality(RefsOf(open, j)) BY RefsIs
  <2>4. d1 # d2 \/ n1 # n2 BY <2>1
  <2>5. SysOK(g, open, lost) /\ IsDir(g, d2) /\ g.ents[d2][n2] = NoInode
    <3>1. CASE r = "ok"
      <4> DEFINE u == DoUnlink(fs, d2, n2, Refs)
      <4>1. SysOK(u, open, lost) /\ IsDir(u, d2) /\ Changed(fs.ents, u.ents, d2, n2, NoInode)
        BY <3>1, <2>2, <2>3, UnlinkSys, SMT
      <4>2. u.ents[d2][n2] = NoInode BY <4>1 DEF Changed
      <4>3. g = u BY <3>1
      <4> HIDE DEF g, u
      <4> QED BY <4>1, <4>2, <4>3
    <3>2. CASE r # "ok"
      <4>1. g = fs BY <3>2
      <4>2. fs.ents[d2][n2] = NoInode BY <3>2, <2>1 DEF UnlinkResult, DirLookup
      <4> HIDE DEF g
      <4> QED BY <4>1, <4>2, <2>2
    <3> QED BY <3>1, <3>2
  <2>6. g \in FsType BY <2>5 DEF SysOK, FsOK
  <2> HIDE DEF g
  <2>7. g.ents[d1][n1] = i /\ (i \in Inum \/ i = NoInode) BY <2>2, <2>6, FsPoint DEF DirLookup
  <2> HIDE DEF i
  <2>8. 1 \in {1, 2} /\ 1 # 2 /\ 2 \in {1, 2} BY SMT
  <2>9. CASE fails
    <3>1. Txn(g, 2) /\ SysOK(g, open', lost) BY <2>9, <2>1, <2>5
    <3> QED BY <3>1, <2>1, <2>8, TxnStep
  <2>10. CASE ~fails
    <3>1. SysOK(h, open, lost) BY <2>10, <2>2, <2>3, <2>4, <2>5, <2>7, MoveSys, SMTT(20)
    <3> HIDE DEF h
    <3>2. Txn(h, 1) /\ SysOK(h, open', lost) BY <2>10, <3>1, <2>1
    <3> QED BY <3>2, <2>1, <2>8, TxnStep, ZenonT(40)
  <2> QED BY <2>9, <2>10
<1> QED BY <1>1, <1>2

-----------------------------------------------------------------------------
\* The smaller of two numbers: what one transaction of filewrite takes.
LEMMA SmallerOf ==
  ASSUME NEW a \in Nat, NEW b \in Nat
  PROVE  Min({a, b}) \in {a, b} /\ Min({a, b}) <= a /\ Min({a, b}) <= b
<1>1. \E x \in {a, b} : \A y \in {a, b} : x <= y BY SMT
<1>2. Min({a, b}) \in {a, b} /\ \A y \in {a, b} : Min({a, b}) <= y BY <1>1 DEF Min
<1> QED BY <1>2, SMT

\* The write that runs, and its file.
LEMMA CallIs ==
  ASSUME IInv, ~Idle
  PROVE  /\ call.file \in File /\ open[call.file] # Closed
         /\ call.off \in 0..MaxFile /\ call.n \in 1..MaxFile
         /\ open[call.file].ip \in Inum /\ fs.inode[open[call.file].ip].type = "file"
         /\ fs.inode[open[call.file].ip].size \in 0..MaxFile
<1>1. call # NoCall /\ CallOK(call, open) /\ OpenOK(fs, open) /\ fs \in FsType
  BY DEF IInv, SysOK, FsOK, Idle
<1>2. call.file \in File /\ open[call.file] # Closed /\ call.n > 0 BY <1>1 DEF CallOK
<1>3. call.off \in 0..MaxFile /\ call.n \in 0..MaxFile BY <1>1 DEF CallOK
<1>4. call.n \in 1..MaxFile BY <1>2, <1>3, Constants, SMT
<1>5. open[call.file].ip \in Inum /\ fs.inode[open[call.file].ip].type = "file" BY <1>1, <1>2 DEF OpenOK
<1>6. fs.inode[open[call.file].ip].size \in 0..MaxFile BY <1>1, <1>5, FsPoint
<1> QED BY <1>2, <1>3, <1>4, <1>5, <1>6

\* A transaction of filewrite that starts in the file or at its end.
LEMMA WriteStep ==
  ASSUME IInv, NEW i \in Inum, fs.inode[i].type = "file", NEW off \in Nat, NEW n \in Nat, NEW next,
         WriteTxn(i, off, n, next), off <= fs.inode[i].size, CallOK(next, open)
  PROVE  IInv'
<1> DEFINE g == WriteI(fs, i, off, n)
<1>1. CASE Die BY <1>1, DieStep
<1>2. CASE ~Die
  <2>1. CanWrite(fs, i, off, n) /\ Runs(g, 1) /\ call' = next /\ open' = open BY <1>2 DEF WriteTxn
  <2>2. SysOK(fs, open, lost) /\ fs.inode[i].type # "free" BY DEF IInv
  <2>3. SysOK(g, open, lost) BY <2>1, <2>2, WriteSys
  <2> HIDE DEF g
  <2>4. SysOK(g, open', lost) /\ CallOK(call', open') BY <2>1, <2>3
  <2>5. 1 \in {1, 2} /\ 1 # 2 BY SMT
  <2> QED BY <2>1, <2>4, <2>5, RunsStep
<1> QED BY <1>1, <1>2

\* filewrite fills a hole.
LEMMA FillStep ==
  ASSUME IInv, FillHole
  PROVE  IInv'
<1> DEFINE i == open[call.file].ip
           size == fs.inode[i].size
<1>1. ~Idle /\ call.off > size /\ WriteTxn(i, size, call.off - size, call) BY DEF FillHole
<1>2. i \in Inum /\ fs.inode[i].type = "file" /\ size \in 0..MaxFile /\ call.off \in 0..MaxFile
  BY <1>1, CallIs
<1>3. CallOK(call, open) BY DEF IInv
<1> HIDE DEF size
<1>4. size \in Nat /\ call.off - size \in Nat /\ size <= size BY <1>1, <1>2, Constants, SMT
<1> HIDE DEF i
<1>5. size <= fs.inode[i].size BY <1>4 DEF size
<1> QED BY <1>1, <1>2, <1>3, <1>4, <1>5, WriteStep

\* One round of the loop of filewrite.
LEMMA SomeStep ==
  ASSUME IInv, WriteSome
  PROVE  IInv'
<1> DEFINE i == open[call.file].ip
           n == Min({call.n, MaxTxn})
           next == IF n = call.n THEN NoCall ELSE [call EXCEPT !.off = @ + n, !.n = @ - n]
<1>1. /\ ~Idle /\ call.off <= fs.inode[i].size /\ call.off + n <= MaxFile
      /\ WriteTxn(i, call.off, n, next)
  BY DEF WriteSome
<1>2. /\ i \in Inum /\ fs.inode[i].type = "file" /\ call.off \in 0..MaxFile /\ call.n \in 1..MaxFile
      /\ call.file \in File /\ open[call.file] # Closed
  BY <1>1, CallIs
<1>3. n \in Nat /\ n <= call.n
  <2>1. call.n \in Nat /\ MaxTxn \in Nat BY <1>2, Constants, Xv6SysAssumption, SMT
  <2>2. n \in {call.n, MaxTxn} /\ n <= call.n BY <2>1, SmallerOf
  <2> QED BY <2>1, <2>2
<1>4. call.off \in Nat BY <1>2, Constants, SMT
<1> HIDE DEF n, i
<1>5. CallOK(next, open)
  <2>1. CASE n = call.n BY <2>1, NoCallOK
  <2>2. CASE n # call.n
    <3> DEFINE c == [file |-> call.file, off |-> call.off + n, n |-> call.n - n]
    <3>1. next = c
      <4>1. call \in [file : File \cup {NoInode}, off : 0..MaxFile, n : 0..MaxFile] BY DEF IInv, CallOK
      <4> DEFINE x == call.off + n
                 y == call.n - n
      <4>2. next = [call EXCEPT !.off = x, !.n = y] BY <2>2
      <4> HIDE DEF x, y, next
      <4>3. [call EXCEPT !.off = x] = [file |-> call.file, off |-> x, n |-> call.n] BY <4>1, SMT
      <4>4. [[file |-> call.file, off |-> x, n |-> call.n] EXCEPT !.n = y]
              = [file |-> call.file, off |-> x, n |-> y]
        BY SMT
      <4> QED BY <4>2, <4>3, <4>4 DEF x, y
    <3>2. call.off + n \in 0..MaxFile /\ call.n - n \in 0..MaxFile /\ call.n - n > 0
      BY <2>2, <1>1, <1>2, <1>3, <1>4, Constants, SMTT(20)
    <3>3. CallOK(c, open) BY <3>2, <1>2 DEF CallOK
    <3> QED BY <3>1, <3>3
  <2> QED BY <2>1, <2>2
<1> HIDE DEF next
<1> QED BY <1>1, <1>2, <1>3, <1>4, <1>5, WriteStep

\* filewrite ends where writei refuses the range.
LEMMA TooBigStep ==
  ASSUME IInv, WriteTooBig
  PROVE  IInv'
<1>1. Runs(fs, 1) /\ call' = NoCall /\ open' = open BY DEF WriteTooBig
<1>2. SysOK(fs, open', lost) BY <1>1 DEF IInv
<1>3. CallOK(call', open') BY <1>1, NoCallOK
<1>4. 1 \in {1, 2} /\ 1 # 2 BY SMT
<1> QED BY <1>1, <1>2, <1>3, <1>4, RunsStep

\* filewrite begins.
LEMMA WriteCallStep ==
  ASSUME IInv, NEW s \in File, NEW off \in 0..MaxFile, NEW n \in 1..MaxFile, FileWrite(s, off, n)
  PROVE  IInv'
<1>1. /\ call' = [file |-> s, off |-> off, n |-> n] /\ open[s].writable
      /\ fs' = fs /\ stable' = stable /\ outstanding' = outstanding /\ open' = open /\ lost' = lost
  BY DEF FileWrite
<1>2. open[s] # Closed BY <1>1, SMT DEF Closed
<1>3. CallOK(call', open')
  <2>1. n \in 0..MaxFile /\ n > 0 BY Constants, SMT
  <2>2. CallOK([file |-> s, off |-> off, n |-> n], open) BY <1>2, <2>1 DEF CallOK
  <2> QED BY <2>2, <1>1
<1> QED BY <1>1, <1>3 DEF IInv

\* Every step of the system keeps the invariant: one lemma for each call.
LEMMA NextStep ==
  ASSUME IInv, [Next]_vars
  PROVE  IInv'
<1>1. ASSUME NEW d \in Dirs, NEW n \in Name,
             \/ \E w \in BOOLEAN : SysOpen(d, n, w) \/ SysCreate(d, n, w)
             \/ \E type \in {"dir", "sock"} : SysMake(d, n, type)
             \/ SysTruncate(d, n) \/ SysUtime(d, n)
             \/ SysUnlink(d, n)
             \/ \E d2 \in Dirs, n2 \in Name : SysRename(d, n, d2, n2)
      PROVE  IInv'
  <2>1. ASSUME NEW w \in BOOLEAN, SysOpen(d, n, w) PROVE IInv' BY <2>1, OpenStep
  <2>2. ASSUME NEW w \in BOOLEAN, SysCreate(d, n, w) PROVE IInv' BY <2>2, CreateStep
  <2>3. ASSUME NEW type \in {"dir", "sock"}, SysMake(d, n, type) PROVE IInv' BY <2>3, MakeStep
  <2>4. CASE SysTruncate(d, n) BY <2>4, TruncateStep
  <2>5. CASE SysUtime(d, n) BY <2>5, UtimeStep
  <2>6. CASE SysUnlink(d, n) BY <2>6, UnlinkStep
  <2>7. ASSUME NEW d2 \in Dirs, NEW n2 \in Name, SysRename(d, n, d2, n2) PROVE IInv' BY <2>7, RenameStep
  <2> QED BY <1>1, <2>1, <2>2, <2>3, <2>4, <2>5, <2>6, <2>7
<1>2. ASSUME NEW s \in File, FileClose(s) PROVE IInv' BY <1>2, CloseStep
<1>3. ASSUME NEW s \in File, NEW off \in 0..MaxFile, NEW n \in 1..MaxFile, FileWrite(s, off, n) PROVE IInv'
  BY <1>3, WriteCallStep
<1>4. CASE FillHole BY <1>4, FillStep
<1>5. CASE WriteSome BY <1>5, SomeStep
<1>6. CASE WriteTooBig BY <1>6, TooBigStep
<1>7. CASE Crash BY <1>7, DieStep DEF Crash
<1>8. CASE UNCHANGED vars
  <2>1. fs' = fs /\ stable' = stable /\ outstanding' = outstanding /\ open' = open /\ call' = call /\ lost' = lost
    BY <1>8 DEF vars
  <2> QED BY <2>1 DEF IInv
<1> QED BY <1>1, <1>2, <1>3, <1>4, <1>5, <1>6, <1>7, <1>8 DEF Next

-----------------------------------------------------------------------------
\* What the invariant says of link counts.
LEMMA LinksMatchHolds == IInv => LinksMatch
<1> SUFFICES ASSUME IInv PROVE LinksMatch OBVIOUS
<1>1. \A f \in {fs, stable} : FsOK(f) BY DEF IInv, SysOK
<1>2. TypeOK
  <2>1. ASSUME NEW f \in {fs, stable}
        PROVE  f.inode \in [Inum -> Inode] /\ f.ents \in [Inum -> [Name -> Inum \cup {NoInode}]] /\ f.used \subseteq Block
    <3>1. f \in FsType BY <2>1, <1>1 DEF FsOK
    <3> QED BY <3>1, SMT DEF FsType
  <2>2. call.file \in File \cup {NoInode} /\ call.off \in 0..MaxFile /\ call.n \in 0..MaxFile
    <3>1. CallOK(call, open) BY DEF IInv
    <3> QED BY <3>1, SMT DEF CallOK
  <2>3. open \in [File -> [ip : Inum \cup {NoInode}, writable : BOOLEAN]] BY DEF IInv, SysOK, OpenType
  <2>4. outstanding \in -MaxUnderrun..0 /\ lost \subseteq Inum BY DEF IInv
  <2> QED BY <2>1, <2>2, <2>3, <2>4 DEF TypeOK
<1>3. ASSUME NEW f \in {fs, stable}, NEW i \in Inum
      PROVE  /\ Entries(f, i) # {} => f.inode[i].type # "free"
             /\ f.inode[i].type \in {"file", "sock"} => f.inode[i].nlink = Cardinality(Entries(f, i))
             /\ IsDir(f, i) => /\ f.inode[i].nlink = 1 + Cardinality(Subdirs(f, i))
                               /\ Cardinality(Entries(f, i)) = IF i = ROOTINO THEN 0 ELSE 1
  <2>1. LinkOK(f, i) BY <1>1, <1>3 DEF FsOK, LinksOK
  <2> QED BY <2>1 DEF LinkOK
<1> QED BY <1>2, <1>3 DEF LinksMatch

\* What the invariant says of inodes without links.
LEMMA InodesHeldHolds == IInv => InodesHeld
<1> SUFFICES ASSUME IInv PROVE InodesHeld OBVIOUS
<1>1. OpenOK(fs, open) /\ HeldOK(fs, open, lost) BY DEF IInv, SysOK
<1>2. ASSUME NEW i \in Inum, RefsOf(open, i) # {} PROVE Refs[i] > 0
  <2>1. Cardinality(RefsOf(open, i)) \in Nat /\ Cardinality(RefsOf(open, i)) # 0 BY <1>2, RefsAre, SMT
  <2>2. Refs[i] = Cardinality(RefsOf(open, i)) BY RefsIs
  <2> QED BY <2>1, <2>2, SMT
<1>3. \A s \in File : open[s] # Closed => fs.inode[open[s].ip].type = "file" BY <1>1 DEF OpenOK
<1>4. \A i \in Inum : fs.inode[i].type # "free" /\ fs.inode[i].nlink = 0 => Refs[i] > 0 \/ i \in lost
  BY <1>1, <1>2 DEF HeldOK
<1> QED BY <1>3, <1>4 DEF InodesHeld

-----------------------------------------------------------------------------
\* The file system and the one that a crash goes back to are sound, and every
\* reference and every write has its inode.
THEOREM Inductive == Spec => []IInv
<1>1. Init => IInv BY InitStep
<1>2. IInv /\ [Next]_vars => IInv' BY NextStep
<1> QED BY <1>1, <1>2, PTL DEF Spec

\* Link counts are what the directory tree says, running and after a crash,
\* for any number of inodes, names and open files.
THEOREM LinkCounts == Spec => []LinksMatch
BY Inductive, LinksMatchHolds, PTL

\* Every block in use belongs to one place of one inode, the bitmap marks
\* exactly these, and no file has a hole, for a disk and a file of any size.
THEOREM BlocksAreOwned == Spec => []BlocksOwned
<1>1. IInv => BlocksOwned
  <2> SUFFICES ASSUME IInv PROVE BlocksOwned OBVIOUS
  <2>1. \A f \in {fs, stable} : FsOK(f) BY DEF IInv, SysOK
  <2> QED BY <2>1, Owned DEF BlocksOwned
<1> QED BY <1>1, Inductive, PTL

\* An open file keeps its inode, and an inode without links goes with its last
\* reference, unless a crash takes that reference away.
THEOREM InodesAreHeld == Spec => []InodesHeld
BY Inductive, InodesHeldHolds, PTL
=============================================================================
