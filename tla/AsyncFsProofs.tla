---------------------------- MODULE AsyncFsProofs ----------------------------
(***************************************************************************)
(* Proofs about FSCQ's file system, for every number of blocks, inodes,    *)
(* names and transactions that wait for a flush, and every size of the     *)
(* log: the properties of AsyncFs hold after every call, failure, flush    *)
(* and crash.                                                              *)
(*                                                                         *)
(* The invariant (Inv): every disk of the set is Good, and the newest one  *)
(* with the caches is as a transaction finds it (TInv of FscqFsProofs), so *)
(* that each call commits a Good disk or leaves the set alone.             *)
(***************************************************************************)
EXTENDS AsyncFs, FscqFsProofs, FiniteSetTheorems, TLAPS

\* Zenon proves the steps that name no other prover.
USE Zenon

-----------------------------------------------------------------------------
\* Counting.
\* The constants.
LEMMA FiniteConstants ==
  /\ IsFiniteSet(Block) /\ IsFiniteSet(Inum) /\ IsFiniteSet(Item)
  /\ Block \subseteq Nat /\ Inum \subseteq Nat /\ Item \subseteq Nat /\ 0 \notin Inum
  /\ Root \in Inum /\ NBlocks \in Nat /\ DirItems \in Nat /\ LogLen \in Nat /\ LogLen >= 4
<1>1. /\ IsFiniteSet(Block) /\ IsFiniteSet(Inum) /\ Inum \subseteq Nat /\ 0 \notin Inum
      /\ Root \in Inum /\ NBlocks \in Nat /\ DirItems \in Nat /\ LogLen \in Nat /\ LogLen >= 4
  BY FsAssumption, SMT
<1>2. IsFiniteSet(Item) BY <1>1, FS_Union DEF Item
<1>3. Block \subseteq Nat
  <2>1. Cardinality(Block) \in Nat BY <1>1, FS_CardinalityType
  <2>2. \A x \in 1 .. Cardinality(Block) : x \in Nat BY <2>1, SMT
  <2> QED BY <2>2, FsAssumption
<1> QED BY <1>1, <1>2, <1>3 DEF Item

\* A set of numbers that is not empty has an element whose predecessor is not in it.
LEMMA FirstOf ==
  ASSUME NEW T, T \subseteq Nat, T # {}
  PROVE  \E x \in T : x \in Nat /\ x - 1 \notin T
<1>1. PICK x \in T : \A y \in T : ~(<<y, x>> \in OpToRel(<, Nat)) BY NatLessThanWellFounded, WFMin
<1>2. ASSUME x - 1 \in T PROVE FALSE
  <2>1. x \in Nat /\ x - 1 \in Nat BY <1>2
  <2>2. x - 1 < x BY <2>1, SMT
  <2>3. <<x - 1, x>> \in OpToRel(<, Nat) BY <2>1, <2>2 DEF OpToRel
  <2> QED BY <2>3, <1>1, <1>2
<1> QED BY <1>2

\* The elements up to x of a finite set of numbers.
UpTo(S, x) == {y \in S : y <= x}

\* get_free_blocks reads the bitmap in full and in ascending order.
LEMMA AscendingList ==
  ASSUME NEW S \in SUBSET Item
  PROVE  IsList(Ascending(S), S) /\ Full(Ascending(S), S)
<1> DEFINE n == Cardinality(S)
           rank == [x \in S |-> Cardinality(UpTo(S, x))]
<1>1. IsFiniteSet(S) /\ S \subseteq Nat /\ n \in Nat BY FiniteConstants, FS_Subset, FS_CardinalityType
<1>2. ASSUME NEW x PROVE UpTo(S, x) \in SUBSET S /\ IsFiniteSet(UpTo(S, x)) /\ Cardinality(UpTo(S, x)) \in Nat
                         /\ Cardinality(UpTo(S, x)) <= n
  <2>1. UpTo(S, x) \in SUBSET S BY DEF UpTo
  <2> QED BY <2>1, <1>1, FS_Subset, FS_CardinalityType
<1>3. ASSUME NEW x \in S PROVE Cardinality(UpTo(S, x)) \in 1 .. n
  <2>1. x \in UpTo(S, x) BY <1>1, SMT DEF UpTo
  <2>2. Cardinality(UpTo(S, x)) # 0 BY <2>1, <1>2, FS_EmptySet
  <2> QED BY <2>2, <1>1, <1>2, SMT
<1>4. rank \in [S -> 1 .. n] BY <1>3
<1>5. ASSUME NEW x \in S, NEW y \in S, x < y PROVE Cardinality(UpTo(S, x)) # Cardinality(UpTo(S, y))
  <2>1. UpTo(S, x) \in SUBSET UpTo(S, y)
    <3>1. \A z \in UpTo(S, x) : z \in UpTo(S, y) BY <1>5, <1>1, SMT DEF UpTo
    <3> QED BY <3>1
  <2>2. y \in UpTo(S, y) /\ y \notin UpTo(S, x) BY <1>5, <1>1, SMT DEF UpTo
  <2> QED BY <2>1, <2>2, <1>2, FS_Subset
<1>6. ASSUME NEW x \in S, NEW y \in S, Cardinality(UpTo(S, x)) = Cardinality(UpTo(S, y)) PROVE x = y
  <2>1. x < y \/ y < x \/ x = y BY <1>1, SMT
  <2> QED BY <2>1, <1>5, <1>6
<1>7. rank \in Injection(S, 1 .. n) BY <1>4, <1>6 DEF Injection, IsInjective
<1>8. IsFiniteSet(1 .. n) /\ Cardinality(1 .. n) = n
  <2>1. IsFiniteSet(1 .. n) /\ Cardinality(1 .. n) = IF 1 > n THEN 0 ELSE n - 1 + 1 BY <1>1, FS_Interval, SMT
  <2> QED BY <2>1, <1>1, SMT
<1>9. rank \in Surjection(S, 1 .. n)
  <2> HIDE DEF rank, n
  <2>1. Cardinality(S) = Cardinality(1 .. n) BY <1>8 DEF n
  <2> QED BY <1>7, <1>8, <2>1, FS_Injection
<1>10. ASSUME NEW k \in 1 .. n PROVE \E x \in S : Cardinality(UpTo(S, x)) = k
  <2>1. PICK x \in S : rank[x] = k BY <1>9 DEF Surjection
  <2> QED BY <2>1
<1>11. Ascending(S) = [k \in 1 .. n |-> CHOOSE x \in S : Cardinality(UpTo(S, x)) = k] BY DEF Ascending, UpTo
<1>12. ASSUME NEW k \in 1 .. n PROVE Ascending(S)[k] \in S /\ Cardinality(UpTo(S, Ascending(S)[k])) = k
  <2>1. Ascending(S)[k] = CHOOSE x \in S : Cardinality(UpTo(S, x)) = k BY <1>11
  <2> QED BY <2>1, <1>10
<1>13. Ascending(S) \in Seq(Item) /\ Len(Ascending(S)) = n
  <2>1. DOMAIN Ascending(S) = 1 .. n BY <1>11
  <2>2. Ascending(S) \in [1 .. n -> Item] BY <1>11, <1>12
  <2> QED BY <2>1, <2>2, <1>1, SMT
<1>14. IsList(Ascending(S), S)
  <2>1. \A j, k \in 1 .. n : Ascending(S)[j] = Ascending(S)[k] => j = k BY <1>12
  <2> QED BY <2>1, <1>12, <1>13 DEF IsList
<1>15. ASSUME NEW x \in S PROVE \E j \in 1 .. Len(Ascending(S)) : Ascending(S)[j] = x
  <2>1. PICK j \in 1 .. n : j = Cardinality(UpTo(S, x)) BY <1>3
  <2>2. Ascending(S)[j] = x BY <2>1, <1>12, <1>6
  <2> QED BY <2>2, <1>13
<1> QED BY <1>14, <1>15 DEF Full

\* The number of blocks of a transaction.
LEMMA FourElements ==
  ASSUME NEW a, NEW b, NEW c, NEW d, NEW X, X \subseteq {a, b, c, d}
  PROVE  ~(Cardinality(X) > LogLen)
<1>1. IsFiniteSet({}) /\ Cardinality({}) = 0 BY FS_EmptySet
<1>2. \A S, x : IsFiniteSet(S) => IsFiniteSet(S \cup {x}) /\ Cardinality(S) \in Nat /\ Cardinality(S \cup {x}) \in Nat
                                  /\ Cardinality(S \cup {x}) <= Cardinality(S) + 1
  <2> SUFFICES ASSUME NEW S, NEW x, IsFiniteSet(S)
               PROVE  IsFiniteSet(S \cup {x}) /\ Cardinality(S) \in Nat /\ Cardinality(S \cup {x}) \in Nat
                      /\ Cardinality(S \cup {x}) <= Cardinality(S) + 1
    OBVIOUS
  <2>1. IsFiniteSet(S \cup {x}) /\ Cardinality(S) \in Nat
        /\ Cardinality(S \cup {x}) = IF x \in S THEN Cardinality(S) ELSE Cardinality(S) + 1
    BY FS_AddElement, FS_CardinalityType
  <2> QED BY <2>1, SMT
<1>3. PICK A, B, C, E : A = {} \cup {a} /\ B = A \cup {b} /\ C = B \cup {c} /\ E = C \cup {d} OBVIOUS
<1>4. IsFiniteSet(A) /\ Cardinality(A) \in Nat /\ Cardinality(A) <= 0 + 1 BY <1>1, <1>2, <1>3
<1>5. IsFiniteSet(B) /\ Cardinality(B) \in Nat /\ Cardinality(B) <= Cardinality(A) + 1 BY <1>2, <1>3, <1>4
<1>6. IsFiniteSet(C) /\ Cardinality(C) \in Nat /\ Cardinality(C) <= Cardinality(B) + 1 BY <1>2, <1>3, <1>5
<1>7. IsFiniteSet(E) /\ Cardinality(E) \in Nat /\ Cardinality(E) <= Cardinality(C) + 1 BY <1>2, <1>3, <1>6
<1>8. Cardinality(E) <= 4 BY <1>4, <1>5, <1>6, <1>7, SMT
<1>9. X \in SUBSET E BY <1>3
<1>10. Cardinality(X) \in Nat /\ Cardinality(X) <= Cardinality(E) BY <1>7, <1>9, FS_Subset, FS_CardinalityType
<1> QED BY <1>7, <1>8, <1>10, FiniteConstants, SMT

\* What the lemmas of FscqFsProofs assume holds of all constants.
LEMMA Knowledge == Known
<1>1. Block \subseteq Nat BY FiniteConstants
<1>2. Zero \in Val /\ Inum \subseteq Val BY MixAssumption
<1>3. \A T \in SUBSET Nat : T # {} => \E x \in T : x - 1 \notin T BY FirstOf
<1>4. \A S \in SUBSET Item : IsList(Ascending(S), S) /\ Full(Ascending(S), S) BY AscendingList
<1>5. \A a, b, c, d, X : X \subseteq {a, b, c, d} => ~(Cardinality(X) > LogLen) BY FourElements
<1> QED BY <1>1, <1>2, <1>3, <1>4, <1>5 DEF Known

\* The directories of a disk, and its files.
LEMMA DirsAre ==
  ASSUME NEW s, SInv(s), NEW d, d \in Dirs(latest(s))
  PROVE  DirAt(latest(s).dir, d)
<1>1. PICK e : e = latest(s) OBVIOUS
<1>2. e.dir \in DirType
  <2>1. Good(e) BY <1>1, NewestIs
  <2> QED BY <2>1, SMT DEF Good, Disk
<1>3. d \in Inum /\ (d = Root \/ \E p \in Inum : \E n \in DOMAIN e.dir[p] : e.dir[p][n] = [inum |-> d, isdir |-> TRUE])
  BY <1>1 DEF Dirs
<1>4. CASE d = Root BY <1>3, <1>4 DEF DirAt
<1>5. ASSUME NEW p \in Inum, NEW n \in DOMAIN e.dir[p], e.dir[p][n] = [inum |-> d, isdir |-> TRUE]
      PROVE  DirAt(e.dir, d)
  <2>1. e.dir[p][n].inum = d /\ e.dir[p][n].isdir = TRUE BY <1>5, SMT
  <2>2. e.dir[p] \in DirMap BY <1>2 DEF DirType
  <2>3. n \in Name BY <2>2 DEF DirMap, Maps
  <2>4. Sub(e.dir, p, n, d) BY <2>1 DEF Sub, Ent
  <2> QED BY <2>3, <2>4 DEF DirAt
<1> QED BY <1>1, <1>3, <1>4, <1>5

-----------------------------------------------------------------------------
\* The invariant of the specification.
Inv == SInv(sys) /\ mix \in Mixes

\* The state after a call.
LEMMA DoesInv ==
  ASSUME NEW s, SInv(s), Does(s), mix \in Mixes
  PROVE  Inv'
<1>1. sys' = [s EXCEPT !.err = "OK"] /\ mix' = mix BY DEF Does
<1>2. SInv([s EXCEPT !.err = "OK"]) BY Calls DEF AnswerInv
<1>3. SInv(sys') BY <1>1, <1>2
<1> QED BY <1>1, <1>3 DEF Inv

\* The arguments of the calls have their types.
LEMMA MixIs ==
  ASSUME mix \in Mixes
  PROVE  /\ mix.deleted \subseteq Name /\ mix.dirs \subseteq Name /\ mix.paths \subseteq Seq(Name)
         /\ mix.lengths \subseteq Nat /\ mix.sizes \subseteq Nat /\ mix.written \subseteq Inum
<1>1. PICK m : m = mix OBVIOUS
<1>2. m \in [deleted : SUBSET Name, dirs : SUBSET Name, paths : SUBSET Seq(Name),
             lengths : SUBSET Nat, sizes : SUBSET Nat, written : SUBSET Inum, txns : Nat]
  BY <1>1, MixAssumption
<1>3. /\ m.deleted \subseteq Name /\ m.dirs \subseteq Name /\ m.paths \subseteq Seq(Name)
      /\ m.lengths \subseteq Nat /\ m.sizes \subseteq Nat /\ m.written \subseteq Inum
  BY <1>2, SMT
<1> QED BY <1>1, <1>3

\* Every step keeps the invariant.
LEMMA NextInv ==
  ASSUME Inv, [Next]_vars
  PROVE  Inv'
<1>1. SInv(sys) /\ mix \in Mixes BY DEF Inv
<1>2. /\ mix.deleted \subseteq Name /\ mix.dirs \subseteq Name /\ mix.paths \subseteq Seq(Name)
      /\ mix.lengths \subseteq Nat /\ mix.sizes \subseteq Nat /\ mix.written \subseteq Inum
  BY <1>1, MixIs
<1>3. now = latest(sys) /\ Known BY Knowledge DEF now
<1>4. ASSUME NEW d \in Inum, NEW n \in Name, SysCreate(d, n) PROVE Inv'
  <2>1. d \in Dirs(latest(sys)) BY <1>3, <1>4 DEF SysCreate
  <2>2. DirAt(latest(sys).dir, d) BY <2>1, <1>1, DirsAre
  <2>3. SInv(Create(sys, d, n)) BY <2>2, <1>1, <1>3, Calls DEF CreateInv
  <2> QED BY <2>3, <1>1, <1>4, DoesInv DEF SysCreate
<1>5. ASSUME NEW d \in Inum, NEW n \in mix.deleted, SysDelete(d, n) PROVE Inv'
  <2>1. SInv(DeleteCall(sys, d, n)) BY <1>1, <1>2, <1>3, Calls DEF DeleteCallInv
  <2> QED BY <2>1, <1>1, <1>5, DoesInv DEF SysDelete
<1>6. ASSUME NEW d \in Inum, NEW n \in mix.dirs, SysMkdir(d, n) PROVE Inv'
  <2>1. d \in Dirs(latest(sys)) BY <1>3, <1>6 DEF SysMkdir
  <2>2. DirAt(latest(sys).dir, d) BY <2>1, <1>1, DirsAre
  <2>3. SInv(Mkdir(sys, d, n)) BY <2>2, <1>1, <1>2, <1>3, Calls DEF MkdirInv
  <2> QED BY <2>3, <1>1, <1>6, DoesInv DEF SysMkdir
<1>7. ASSUME NEW d \in Inum, NEW n \in mix.dirs, SysMksock(d, n) PROVE Inv'
  <2>1. d \in Dirs(latest(sys)) BY <1>3, <1>7 DEF SysMksock
  <2>2. DirAt(latest(sys).dir, d) BY <2>1, <1>1, DirsAre
  <2>3. SInv(Mksock(sys, d, n)) BY <2>2, <1>1, <1>2, <1>3, Calls DEF MksockInv
  <2> QED BY <2>3, <1>1, <1>7, DoesInv DEF SysMksock
<1>8. ASSUME NEW sp \in mix.paths, NEW dp \in mix.paths, NEW sn \in Name, NEW dn \in Name, SysRename(sp, sn, dp, dn)
      PROVE  Inv'
  <2>1. SInv(RenameCall(sys, sp, sn, dp, dn)) BY <1>1, <1>2, <1>3, Calls DEF RenameCallInv
  <2> QED BY <2>1, <1>1, <1>8, DoesInv DEF SysRename
<1>9. ASSUME NEW p \in mix.paths, SysLookup(p) PROVE Inv'
  <2>1. SInv(Lookup(sys, p)) BY <1>1, <1>2, <1>3, Calls DEF LookupInv
  <2> QED BY <2>1, <1>1, <1>9, DoesInv DEF SysLookup
<1>10. ASSUME NEW i \in Inum, NEW n \in mix.lengths, SysTruncate(i, n) PROVE Inv'
  <2>1. SInv(FileTruncate(sys, i, n)) BY <1>1, <1>2, <1>3, Calls DEF FileTruncateInv
  <2> QED BY <2>1, <1>1, <1>10, DoesInv DEF SysTruncate
<1>11. \A off \in 0 .. NBlocks - 1 : off \in Nat BY SMT
<1>12. ASSUME NEW i \in mix.written, NEW off \in 0 .. NBlocks - 1, SysUpdate(i, off) PROVE Inv'
  <2>1. off < Len(latest(sys).ino[i].blocks) BY <1>3, <1>12 DEF SysUpdate
  <2>2. SInv(UpdateFblock(sys, i, off, i)) BY <2>1, <1>1, <1>2, <1>11, <1>3, Calls
                                           DEF UpdateFblockInv
  <2> QED BY <2>2, <1>1, <1>12, DoesInv DEF SysUpdate, NewVal
<1>13. ASSUME NEW i \in mix.written, NEW off \in 0 .. NBlocks - 1, SysUpdateD(i, off) PROVE Inv'
  <2>1. off < Len(latest(sys).ino[i].blocks) BY <1>3, <1>13 DEF SysUpdateD
  <2>2. SInv(UpdateFblockD(sys, i, off, i)) BY <2>1, <1>1, <1>2, <1>11, <1>3, Syncs
                                           DEF UpdateFblockDInv
  <2> QED BY <2>2, <1>1, <1>13, DoesInv DEF SysUpdateD, NewVal
<1>14. ASSUME NEW i \in Inum, NEW sz \in mix.sizes, SysSetSz(i, sz) PROVE Inv'
  <2>1. SInv(FileSetSz(sys, i, sz)) BY <1>1, <1>2, <1>3, Calls DEF SetSzInv
  <2> QED BY <2>1, <1>1, <1>14, DoesInv DEF SysSetSz
<1>15. ASSUME NEW i \in Inum, NEW sz \in mix.sizes, SysSetAttr(i, sz) PROVE Inv'
  <2>1. SInv(FileSetAttr(sys, i, sz)) BY <1>1, <1>2, <1>3, Calls DEF SetSzInv
  <2> QED BY <2>1, <1>1, <1>15, DoesInv DEF SysSetAttr
<1>16. ASSUME NEW i \in mix.written, SysFileSync(i) PROVE Inv'
  <2>1. SInv(FileSync(sys, i)) BY <1>1, <1>2, <1>3, Syncs DEF FileSyncInv
  <2> QED BY <2>1, <1>1, <1>16, DoesInv DEF SysFileSync
<1>17. CASE SysTreeSync
  <2>1. SInv(TreeSync(sys)) BY <1>1, <1>3, Syncs DEF TreeSyncInv
  <2> QED BY <2>1, <1>1, <1>17, DoesInv DEF SysTreeSync
<1>18. CASE SysUmount
  <2>1. SInv(Umount(sys)) BY <1>1, <1>3, Syncs DEF UmountInv
  <2> QED BY <2>1, <1>1, <1>18, DoesInv DEF SysUmount
<1>19. CASE Crash
  <2>1. PICK n \in Exposed(sys) : \E f \in CrashOutcomes(sys.ds[n].data) : sys' = Recover(sys, n, f)
    BY <1>19 DEF Crash
  <2>2. PICK f \in CrashOutcomes(sys.ds[n].data) : sys' = Recover(sys, n, f) BY <2>1
  <2>3. SInv(Recover(sys, n, f)) BY <1>1, <1>3, Starts DEF RecoverInv
  <2>4. SInv(sys') BY <2>2, <2>3
  <2>5. mix' = mix BY <1>19 DEF Crash
  <2> QED BY <2>4, <2>5, <1>1 DEF Inv
<1>20. CASE UNCHANGED vars
  <2>1. sys' = sys /\ mix' = mix BY <1>20 DEF vars
  <2> QED BY <2>1, <1>1 DEF Inv
<1> QED BY <1>4, <1>5, <1>6, <1>7, <1>8, <1>9, <1>10, <1>12, <1>13, <1>14, <1>15, <1>16, <1>17, <1>18, <1>19, <1>20 DEF Next

-----------------------------------------------------------------------------
\* The properties.  A block belongs to a file where it stands among its blocks.
LEMMA BelongsIs ==
  ASSUME NEW e, Good(e), NEW b \in Block, NEW i \in Inum
  PROVE  /\ \A off \in 0 .. NBlocks - 1 : Belongs(e, b, i, off) <=> At(e.ino, b, i, off + 1)
         /\ \A j \in Nat : At(e.ino, b, i, j) => j - 1 \in 0 .. NBlocks - 1 /\ Belongs(e, b, i, j - 1)
<1>1. PICK q : q = e.ino[i].blocks OBVIOUS
<1>2. q \in Seq(Block) /\ Len(q) <= NBlocks
  <2>1. e.ino \in InoType BY SMT DEF Good, Disk
  <2>2. e.ino[i] \in InoRec BY <2>1 DEF InoType
  <2>3. e.ino[i].blocks \in Seq(Block) BY <2>2, SMT DEF InoRec, BlockSeq
  <2>4. Len(e.ino[i].blocks) <= NBlocks BY DEF Good, Short
  <2> QED BY <2>3, <2>4, <1>1
<1>3. Len(q) \in Nat /\ NBlocks \in Nat BY <1>2, Constants, SMT
<1>4. \A off \in 0 .. NBlocks - 1 : off < Len(q) <=> off + 1 \in 1 .. Len(q) BY <1>3, SMT
<1>5. \A off : Belongs(e, b, i, off) <=> off < Len(q) /\ q[off + 1] = b BY <1>1 DEF Belongs
<1>6. \A j : At(e.ino, b, i, j) <=> j \in 1 .. Len(q) /\ q[j] = b BY <1>1 DEF At
<1>7. \A j \in 1 .. Len(q) : j - 1 \in 0 .. NBlocks - 1 /\ j - 1 < Len(q) /\ (j - 1) + 1 = j BY <1>2, <1>3, SMT
<1>8. \A off \in 0 .. NBlocks - 1 : Belongs(e, b, i, off) <=> At(e.ino, b, i, off + 1) BY <1>4, <1>5, <1>6
<1>9. \A j \in Nat : At(e.ino, b, i, j) => j - 1 \in 0 .. NBlocks - 1 /\ Belongs(e, b, i, j - 1)
  <2> SUFFICES ASSUME NEW j \in Nat, At(e.ino, b, i, j) PROVE j - 1 \in 0 .. NBlocks - 1 /\ Belongs(e, b, i, j - 1)
    OBVIOUS
  <2>1. j \in 1 .. Len(q) /\ q[j] = b BY <1>6
  <2>2. q[(j - 1) + 1] = b /\ j - 1 < Len(q) /\ j - 1 \in 0 .. NBlocks - 1 BY <2>1, <1>7
  <2> QED BY <2>2, <1>5
<1> QED BY <1>8, <1>9

\* The owner of a block, if it has one.
LEMMA OwnersAre ==
  ASSUME NEW e, Good(e), NEW b \in Block
  PROVE  /\ ~Owned(e.ino, b) => Owners(e, b) = {}
         /\ Owned(e.ino, b) => \E o : Owners(e, b) = {o}
<1>1. ASSUME NEW o \in Owners(e, b)
      PROVE  /\ o[1] \in Inum /\ o[2] \in 0 .. NBlocks - 1 /\ o = <<o[1], o[2]>>
             /\ o[2] + 1 \in Nat /\ At(e.ino, b, o[1], o[2] + 1)
  <2>1. o \in Inum \X (0 .. NBlocks - 1) /\ Belongs(e, b, o[1], o[2]) BY DEF Owners
  <2>2. o[1] \in Inum /\ o[2] \in 0 .. NBlocks - 1 /\ o = <<o[1], o[2]>> BY <2>1, SMT
  <2>3. o[2] + 1 \in Nat BY <2>2, SMT
  <2>4. At(e.ino, b, o[1], o[2] + 1) BY <2>1, <2>2, BelongsIs
  <2> QED BY <2>2, <2>3, <2>4
<1>2. ~Owned(e.ino, b) => Owners(e, b) = {} BY <1>1 DEF Owned
<1>3. ASSUME NEW i \in Inum, NEW j \in Nat, At(e.ino, b, i, j) PROVE Owners(e, b) = {<<i, j - 1>>}
  <2>1. j - 1 \in 0 .. NBlocks - 1 /\ Belongs(e, b, i, j - 1) BY <1>3, BelongsIs
  <2>2. PICK p : p = <<i, j - 1>> OBVIOUS
  <2>3. p \in Inum \X (0 .. NBlocks - 1) /\ p[1] = i /\ p[2] = j - 1 BY <2>1, <2>2, SMT
  <2>4. p \in Owners(e, b) BY <2>1, <2>3 DEF Owners
  <2>5. ASSUME NEW o \in Owners(e, b) PROVE o = p
    <3>1. o[1] = i /\ o[2] + 1 = j
      <4>1. PICK a, k : a = o[1] /\ k = o[2] + 1 OBVIOUS
      <4>2. a \in Inum /\ k \in Nat /\ At(e.ino, b, a, k) BY <4>1, <1>1
      <4>3. Once(e.ino) BY DEF Good
      <4>4. a = i /\ k = j BY <4>2, <4>3, <1>3 DEF Once
      <4> QED BY <4>1, <4>4
    <3>2. o[2] = j - 1
      <4>1. o[2] \in 0 .. NBlocks - 1 BY <1>1
      <4>2. o[2] \in Int BY <4>1, SMT
      <4> QED BY <3>1, <4>2, SMT
    <3> QED BY <3>1, <3>2, <2>2, <1>1
  <2> QED BY <2>2, <2>4, <2>5
<1> QED BY <1>2, <1>3 DEF Owned

\* A good disk has every block once.
LEMMA OnceIn ==
  ASSUME NEW e, Good(e), NEW b \in Block
  PROVE  Cardinality(Owners(e, b)) + Cardinality(Pools(e, b)) = 1
<1>1. Other("data1") = "data2" BY DEF Other
<1>2. /\ b \in e.free["data1"] => b \notin e.free["data2"]
      /\ Owned(e.ino, b) <=> b \notin e.free["data1"] /\ b \notin e.free["data2"]
  BY <1>1 DEF Good, Pooled
<1>3. CASE Owned(e.ino, b)
  <2>1. PICK o : Owners(e, b) = {o} BY <1>3, OwnersAre
  <2>2. Pools(e, b) = {} BY <1>2, <1>3 DEF Pools
  <2>3. Cardinality(Owners(e, b)) = 1 /\ Cardinality(Pools(e, b)) = 0 BY <2>1, <2>2, FS_EmptySet, FS_Singleton
  <2> QED BY <2>3, SMT
<1>4. CASE ~Owned(e.ino, b)
  <2>1. Owners(e, b) = {} BY <1>4, OwnersAre
  <2>2. \E k : Pools(e, b) = {k}
    <3>1. CASE b \in e.free["data1"]
      <4>1. Pools(e, b) = {"data1"} BY <3>1, <1>2 DEF Pools
      <4> QED BY <4>1
    <3>2. CASE b \in e.free["data2"]
      <4>1. Pools(e, b) = {"data2"} BY <3>2, <1>2 DEF Pools
      <4> QED BY <4>1
    <3> QED BY <3>1, <3>2, <1>2, <1>4
  <2>3. Cardinality(Owners(e, b)) = 0 /\ Cardinality(Pools(e, b)) = 1 BY <2>1, <2>2, FS_EmptySet, FS_Singleton
  <2> QED BY <2>3, SMT
<1> QED BY <1>3, <1>4

\* The disks of the set.
LEMMA DisksAre ==
  ASSUME Inv
  PROVE  /\ \A n \in DOMAIN sys.ds : Good(sys.ds[n])
         /\ Good(now) /\ Safe(sys.ds, sys.ms.al, now.ino, now.free) /\ sys.ms \in Mem
         /\ Clean(now.ino, sys.ms.dblocks, now.data)
         /\ Lists(now.free, sys.ms.list) /\ Cached(sys.ms.dcache, now.dir)
<1>1. SInv(sys) BY DEF Inv
<1>2. sys.ds \in Seq(Disk) /\ AllGood(sys.ds) BY <1>1 DEF SInv, SysOK
<1>3. DOMAIN sys.ds = 1 .. Len(sys.ds) BY <1>2, SMT
<1>4. now = latest(sys) BY DEF now
<1>5. \A n \in DOMAIN sys.ds : Good(sys.ds[n]) BY <1>2, <1>3 DEF AllGood
<1> QED BY <1>1, <1>4, <1>5, NewestIs

\* A block is in one place on every disk of the set.
LEMMA InvOnce ==
  ASSUME Inv
  PROVE  BlocksOwnedOnce
<1> SUFFICES ASSUME NEW n \in DOMAIN sys.ds, NEW b \in Block
             PROVE  Cardinality(Owners(sys.ds[n], b)) + Cardinality(Pools(sys.ds[n], b)) = 1
  BY DEF BlocksOwnedOnce
<1>1. Good(sys.ds[n]) BY DisksAre
<1> QED BY <1>1, OnceIn

\* A block of a file of the newest disk is the same or unused in the older ones.
LEMMA InvAgree ==
  ASSUME Inv
  PROVE  OwnersAgree
<1> SUFFICES ASSUME NEW n \in DOMAIN sys.ds, NEW b \in Block, NEW i \in Inum, NEW off \in 0 .. NBlocks - 1,
                    Belongs(now, b, i, off)
             PROVE  Belongs(sys.ds[n], b, i, off) \/ Owners(sys.ds[n], b) = {}
  BY DEF OwnersAgree
<1>1. PICK e, f : e = sys.ds[n] /\ f = now OBVIOUS
<1>2. Good(e) /\ Good(f) /\ SafeOne(e, sys.ms.al, f.ino, f.free) BY <1>1, DisksAre DEF Safe
<1>3. off + 1 \in Nat BY SMT
<1>4. At(f.ino, b, i, off + 1) BY <1>1, <1>2, BelongsIs
<1>5. At(e.ino, b, i, off + 1) \/ ~Owned(e.ino, b) BY <1>2, <1>3, <1>4 DEF SafeOne
<1>6. CASE At(e.ino, b, i, off + 1) BY <1>6, <1>1, <1>2, BelongsIs
<1>7. CASE ~Owned(e.ino, b) BY <1>7, <1>1, <1>2, OwnersAre
<1> QED BY <1>5, <1>6, <1>7

\* The blocks of a file are at their places.
LEMMA InRange ==
  ASSUME NEW e, Good(e), NEW i \in Inum, NEW b \in Range(e.ino[i].blocks)
  PROVE  b \in Block /\ \E j \in Nat : At(e.ino, b, i, j)
<1>1. PICK q : q = e.ino[i].blocks OBVIOUS
<1>2. q \in Seq(Block)
  <2>1. e.ino \in InoType BY SMT DEF Good, Disk
  <2>2. e.ino[i] \in InoRec BY <2>1 DEF InoType
  <2>3. e.ino[i].blocks \in Seq(Block) BY <2>2, SMT DEF InoRec, BlockSeq
  <2> QED BY <2>3, <1>1
<1>3. DOMAIN q = 1 .. Len(q) /\ (\A j \in 1 .. Len(q) : q[j] \in Block /\ j \in Nat) BY <1>2, SMT
<1>4. PICK j \in DOMAIN q : q[j] = b BY <1>1 DEF Range
<1> QED BY <1>1, <1>3, <1>4 DEF At

\* A file shows zeros and values written for it on every disk.
LEMMA InvOwnData ==
  ASSUME Inv
  PROVE  OwnData
<1> SUFFICES ASSUME NEW n \in DOMAIN sys.ds, NEW i \in Files(sys.ds[n]), NEW b \in Range(sys.ds[n].ino[i].blocks)
             PROVE  Merge(sys.ds[n].data[b]) \subseteq {Zero, NewVal(i)}
  BY DEF OwnData
<1>1. i \in Inum BY DEF Files
<1>2. Good(sys.ds[n]) BY DisksAre
<1>3. b \in Block /\ \E j \in Nat : At(sys.ds[n].ino, b, i, j) BY <1>1, <1>2, InRange
<1>4. Shows(sys.ds[n].ino, sys.ds[n].data) BY <1>2 DEF Good
<1> QED BY <1>1, <1>3, <1>4 DEF Shows, NewVal

\* A block that is not dirty has no unsynced value.
LEMMA InvClean ==
  ASSUME Inv
  PROVE  CleanIsDurable
<1> SUFFICES ASSUME NEW i \in Files(now), NEW b \in Range(now.ino[i].blocks) \ sys.ms.dblocks[i]
             PROVE  now.data[b].old = {}
  BY DEF CleanIsDurable
<1>1. PICK e : e = now OBVIOUS
<1>2. Good(e) /\ Clean(e.ino, sys.ms.dblocks, e.data) BY <1>1, DisksAre
<1>3. i \in Inum /\ b \in Range(e.ino[i].blocks) /\ b \notin sys.ms.dblocks[i] BY <1>1 DEF Files
<1>4. b \in Block /\ \E j \in Nat : At(e.ino, b, i, j) BY <1>2, <1>3, InRange
<1>5. e.data[b].old = {} BY <1>2, <1>3, <1>4 DEF Clean
<1> QED BY <1>1, <1>5

\* A list without repetitions is as long as its set is large.
Follows(l, S, k) == Cardinality(Range(l)) = Len(l) /\ Range(l) \subseteq S /\ (k # "inode" => Range(l) = S)
\* A cached list follows its bitmap.
LEMMA ListRange ==
  ASSUME NEW l, NEW S, NEW k, ListOK(l, S, k)
  PROVE  Follows(l, S, k)
<1>1. IsList(l, S) /\ l \in Seq(Item) BY DEF ListOK, IsList
<1>2. PICK m : m = Len(l) OBVIOUS
<1>3. m \in Nat /\ DOMAIN l = 1 .. m /\ l \in [1 .. m -> Item] BY <1>1, <1>2, SMT
<1>4. \A x : x \in Range(l) <=> \E j \in 1 .. m : l[j] = x BY <1>3 DEF Range
<1>5. Range(l) \subseteq S /\ (k # "inode" => Range(l) = S)
  <2>1. ASSUME NEW x \in Range(l) PROVE x \in S
    <3>1. PICK j \in 1 .. m : l[j] = x BY <1>4
    <3>2. l[j] \in S BY <1>1, <1>2 DEF IsList
    <3> QED BY <3>1, <3>2
  <2>2. ASSUME k # "inode" PROVE \A x \in S : x \in Range(l) BY <2>2, <1>2, <1>4 DEF ListOK, Full
  <2> QED BY <2>1, <2>2
<1>6. l \in [1 .. m -> Range(l)] BY <1>3, <1>4
<1>7. l \in Bijection(1 .. m, Range(l))
  <2>1. \A a, b \in 1 .. m : l[a] = l[b] => a = b BY <1>1, <1>2 DEF IsList
  <2>2. l \in Injection(1 .. m, Range(l)) BY <2>1, <1>3, <1>6 DEF Injection, IsInjective
  <2>3. l \in Surjection(1 .. m, Range(l)) BY <1>4, <1>6 DEF Surjection
  <2> QED BY <2>2, <2>3 DEF Bijection
<1>8. IsFiniteSet(1 .. m) /\ Cardinality(1 .. m) = m
  <2>1. IsFiniteSet(1 .. m) /\ Cardinality(1 .. m) = IF 1 > m THEN 0 ELSE m - 1 + 1 BY <1>3, FS_Interval, SMT
  <2> QED BY <2>1, <1>3, SMT
<1>9. Cardinality(Range(l)) = Cardinality(1 .. m) BY <1>7, <1>8, FS_Bijection DEF ExistsBijection
<1> QED BY <1>2, <1>5, <1>8, <1>9 DEF Follows

\* The cached lists and directories follow the newest disk.
LEMMA InvCaches ==
  ASSUME Inv
  PROVE  CachesFollow
<1>1. PICK e, M : e = now /\ M = sys.ms OBVIOUS
<1>2. Lists(e.free, M.list) /\ Cached(M.dcache, e.dir) BY <1>1, DisksAre
<1>3. ASSUME NEW k \in Allocator, NEW l \in M.list[k]
      PROVE  Cardinality(Range(l)) = Len(l) /\ Range(l) \subseteq e.free[k] /\ (k # "inode" => Range(l) = e.free[k])
  <2>1. ListOK(l, e.free[k], k) BY <1>2 DEF Lists
  <2>2. Follows(l, e.free[k], k) BY <2>1, ListRange
  <2> QED BY <2>2 DEF Follows
<1>4. \A d \in DOMAIN M.dcache : M.dcache[d] = e.dir[d] BY <1>2 DEF Cached
<1> QED BY <1>1, <1>3, <1>4 DEF CachesFollow

\* The entries of a good disk.
LEMMA EntriesAre ==
  ASSUME NEW e, Good(e), NEW p \in Entries(e)
  PROVE  /\ p[1] \in Inum /\ p[2] \in Name /\ p = <<p[1], p[2]>> /\ Target(e, p) \in Inum
         /\ Ent(e.dir, p[1], p[2], Target(e, p))
<1>1. p \in Inum \X Name /\ p[2] \in DOMAIN e.dir[p[1]] BY DEF Entries
<1>2. p[1] \in Inum /\ p[2] \in Name /\ p = <<p[1], p[2]>> BY <1>1, SMT
<1>3. e.dir \in DirType BY SMT DEF Good, Disk
<1>4. e.dir[p[1]] \in DirMap BY <1>2, <1>3 DEF DirType
<1>5. e.dir[p[1]][p[2]] \in Entry BY <1>1, <1>4 DEF DirMap, Maps
<1>6. e.dir[p[1]][p[2]].inum \in Inum BY <1>5, SMT DEF Entry
<1> QED BY <1>1, <1>2, <1>6 DEF Target, Ent

\* An entry is one of the pairs that the properties count.
LEMMA EntryIs ==
  ASSUME NEW e, NEW c \in Inum, NEW m \in Name, NEW i, Ent(e.dir, c, m, i)
  PROVE  <<c, m>> \in Entries(e) /\ Target(e, <<c, m>>) = i /\ <<c, m>>[1] = c
<1>1. PICK p : p = <<c, m>> OBVIOUS
<1>2. p \in Inum \X Name /\ p[1] = c /\ p[2] = m BY <1>1, SMT
<1>3. p \in Entries(e) /\ Target(e, p) = i BY <1>2 DEF Entries, Target, Ent
<1> QED BY <1>1, <1>2, <1>3

\* The directories of a good disk.
LEMMA IsDir ==
  ASSUME NEW e, Good(e), NEW d \in Inum, DirAt(e.dir, d)
  PROVE  d \in Dirs(e)
<1>1. CASE d = Root BY <1>1 DEF Dirs
<1>2. CASE d # Root
  <2>1. PICK c \in Inum : \E m \in Name : Sub(e.dir, c, m, d) BY <1>2 DEF DirAt
  <2>2. PICK m \in Name : Sub(e.dir, c, m, d) BY <2>1
  <2>3. PICK r : r = e.dir[c][m] OBVIOUS
  <2>4. m \in DOMAIN e.dir[c] /\ r.inum = d /\ r.isdir = TRUE BY <2>2, <2>3 DEF Sub, Ent
  <2>5. e.dir \in DirType BY SMT DEF Good, Disk
  <2>6. r \in Entry
    <3>1. e.dir[c] \in DirMap BY <2>5 DEF DirType
    <3> QED BY <3>1, <2>3, <2>4 DEF DirMap, Maps
  <2>7. r = [inum |-> d, isdir |-> TRUE] BY <2>4, <2>6, SMT DEF Entry
  <2> QED BY <2>3, <2>4, <2>7 DEF Dirs
<1> QED BY <1>1, <1>2

\* The entries of one inode.
InEdges(e, i) == {p \in Entries(e) : Target(e, p) = i}
\* An inode has one entry, or none when it is the root or free.
LEMMA OneEntry ==
  ASSUME NEW e, Good(e), NEW i \in Inum
  PROVE  Cardinality(InEdges(e, i)) = IF i = Root \/ i \in e.free["inode"] THEN 0 ELSE 1
<1>1. PICK E, N : E = e.dir /\ N = e.free["inode"] OBVIOUS
<1>2. Tree(E, N, 0, FALSE) BY <1>1 DEF Good
<1>3. ASSUME NEW p \in InEdges(e, i)
      PROVE  p[1] \in Inum /\ p[2] \in Name /\ p = <<p[1], p[2]>> /\ Ent(E, p[1], p[2], i)
  <2>1. p \in Entries(e) /\ Target(e, p) = i BY DEF InEdges
  <2> QED BY <2>1, <1>1, EntriesAre
<1>4. CASE i = Root \/ i \in N
  <2>1. InEdges(e, i) = {} BY <1>2, <1>3, <1>4 DEF Tree, Targets
  <2> QED BY <2>1, <1>1, <1>4, FS_EmptySet
<1>5. CASE i # Root /\ i \notin N
  <2>1. Entered(E, {i})
    <3>1. {i} \in SUBSET Inum /\ {i} # {} /\ Root \notin {i} /\ 0 \notin {i} /\ (\A j \in {i} : j \notin N)
      BY <1>5, Constants
    <3> QED BY <3>1, <1>2 DEF Tree, Rooted
  <2>2. PICK c \in Inum : \E m \in Name, j \in {i} : c \notin {i} /\ Ent(E, c, m, j) BY <2>1 DEF Entered
  <2>3. PICK m \in Name : Ent(E, c, m, i) BY <2>2
  <2>4. PICK q : q = <<c, m>> OBVIOUS
  <2>5. q \in Entries(e) /\ Target(e, q) = i BY <2>3, <2>4, <1>1, EntryIs
  <2>6. q \in InEdges(e, i) BY <2>5 DEF InEdges
  <2>7. ASSUME NEW p \in InEdges(e, i) PROVE p = q
    <3>1. PICK a, b : a = p[1] /\ b = p[2] OBVIOUS
    <3>2. a \in Inum /\ b \in Name /\ p = <<a, b>> /\ Ent(E, a, b, i) BY <3>1, <1>3
    <3>3. Unique(E) BY <1>2 DEF Tree
    <3>4. a = c /\ b = m BY <3>2, <3>3, <2>3 DEF Unique
    <3> QED BY <3>2, <3>4, <2>4
  <2>8. InEdges(e, i) = {q} BY <2>6, <2>7
  <2> QED BY <2>8, <1>1, <1>5, FS_Singleton
<1> QED BY <1>1, <1>4, <1>5

\* A good disk holds a tree.
Shaped(d) ==
  /\ \A i \in Inum : Cardinality({e \in Entries(d) : Target(d, e) = i})
                      = IF i = Root \/ i \in d.free["inode"] THEN 0 ELSE 1
  /\ \A e \in Entries(d) : e[1] \in Dirs(d)
  /\ \A S \in SUBSET (Inum \ ({Root} \cup d.free["inode"])) :
       S # {} => \E e \in Entries(d) : Target(d, e) \in S /\ e[1] \notin S
\* The entries of a good disk make a tree.
LEMMA GoodShape ==
  ASSUME NEW d, Good(d)
  PROVE  Shaped(d)
<1>1. \A i \in Inum : Cardinality({e \in Entries(d) : Target(d, e) = i})
                       = IF i = Root \/ i \in d.free["inode"] THEN 0 ELSE 1
  BY OneEntry DEF InEdges
<1>2. PICK E, N : E = d.dir /\ N = d.free["inode"] OBVIOUS
<1>3. Tree(E, N, 0, FALSE) BY <1>2 DEF Good
<1>4. ASSUME NEW p \in Entries(d) PROVE p[1] \in Dirs(d)
  <2>1. p[1] \in Inum /\ p[2] \in Name /\ Target(d, p) \in Inum /\ Ent(E, p[1], p[2], Target(d, p))
    BY <1>2, EntriesAre
  <2>2. DirAt(E, p[1]) BY <2>1, <1>3 DEF Tree, Parents
  <2> QED BY <2>1, <2>2, <1>2, IsDir
<1>5. ASSUME NEW S \in SUBSET (Inum \ ({Root} \cup N)), S # {}
      PROVE  \E e \in Entries(d) : Target(d, e) \in S /\ e[1] \notin S
  <2>1. S \in SUBSET Inum /\ Root \notin S /\ 0 \notin S /\ (\A i \in S : i \notin N) BY Constants
  <2>2. Entered(E, S) BY <2>1, <1>3, <1>5 DEF Tree, Rooted
  <2>3. PICK c \in Inum : \E m \in Name, i \in S : c \notin S /\ Ent(E, c, m, i) BY <2>2 DEF Entered
  <2>4. PICK m \in Name : \E i \in S : c \notin S /\ Ent(E, c, m, i) BY <2>3
  <2>5. PICK i \in S : c \notin S /\ Ent(E, c, m, i) BY <2>4
  <2>6. PICK q : q = <<c, m>> OBVIOUS
  <2>7. q \in Entries(d) /\ Target(d, q) = i /\ q[1] = c BY <2>5, <2>6, <1>2, EntryIs
  <2> QED BY <2>5, <2>7
<1> QED BY <1>1, <1>2, <1>4, <1>5 DEF Shaped

\* Every disk of the set holds a tree.
LEMMA InvTree ==
  ASSUME Inv
  PROVE  TreeShaped
<1>1. \A n \in DOMAIN sys.ds : Good(sys.ds[n]) BY DisksAre
<1>2. TypeOK
  <2>1. Len(sys.ds) = Len(sys.pend) + 1 BY DEF Inv, SInv, SysOK
  <2>2. ASSUME NEW n \in DOMAIN sys.ds
        PROVE  /\ sys.ds[n].ino \in [Inum -> [blocks : Seq(Block), bytes : Nat]]
               /\ \A i \in Inum : Len(sys.ds[n].ino[i].blocks) <= NBlocks
               /\ sys.ds[n].free \in [Allocator -> SUBSET (Block \cup Inum)]
               /\ sys.ds[n].data \in [Block -> ValuSet(Val)]
    <3>1. PICK e : e = sys.ds[n] OBVIOUS
    <3>2. Good(e) BY <1>1, <3>1
    <3>3. e \in Disk BY <3>2 DEF Good
    <3>4. e.ino \in InoType /\ e.free \in FreeType /\ e.data \in DataType BY <3>3, SMT DEF Disk
    <3>5. \A i \in Inum : Len(e.ino[i].blocks) <= NBlocks BY <3>2 DEF Good, Short
    <3> QED BY <3>1, <3>4, <3>5 DEF InoType, InoRec, BlockSeq, FreeType, FreeSet, Item, DataType, Valus
  <2>3. sys.ms \in Mem BY DisksAre
  <2>4. PICK M : M = sys.ms OBVIOUS
  <2>5. M.al \in AlType /\ M.dblocks \in DirtyType BY <2>3, <2>4, SMT DEF Mem
  <2> QED BY <2>1, <2>2, <2>4, <2>5 DEF TypeOK, AlType, DirtyType, BlockSet
<1>3. \A n \in DOMAIN sys.ds : Shaped(sys.ds[n]) BY <1>1, GoodShape
<1> QED BY <1>2, <1>3 DEF TreeShaped, Shaped

-----------------------------------------------------------------------------
\* The invariant holds in every behaviour: after every call of AsyncFS.v,
\* whether it succeeds or gives up half way, every flush and every crash.
THEOREM Invariant == Spec => []Inv
<1>1. Init => Inv
  <2> SUFFICES ASSUME Init PROVE Inv OBVIOUS
  <2>1. sys = Mkfs(Junk) /\ mix \in Mixes BY DEF Init
  <2>2. Junk \in Val BY MixAssumption
  <2> QED BY <2>1, <2>2, Starts DEF Inv, MkfsInv
<1>2. Inv /\ [Next]_vars => Inv' BY NextInv
<1> QED BY <1>1, <1>2, PTL DEF Spec

\* In every disk that a crash may expose, every block belongs to one file or is
\* in one of the two bitmaps (BALLOC and BFILE, with the allocators of BFile.v
\* that change roles at every tree_sync): no call loses a block or hands it out
\* twice.
THEOREM BlocksHaveOneOwner == Spec => []BlocksOwnedOnce
<1>1. Inv => BlocksOwnedOnce BY InvOnce
<1> QED BY <1>1, Invariant, PTL

\* A block of a file in the newest disk is, in every older disk of the set, the
\* same block of the same file or unused (ilist_safe of BFile.v), so that a
\* direct write (dwrite of update_fblock_d) cannot reach another file.
THEOREM DirectWritesAreSafe == Spec => []OwnersAgree
<1>1. Inv => OwnersAgree BY InvAgree
<1> QED BY <1>1, Invariant, PTL

\* Whatever a crash exposes, a file shows zeros and values written for it: grow
\* writes the new block before a transaction with it can commit, and a freed
\* block is not used again before a flush.
THEOREM FilesShowOwnData == Spec => []OwnData
<1>1. Inv => OwnData BY InvOwnData
<1> QED BY <1>1, Invariant, PTL

\* A block of a file that file_sync would skip, because BFile.v does not have it
\* among the dirty blocks of the file, has no unsynced value.
THEOREM SkippedBlocksAreDurable == Spec => []CleanIsDurable
<1>1. Inv => CleanIsDurable BY InvClean
<1> QED BY <1>1, Invariant, PTL

\* The cached free lists and the cached directories follow the disk through
\* calls that fail half way, reuse of inodes and crashes (cache_rep of Balloc.v,
\* rep of DirCache.v).
THEOREM CachesFollowDisk == Spec => []CachesFollow
<1>1. Inv => CachesFollow BY InvCaches
<1> QED BY <1>1, Invariant, PTL

\* Every disk of the set holds a tree: every inode in use but the root has one
\* entry, only directories have entries, and rename, whose path of the target is
\* looked up after the source is unlinked, makes no cycle.  Types are kept.
THEOREM DisksAreTrees == Spec => []TreeShaped
<1>1. Inv => TreeShaped BY InvTree
<1> QED BY <1>1, Invariant, PTL

=============================================================================
