------------------------------ MODULE LogProofs ------------------------------
(***************************************************************************)
(* Proofs about Log, for every set of addresses and of values, every size  *)
(* of the log and any number of transactions, flushes and crashes.  First  *)
(* facts about its operators (maps and disks, the disk set, the lists that *)
(* a flush still has to flush, the room in the log) and the inductive      *)
(* invariant; then that the first step of every call of LOG keeps it, then *)
(* the steps below a running call, crashes and recovery; then what follows *)
(* from it.                                                                *)
(***************************************************************************)
EXTENDS Log, TLAPS

\* Multiplication by a natural number is monotonic.
LEMMA TimesMonotonic ==
  ASSUME NEW K \in Nat, NEW a \in Nat, NEW b \in Nat, a <= b
  PROVE  a * K <= b * K
<1>1. PICK d \in Nat : b = a + d
  <2>1. b - a \in Nat
    OBVIOUS
  <2> QED
    BY <2>1
<1>2. b * K = a * K + d * K
  BY <1>1
<1>3. d * K \in Nat /\ a * K \in Nat
  OBVIOUS
<1> QED
  BY <1>2, <1>3

\* divup(c, K) blocks of K items have room for c items.
LEMMA DivupRoom ==
  ASSUME NEW K \in Nat \ {0}, NEW c \in Nat
  PROVE  /\ (c + K - 1) \div K \in Nat
         /\ c <= ((c + K - 1) \div K) * K
<1>1. PICK q : q = (c + K - 1) \div K
  OBVIOUS
<1>2. q \in Nat /\ c + K - 1 < K * q + K
  BY <1>1
<1>3. K * q = q * K /\ q * K \in Nat
  BY <1>2
<1> QED
  BY <1>1, <1>2, <1>3

\* c items that fit into m blocks of K items need no more than m blocks.
LEMMA DivupLeast ==
  ASSUME NEW K \in Nat \ {0}, NEW m \in Nat, NEW c \in Nat, c <= m * K
  PROVE  (c + K - 1) \div K <= m
<1>1. PICK q : q = (c + K - 1) \div K
  OBVIOUS
<1>2. q \in Nat /\ K * q <= c + K - 1
  BY <1>1
<1>3. SUFFICES ASSUME m + 1 <= q PROVE FALSE
  BY <1>1, <1>2
<1>4. (m + 1) * K <= q * K
  BY <1>3, <1>2, TimesMonotonic
<1>5. (m + 1) * K = m * K + K /\ q * K = K * q /\ m * K \in Nat /\ K * q \in Nat
  BY <1>2
<1> QED
  BY <1>4, <1>5, <1>2

\* The home blocks with the log m over them stand for the disk d: a block of
\* the log is settled in d, the others are in d as they are at home.
Reps(home, d, m) ==
  /\ \A a \in DOMAIN m : d[a] = Settled(m[a])
  /\ \A a \in Addr \ DOMAIN m : d[a] = home[a]

\* Padded descriptor blocks always have an entry for every data block.
Packed(l) == l.ndata <= l.ndesc * ItemsPerVal

\* The disk set D: each of the committed transactions T leads from one disk to
\* the next, and the merged map M from the first to the last.
Chain(D, T, M) ==
  /\ Len(D) = Len(T) + 1
  /\ \A i \in 1..Len(T) : D[i + 1] = Committed(D[i], T[i]) /\ DOMAIN T[i] \subseteq DOMAIN M
  /\ D[Len(D)] = Committed(D[1], M)

\* The lists of q lead through the disk set D, from the disk that home and the
\* log m represent to the latest.
Leads(g, home, D, m, q) ==
  /\ Reps(home, D[g[0]], m)
  /\ g[Len(q)] = Len(D)
  /\ \A j \in 1..Len(q) : D[g[j]] = Committed(D[g[j - 1]], q[j])

Path(home, D, m, q) == \E g \in [0..Len(q) -> 1..Len(D)] : Leads(g, home, D, m, q)

-----------------------------------------------------------------------------
\* The operators on maps and disks.

Map == Maps(Addr, Val)

\* A map has addresses as keys and block values as values.
LEMMA MapElim ==
  ASSUME NEW m \in Map
  PROVE  DOMAIN m \subseteq Addr /\ \A a \in DOMAIN m : m[a] \in Val
BY Zenon DEF Map, Maps

\* Whatever has them is a map.
LEMMA MapIntro ==
  ASSUME NEW S \in SUBSET Addr, NEW f \in [S -> Val]
  PROVE  f \in Map
BY Zenon DEF Map, Maps

\* The empty map.
LEMMA EmptyMapType == EmptyMap \in Map /\ DOMAIN EmptyMap = {}
<1>1. EmptyMap \in [{} -> Val] /\ DOMAIN EmptyMap = {}
  BY Zenon DEF EmptyMap
<1> QED
  BY <1>1, MapIntro, Zenon

\* AddAll adds maps.
LEMMA AddAllType ==
  ASSUME NEW m \in Map, NEW n \in Map
  PROVE  AddAll(m, n) \in Map
<1>1. /\ DOMAIN m \cup DOMAIN n \in SUBSET Addr
      /\ \A a \in DOMAIN m : m[a] \in Val
      /\ \A a \in DOMAIN n : n[a] \in Val
  BY MapElim, Zenon
<1>2. AddAll(m, n) \in [DOMAIN m \cup DOMAIN n -> Val]
  BY <1>1, Zenon DEF AddAll
<1> QED
  BY <1>1, <1>2, MapIntro, Zenon

\* A transaction has finitely many blocks.
LEMMA MapCardinality ==
  ASSUME NEW m \in Map
  PROVE  Cardinality(DOMAIN m) \in Nat
<1>1. DOMAIN m \in SUBSET Addr
  BY MapElim, Zenon
<1> QED
  BY <1>1, MemLogAssumption, Zenon

\* A settled block is a block.
LEMMA SettledType ==
  ASSUME NEW v \in Val
  PROVE  Settled(v) \in ValuSet(Val)
BY Zenon DEF Settled, ValuSet

\* A settled block has one value.
LEMMA SettledFields ==
  ASSUME NEW v
  PROVE  Settled(v).cur = v /\ v \in Merge(Settled(v)) /\ Settled(Settled(v).cur) = Settled(v)
BY Zenon DEF Settled, Merge

\* A committed transaction makes a disk of a disk.
LEMMA CommittedType ==
  ASSUME NEW d \in Disks, NEW m \in Map
  PROVE  Committed(d, m) \in Disks
BY MapElim, SettledType, Zenon DEF Committed, Disks

\* Two committed transactions have the effect of their merge.
LEMMA CommittedTwice ==
  ASSUME NEW d \in Disks, NEW m \in Map, NEW n \in Map
  PROVE  Committed(Committed(d, m), n) = Committed(d, AddAll(m, n))
BY Zenon DEF Committed, AddAll, Disks

\* An empty transaction has no effect.
LEMMA CommittedEmpty ==
  ASSUME NEW d \in Disks, NEW m \in Map, DOMAIN m = {}
  PROVE  Committed(d, m) = d
BY Zenon DEF Committed, Disks

\* What is read after a commit.
LEMMA CommittedLatest ==
  ASSUME NEW d \in Disks, NEW m \in Map
  PROVE  Latest(Committed(d, m)) = Overlay(m, Latest(d))
BY Zenon DEF Committed, Disks, Latest, Overlay, Settled

\* Writing, syncing and flushing make disks of disks.
LEMMA DiskTypes ==
  ASSUME NEW d \in Disks, NEW m \in Map, NEW S, NEW f \in [Addr -> Val]
  PROVE  /\ WriteBlocks(d, m) \in Disks
         /\ SyncBlocks(d, S) \in Disks
         /\ Flushed(f) \in Disks
         /\ Latest(d) \in [Addr -> Val]
         /\ Overlay(m, f) \in [Addr -> Val]
<1>1. WriteBlocks(d, m) \in Disks
  <2>1. ASSUME NEW a \in Addr, a \in DOMAIN m PROVE Overwrite(d[a], m[a]) \in ValuSet(Val)
    BY <2>1, MapElim DEF Overwrite, Merge, ValuSet, Disks
  <2> QED
    BY <2>1, Zenon DEF WriteBlocks, Disks
<1>2. SyncBlocks(d, S) \in Disks
  <2>1. ASSUME NEW a \in Addr PROVE Settled(d[a].cur) \in ValuSet(Val)
    BY SettledType, Zenon DEF ValuSet, Disks
  <2> QED
    BY <2>1, Zenon DEF SyncBlocks, Disks
<1>3. Flushed(f) \in Disks
  BY SettledType, Zenon DEF Flushed, Disks
<1>4. Latest(d) \in [Addr -> Val]
  BY Zenon DEF Latest, Disks, ValuSet
<1>5. Overlay(m, f) \in [Addr -> Val]
  BY MapElim, Zenon DEF Overlay
<1> QED
  BY <1>1, <1>2, <1>3, <1>4, <1>5, Zenon

\* What is read after a direct write and after a sync.
LEMMA WriteLatest ==
  ASSUME NEW d \in Disks, NEW m \in Map
  PROVE  Latest(WriteBlocks(d, m)) = Overlay(m, Latest(d))
BY Zenon DEF Disks, Latest, Overlay, WriteBlocks, Overwrite

\* A sync changes no value that a read returns.
LEMMA SyncLatest ==
  ASSUME NEW d \in Disks, NEW S
  PROVE  Latest(SyncBlocks(d, S)) = Latest(d)
BY Zenon DEF Disks, Latest, SyncBlocks, Settled

\* A direct write commutes with the commit of other blocks.
LEMMA WriteCommitted ==
  ASSUME NEW d \in Disks, NEW m \in Map, NEW w \in Map, DOMAIN w \cap DOMAIN m = {}
  PROVE  WriteBlocks(Committed(d, m), w) = Committed(WriteBlocks(d, w), m)
BY Zenon DEF Disks, WriteBlocks, Committed

\* A sync commutes with a commit.
LEMMA SyncCommitted ==
  ASSUME NEW d \in Disks, NEW m \in Map, NEW S
  PROVE  SyncBlocks(Committed(d, m), S) = Committed(SyncBlocks(d, S), m)
BY Zenon DEF Disks, SyncBlocks, Committed, Settled

\* A list that is appended to the log takes it to the next disk.
LEMMA RepsAppend ==
  ASSUME NEW h \in Disks, NEW d \in Disks, NEW m \in Map, NEW n \in Map, Reps(h, d, m)
  PROVE  Reps(h, Committed(d, n), AddAll(m, n))
BY MapElim, Zenon DEF Reps, Committed, AddAll, Disks

\* The writes of apply.
LEMMA RepsApply ==
  ASSUME NEW h \in Disks, NEW d \in Disks, NEW m \in Map, Reps(h, d, m)
  PROVE  /\ Reps(WriteBlocks(h, m), d, m)
         /\ \A a \in DOMAIN m : WriteBlocks(h, m)[a].cur = m[a]
BY MapElim, Zenon DEF Reps, WriteBlocks, Overwrite, Disks

\* The sync of apply.
LEMMA RepsApplySync ==
  ASSUME NEW h \in Disks, NEW d \in Disks, NEW m \in Map, Reps(h, d, m),
         \A a \in DOMAIN m : h[a].cur = m[a]
  PROVE  /\ Reps(SyncBlocks(h, DOMAIN m), d, m)
         /\ \A a \in DOMAIN m : SyncBlocks(h, DOMAIN m)[a] = Settled(m[a])
BY MapElim, Zenon DEF Reps, SyncBlocks, Disks

\* Once the blocks are at home the log is not needed.
LEMMA RepsTrunc ==
  ASSUME NEW h \in Disks, NEW d \in Disks, NEW m \in Map, Reps(h, d, m),
         \A a \in DOMAIN m : h[a] = Settled(m[a])
  PROVE  Reps(h, d, EmptyMap)
BY MapElim, EmptyMapType, Zenon DEF Reps, Disks

\* A direct write of blocks that are not in the log.
LEMMA RepsDwrite ==
  ASSUME NEW h \in Disks, NEW d \in Disks, NEW m \in Map, NEW w \in Map, Reps(h, d, m),
         DOMAIN w \cap DOMAIN m = {}
  PROVE  Reps(WriteBlocks(h, w), WriteBlocks(d, w), m)
BY MapElim, Zenon DEF Reps, WriteBlocks, Disks

\* A sync of any blocks.
LEMMA RepsDsync ==
  ASSUME NEW h \in Disks, NEW d \in Disks, NEW m \in Map, NEW S, Reps(h, d, m)
  PROVE  Reps(SyncBlocks(h, S), SyncBlocks(d, S), m)
<1>1. DOMAIN h = Addr /\ DOMAIN d = Addr /\ DOMAIN m \subseteq Addr
  BY MapElim, Zenon DEF Disks
<1>2. ASSUME NEW a \in DOMAIN m PROVE SyncBlocks(d, S)[a] = Settled(m[a])
  <2>1. d[a] = Settled(m[a]) /\ Settled(d[a].cur) = Settled(m[a])
    BY SettledFields, Zenon DEF Reps
  <2> QED
    BY <1>1, <2>1, Zenon DEF SyncBlocks
<1>3. ASSUME NEW a \in Addr \ DOMAIN m PROVE SyncBlocks(d, S)[a] = SyncBlocks(h, S)[a]
  BY <1>1, Zenon DEF SyncBlocks, Reps
<1> QED
  BY <1>2, <1>3, Zenon DEF Reps

\* What recovery finds is a crash outcome of the disk that is represented.
LEMMA RepsCrash ==
  ASSUME NEW h \in Disks, NEW d \in Disks, NEW m \in Map, Reps(h, d, m),
         NEW f \in CrashOutcomes(h)
  PROVE  \A a \in Addr : Overlay(m, f)[a] \in Merge(d[a])
<1>1. f \in [Addr -> UNION {Merge(h[a]) : a \in Addr}] /\ \A a \in Addr : f[a] \in Merge(h[a])
  BY Zenon DEF CrashOutcomes, Disks
<1>2. \A a \in Addr : Overlay(m, f)[a] = IF a \in DOMAIN m THEN m[a] ELSE f[a]
  BY <1>1, Zenon DEF Overlay
<1> QED
  BY <1>1, <1>2, SettledFields, Zenon DEF Reps

\* Recovery starts from the disk that it finds.
LEMMA RepsRecover ==
  ASSUME NEW h \in Disks, NEW m \in Map, h = Flushed(Latest(h))
  PROVE  Reps(h, Flushed(Overlay(m, Latest(h))), m)
<1>1. DOMAIN h = Addr /\ DOMAIN m \subseteq Addr
  BY MapElim, Zenon DEF Disks
<1>2. \A a \in Addr : h[a] = Settled(h[a].cur)
  BY <1>1, Zenon DEF Flushed, Latest
<1> QED
  BY <1>1, <1>2, Zenon DEF Reps, Flushed, Overlay, Latest

\* A read below the group log reads the disk that is represented.
LEMMA RepsRead ==
  ASSUME NEW h \in Disks, NEW d \in Disks, NEW m \in Map, Reps(h, d, m)
  PROVE  Latest(d) = Overlay(m, Latest(h))
<1>1. ASSUME NEW a \in Addr PROVE d[a].cur = IF a \in DOMAIN m THEN m[a] ELSE h[a].cur
  BY SettledFields, Zenon DEF Reps
<1> QED
  BY <1>1, Zenon DEF Latest, Overlay, Disks

-----------------------------------------------------------------------------
\* The disk set and the lists that are still to be flushed.

DiskSeq == Seq(Disks)
MapSeq == Seq(Map)

\* A disk set with one disk.
LEMMA ChainOne ==
  ASSUME NEW d \in Disks
  PROVE  Chain(<<d>>, <<>>, EmptyMap)
<1>1. Committed(d, EmptyMap) = d
  BY CommittedEmpty, EmptyMapType, Zenon
<1> QED
  BY <1>1 DEF Chain

\* A commit adds a disk.
LEMMA ChainCommit ==
  ASSUME NEW D \in DiskSeq, NEW T \in MapSeq, NEW M \in Map, Chain(D, T, M), NEW n \in Map
  PROVE  Chain(Append(D, Committed(D[Len(D)], n)), Append(T, n), AddAll(M, n))
<1>1. PICK k \in Nat : Len(T) = k /\ Len(D) = k + 1
  BY DEF Chain, MapSeq
<1>2. PICK e : e = Committed(D[k + 1], n)
  BY Zenon
<1>3. PICK E, U : E = Append(D, e) /\ U = Append(T, n)
  BY Zenon
<1>4. /\ Len(E) = k + 2 /\ E[k + 2] = e
      /\ Len(U) = k + 1 /\ U[k + 1] = n
      /\ \A i \in 1..(k + 1) : E[i] = D[i]
      /\ \A i \in 1..k : U[i] = T[i]
  BY <1>1, <1>3 DEF DiskSeq, MapSeq
<1>5. D[1] \in Disks
  BY <1>1 DEF DiskSeq
<1>6. e = Committed(D[1], AddAll(M, n))
  BY <1>1, <1>2, <1>5, CommittedTwice DEF Chain
<1>7. DOMAIN AddAll(M, n) = DOMAIN M \cup DOMAIN n
  BY Zenon DEF AddAll
<1>8. ASSUME NEW i \in 1..(k + 1)
      PROVE  E[i + 1] = Committed(E[i], U[i]) /\ DOMAIN U[i] \subseteq DOMAIN AddAll(M, n)
  <2>1. CASE i = k + 1
    <3>1. E[i + 1] = e /\ E[i] = D[k + 1] /\ U[i] = n
      BY <2>1, <1>1, <1>4
    <3> QED
      BY <3>1, <1>2, <1>7, Zenon
  <2>2. CASE i \in 1..k
    <3>1. E[i + 1] = D[i + 1] /\ E[i] = D[i] /\ U[i] = T[i]
      BY <2>2, <1>1, <1>4
    <3> QED
      BY <2>2, <3>1, <1>1, <1>7, Zenon DEF Chain
  <2> QED
    BY <2>1, <2>2, <1>1
<1>9. Chain(E, U, AddAll(M, n))
  <2>1. E[1] = D[1]
    BY <1>1, <1>4
  <2> QED
    BY <2>1, <1>1, <1>4, <1>6, <1>8 DEF Chain
<1> QED
  BY <1>1, <1>2, <1>3, <1>9, Zenon

\* A direct write of blocks that no pending transaction writes.
LEMMA ChainWrite ==
  ASSUME NEW D \in DiskSeq, NEW T \in MapSeq, NEW M \in Map, Chain(D, T, M),
         NEW w \in Map, DOMAIN w \cap DOMAIN M = {}
  PROVE  Chain([i \in DOMAIN D |-> WriteBlocks(D[i], w)], T, M)
<1>1. PICK k \in Nat : Len(T) = k /\ Len(D) = k + 1
  BY DEF Chain, MapSeq
<1>2. PICK E : E = [i \in DOMAIN D |-> WriteBlocks(D[i], w)]
  BY Zenon
<1>3. DOMAIN D = 1..(k + 1) /\ (\A i \in 1..(k + 1) : D[i] \in Disks) /\ \A i \in 1..k : T[i] \in Map
  BY <1>1 DEF DiskSeq, MapSeq
<1>4. \A i \in 1..(k + 1) : E[i] = WriteBlocks(D[i], w)
  BY <1>2, <1>3, Zenon
<1>5. Len(E) = k + 1
  BY <1>1, <1>2, <1>3
<1>6. ASSUME NEW i \in 1..k PROVE E[i + 1] = Committed(E[i], T[i])
  <2>1. i \in 1..(k + 1) /\ i + 1 \in 1..(k + 1)
    BY <1>1
  <2>2. D[i + 1] = Committed(D[i], T[i]) /\ DOMAIN w \cap DOMAIN T[i] = {}
    BY <1>1, Zenon DEF Chain
  <2> QED
    BY <2>1, <2>2, <1>3, <1>4, WriteCommitted
<1>7. E[k + 1] = Committed(E[1], M)
  <2>1. 1 \in 1..(k + 1) /\ k + 1 \in 1..(k + 1)
    BY <1>1
  <2>2. D[k + 1] = Committed(D[1], M)
    BY <1>1, Zenon DEF Chain
  <2> QED
    BY <2>1, <2>2, <1>3, <1>4, WriteCommitted
<1>8. Chain(E, T, M)
  BY <1>1, <1>5, <1>6, <1>7, Zenon DEF Chain
<1> QED
  BY <1>2, <1>8, Zenon

\* A sync.
LEMMA ChainSync ==
  ASSUME NEW D \in DiskSeq, NEW T \in MapSeq, NEW M \in Map, Chain(D, T, M), NEW S
  PROVE  Chain([i \in DOMAIN D |-> SyncBlocks(D[i], S)], T, M)
<1>1. PICK k \in Nat : Len(T) = k /\ Len(D) = k + 1
  BY DEF Chain, MapSeq
<1>2. PICK E : E = [i \in DOMAIN D |-> SyncBlocks(D[i], S)]
  BY Zenon
<1>3. DOMAIN D = 1..(k + 1) /\ (\A i \in 1..(k + 1) : D[i] \in Disks) /\ \A i \in 1..k : T[i] \in Map
  BY <1>1 DEF DiskSeq, MapSeq
<1>4. \A i \in 1..(k + 1) : E[i] = SyncBlocks(D[i], S)
  BY <1>2, <1>3, Zenon
<1>5. Len(E) = k + 1
  BY <1>1, <1>2, <1>3
<1>6. ASSUME NEW i \in 1..k PROVE E[i + 1] = Committed(E[i], T[i])
  <2>1. i \in 1..(k + 1) /\ i + 1 \in 1..(k + 1)
    BY <1>1
  <2>2. D[i + 1] = Committed(D[i], T[i])
    BY <1>1, Zenon DEF Chain
  <2> QED
    BY <2>1, <2>2, <1>3, <1>4, SyncCommitted
<1>7. E[k + 1] = Committed(E[1], M)
  <2>1. 1 \in 1..(k + 1) /\ k + 1 \in 1..(k + 1)
    BY <1>1
  <2>2. D[k + 1] = Committed(D[1], M)
    BY <1>1, Zenon DEF Chain
  <2> QED
    BY <2>1, <2>2, <1>3, <1>4, SyncCommitted
<1>8. Chain(E, T, M)
  BY <1>1, <1>5, <1>6, <1>7, Zenon DEF Chain
<1> QED
  BY <1>2, <1>8, Zenon

\* flushall begins: the merged map leads to the latest disk in one step, the
\* transactions lead there one by one.
LEMMA PathStart ==
  ASSUME NEW h, NEW D \in DiskSeq, NEW T \in MapSeq, NEW M \in Map, NEW m,
         Chain(D, T, M), Reps(h, D[1], m)
  PROVE  Path(h, D, m, ToFlush(M, T))
<1>1. PICK k \in Nat : Len(T) = k /\ Len(D) = k + 1
  BY DEF Chain, MapSeq
<1>2. CASE ToFlush(M, T) = <<M>>
  <2>1. PICK g \in [0..1 -> 1..(k + 1)] : g[0] = 1 /\ g[1] = k + 1
    <3>1. PICK g : g = [j \in 0..1 |-> IF j = 0 THEN 1 ELSE k + 1]
      BY Zenon
    <3>2. g \in [0..1 -> 1..(k + 1)] /\ g[0] = 1 /\ g[1] = k + 1
      BY <3>1
    <3> QED
      BY <3>2, Zenon
  <2>2. Len(<<M>>) = 1 /\ <<M>>[1] = M
    BY Zenon
  <2>3. D[k + 1] = Committed(D[1], M)
    BY <1>1, Zenon DEF Chain
  <2>4. Leads(g, h, D, m, <<M>>)
    BY <2>1, <2>2, <2>3, <1>1 DEF Leads
  <2> QED
    BY <1>1, <1>2, <2>1, <2>2, <2>4, Zenon DEF Path
<1>3. CASE ToFlush(M, T) = T
  <2>1. PICK g \in [0..k -> 1..(k + 1)] : \A j \in 0..k : g[j] = j + 1
    <3>1. [j \in 0..k |-> j + 1] \in [0..k -> 1..(k + 1)]
      BY <1>1
    <3> QED
      BY <3>1, Zenon
  <2>2. ASSUME NEW j \in 1..k PROVE D[g[j]] = Committed(D[g[j - 1]], T[j])
    <3>1. g[j] = j + 1 /\ g[j - 1] = j
      BY <2>1
    <3> QED
      BY <3>1, <1>1, Zenon DEF Chain
  <2>3. g[0] = 1 /\ g[k] = k + 1
    BY <2>1
  <2>4. Leads(g, h, D, m, T)
    BY <2>2, <2>3, <1>1, Zenon DEF Leads
  <2> QED
    BY <1>1, <1>3, <2>1, <2>4, Zenon DEF Path
<1> QED
  BY <1>2, <1>3, Zenon DEF ToFlush

\* A list has been appended to the log.
LEMMA PathNext ==
  ASSUME NEW h \in Disks, NEW D \in DiskSeq, NEW m \in Map, NEW q \in MapSeq, q # <<>>,
         Path(h, D, m, q)
  PROVE  Path(h, D, AddAll(m, Head(q)), Tail(q))
<1>1. PICK k \in Nat : Len(q) = k + 1
  <2>1. Len(q) - 1 \in Nat
    BY DEF MapSeq
  <2> QED
    BY <2>1
<1>2. PICK g \in [0..(k + 1) -> 1..Len(D)] : Leads(g, h, D, m, q)
  BY <1>1, Zenon DEF Path
<1>3. PICK n, r : n = Head(q) /\ r = Tail(q)
  BY Zenon
<1>4. n = q[1] /\ n \in Map /\ Len(r) = k /\ \A j \in 1..k : r[j] = q[j + 1]
  BY <1>1, <1>3 DEF MapSeq
<1>5. PICK e \in [0..k -> 1..Len(D)] : \A j \in 0..k : e[j] = g[j + 1]
  <2>1. [j \in 0..k |-> g[j + 1]] \in [0..k -> 1..Len(D)]
    BY <1>1, <1>2
  <2> QED
    BY <2>1, Zenon
<1>6. Reps(h, D[e[0]], AddAll(m, n))
  <2>1. g[0] \in 1..Len(D) /\ e[0] = g[1]
    BY <1>1, <1>2, <1>5
  <2>2. PICK d : d = D[g[0]] /\ d \in Disks
    BY <2>1 DEF DiskSeq
  <2>3. Reps(h, d, m) /\ D[g[1]] = Committed(d, n)
    <3>1. 1 \in 1..Len(q) /\ 1 - 1 = 0
      BY <1>1
    <3>2. D[g[1]] = Committed(D[g[1 - 1]], q[1])
      BY <1>2, <3>1, Zenon DEF Leads
    <3> QED
      BY <1>2, <1>4, <2>2, <3>1, <3>2, Zenon DEF Leads
  <2> QED
    BY <2>1, <2>2, <2>3, <1>4, RepsAppend
<1>7. e[k] = Len(D)
  BY <1>1, <1>2, <1>5 DEF Leads
<1>8. ASSUME NEW j \in 1..k PROVE D[e[j]] = Committed(D[e[j - 1]], r[j])
  <2>1. e[j] = g[j + 1] /\ e[j - 1] = g[j] /\ r[j] = q[j + 1] /\ j + 1 \in 1..(k + 1)
    BY <1>1, <1>4, <1>5
  <2>2. D[g[j + 1]] = Committed(D[g[(j + 1) - 1]], q[j + 1]) /\ (j + 1) - 1 = j
    BY <2>1, <1>1, <1>2 DEF Leads
  <2> QED
    BY <2>1, <2>2, Zenon
<1>9. Leads(e, h, D, AddAll(m, n), r)
  BY <1>4, <1>6, <1>7, <1>8, Zenon DEF Leads
<1> QED
  BY <1>3, <1>4, <1>5, <1>9, Zenon DEF Path

\* An empty list is passed over.
LEMMA PathSkip ==
  ASSUME NEW h \in Disks, NEW D \in DiskSeq, NEW m \in Map, NEW q \in MapSeq, q # <<>>,
         Path(h, D, m, q), DOMAIN Head(q) = {}
  PROVE  Path(h, D, m, Tail(q))
<1>1. AddAll(m, Head(q)) = m
  BY Zenon DEF AddAll, Map, Maps
<1> QED
  BY <1>1, PathNext, Zenon

\* The home blocks and the log change and represent the same disk.
LEMMA PathSame ==
  ASSUME NEW h, NEW D \in DiskSeq, NEW m, NEW q \in MapSeq, Path(h, D, m, q), NEW h2, NEW m2,
         \A d \in Disks : Reps(h, d, m) => Reps(h2, d, m2)
  PROVE  Path(h2, D, m2, q)
<1>1. PICK g \in [0..Len(q) -> 1..Len(D)] : Leads(g, h, D, m, q)
  BY Zenon DEF Path
<1>2. D[g[0]] \in Disks
  <2>1. g[0] \in 1..Len(D)
    BY DEF MapSeq
  <2> QED
    BY <2>1 DEF DiskSeq
<1>3. Leads(g, h2, D, m2, q)
  BY <1>1, <1>2, Zenon DEF Leads
<1> QED
  BY <1>1, <1>3, Zenon DEF Path

\* When nothing is left to flush, the log represents the latest disk.
LEMMA PathEnd ==
  ASSUME NEW h, NEW D \in DiskSeq, NEW m, Path(h, D, m, <<>>)
  PROVE  Reps(h, D[Len(D)], m)
BY Zenon DEF Path, Leads

\* The log always represents a disk of the disk set.
LEMMA PathReps ==
  ASSUME NEW h, NEW D \in DiskSeq, NEW m, NEW q \in MapSeq, Path(h, D, m, q)
  PROVE  \E i \in 1..Len(D) : Reps(h, D[i], m)
<1>1. PICK g \in [0..Len(q) -> 1..Len(D)] : Leads(g, h, D, m, q)
  BY Zenon DEF Path
<1>2. g[0] \in 1..Len(D)
  BY DEF MapSeq
<1> QED
  BY <1>1, <1>2, Zenon DEF Leads

-----------------------------------------------------------------------------
\* The room in the log.

\* What avail has promised room for fits, whatever the padding.
LEMMA AvailFits ==
  ASSUME NEW l \in LogType, Packed(l), NEW n \in Map, Cardinality(DOMAIN n) <= Avail(l)
  PROVE  Fits(l, n)
<1>1. PICK c \in Nat : c = Cardinality(DOMAIN n)
  BY MapCardinality, Zenon
<1>2. PICK K \in Nat \ {0}, L \in Nat : K = ItemsPerVal /\ L = LogDescLen
  BY MemLogAssumption, Zenon
<1>3. PICK e \in 0..L, f \in Nat : e = l.ndesc /\ f = l.ndata
  BY <1>2, MemLogAssumption DEF LogType, LogLen
<1>4. PICK r \in Nat : L = e + r
  <2>1. L - e \in Nat
    BY <1>2, <1>3
  <2> QED
    BY <2>1, <1>2, <1>3
<1>5. L * K = e * K + r * K /\ L * K = K * L /\ e * K \in Nat /\ r * K \in Nat
  BY <1>2, <1>3, <1>4
<1>6. c <= K * L - e * K /\ f <= e * K
  BY <1>1, <1>2, <1>3, Zenon DEF Avail, LogLen, Packed
<1>7. c <= r * K
  BY <1>5, <1>6
<1>8. (c + K - 1) \div K <= r /\ (c + K - 1) \div K \in Nat
  BY <1>7, DivupLeast, DivupRoom, Zenon
<1>9. l.ndesc + Ndesc(n) <= LogDescLen
  BY <1>1, <1>2, <1>3, <1>4, <1>8 DEF Ndesc
<1>10. f + c <= K * L
  BY <1>5, <1>6
<1> QED
  BY <1>1, <1>2, <1>3, <1>9, <1>10, Zenon DEF Fits, LogLen

\* An append within loglen_valid leaves a packed log.
LEMMA AppendFits ==
  ASSUME NEW l \in LogType, Packed(l), NEW n \in Map, Fits(l, n)
  PROVE  Append1(l, n) \in LogType /\ Packed(Append1(l, n))
<1>1. PICK c \in Nat : c = Cardinality(DOMAIN n)
  BY MapCardinality, Zenon
<1>2. PICK K \in Nat \ {0} : K = ItemsPerVal
  BY MemLogAssumption, Zenon
<1>3. LogDescLen \in Nat /\ LogLen \in Nat
  BY MemLogAssumption DEF LogLen
<1>4. PICK e \in Nat, f \in Nat : e = l.ndesc /\ f = l.ndata
  BY <1>3 DEF LogType
<1>5. PICK q \in Nat : q = Ndesc(n) /\ c <= q * K
  BY <1>1, <1>2, DivupRoom, Zenon DEF Ndesc
<1>6. e + q <= LogDescLen /\ f + c <= LogLen /\ f <= e * K
  BY <1>1, <1>2, <1>4, <1>5, Zenon DEF Fits, Packed
<1>7. (e + q) * K = e * K + q * K /\ e * K \in Nat /\ q * K \in Nat
  OBVIOUS
<1>8. f + c <= (e + q) * K
  BY <1>5, <1>6, <1>7
<1>9. PICK x : x = AddAll(l.map, n) /\ x \in Map
  BY AddAllType, Zenon DEF LogType, Map
<1>10. Append1(l, n) = [map |-> x, ndesc |-> e + q, ndata |-> f + c]
  BY <1>1, <1>4, <1>5, <1>9, Zenon DEF Append1
<1>11. e + q \in 0..LogDescLen /\ f + c \in 0..LogLen
  BY <1>3, <1>6
<1>12. [map |-> x, ndesc |-> e + q, ndata |-> f + c] \in LogType
  BY <1>9, <1>11, Zenon DEF LogType, Map
<1>13. Packed([map |-> x, ndesc |-> e + q, ndata |-> f + c])
  BY <1>2, <1>8, Zenon DEF Packed
<1> QED
  BY <1>10, <1>12, <1>13, Zenon

\* The empty log, which has room for whatever submit accepts.
LEMMA EmptyLogFacts ==
  /\ EmptyLog \in LogType /\ Packed(EmptyLog) /\ EmptyLog.map = EmptyMap
  /\ Avail(EmptyLog) = LogLen
<1>1. LogDescLen \in Nat /\ LogLen \in Nat /\ ItemsPerVal \in Nat /\ 0 * ItemsPerVal = 0
  BY MemLogAssumption DEF LogLen
<1>2. EmptyMap \in Maps(Addr, Val)
  BY EmptyMapType, Zenon DEF Map
<1>3. EmptyLog \in LogType
  BY <1>1, <1>2 DEF EmptyLog, LogType
<1>4. EmptyLog.map = EmptyMap /\ EmptyLog.ndesc = 0 /\ EmptyLog.ndata = 0
  BY Zenon DEF EmptyLog
<1> QED
  BY <1>1, <1>3, <1>4 DEF Packed, Avail

\* What flushall hands to flush fits into an empty log.
LEMMA ToFlushFits ==
  ASSUME NEW M \in Map, NEW T \in MapSeq, \A i \in DOMAIN T : Accepts(T[i])
  PROVE  /\ ToFlush(M, T) \in MapSeq
         /\ \A i \in DOMAIN ToFlush(M, T) : Accepts(ToFlush(M, T)[i])
<1>1. CASE Cardinality(DOMAIN M) <= LogLen
  <2>1. ToFlush(M, T) = <<M>> /\ Accepts(M)
    BY <1>1, Zenon DEF ToFlush, Accepts
  <2>2. <<M>> \in MapSeq /\ DOMAIN <<M>> = 1..1 /\ <<M>>[1] = M
    BY DEF MapSeq
  <2> QED
    BY <2>1, <2>2
<1>2. CASE ~(Cardinality(DOMAIN M) <= LogLen)
  BY <1>2, Zenon DEF ToFlush
<1> QED
  BY <1>1, <1>2, Zenon

\* The head and the rest of the lists that are to be flushed.
LEMMA QueueParts ==
  ASSUME NEW q \in MapSeq, q # <<>>, \A i \in DOMAIN q : Accepts(q[i])
  PROVE  /\ Head(q) \in Map /\ Accepts(Head(q))
         /\ Tail(q) \in MapSeq /\ \A i \in DOMAIN Tail(q) : Accepts(Tail(q)[i])
<1>1. Head(q) \in Map /\ Head(q) = q[1] /\ 1 \in DOMAIN q /\ Tail(q) \in MapSeq
  BY DEF MapSeq
<1>2. ASSUME NEW i \in DOMAIN Tail(q) PROVE Accepts(Tail(q)[i])
  <2>1. i + 1 \in DOMAIN q /\ Tail(q)[i] = q[i + 1]
    BY DEF MapSeq
  <2> QED
    BY <2>1, Zenon
<1> QED
  BY <1>1, <1>2, Zenon

-----------------------------------------------------------------------------
\* What reads and crashes see.

\* A map of one block.
LEMMA OneBlock ==
  ASSUME NEW a \in Addr, NEW v \in Val
  PROVE  [x \in {a} |-> v] \in Map
<1>1. [x \in {a} |-> v] \in [{a} -> Val] /\ {a} \in SUBSET Addr
  BY Zenon
<1> QED
  BY <1>1, MapIntro, Zenon

\* The empty map has no effect.
LEMMA OverlayEmpty ==
  ASSUME NEW f \in [Addr -> Val]
  PROVE  Overlay(EmptyMap, f) = f
BY EmptyMapType, Zenon DEF Overlay

\* r is t with the value v at a.
Updated(r, t, a, v) == r = [t EXCEPT ![a] = v]

OneMap(n, a, v) == n = [x \in {a} |-> v]

\* One more write in the active transaction.
LEMMA OverlayWrite ==
  ASSUME NEW f \in [Addr -> Val], NEW m \in Map, NEW a \in Addr, NEW v \in Val,
         NEW n, OneMap(n, a, v), NEW r, Updated(r, Overlay(m, f), a, v)
  PROVE  r = Overlay(AddAll(m, n), f)
BY Zenon DEF Overlay, AddAll, OneMap, Updated

\* A direct write below the active transaction.
LEMMA OverlayDwrite ==
  ASSUME NEW f \in [Addr -> Val], NEW m \in Map, NEW a \in Addr, NEW v \in Val,
         NEW n, OneMap(n, a, v), NEW r, Updated(r, Overlay(m, f), a, v)
  PROVE  r = Overlay(Without(m, {a}), Overlay(n, f))
BY Zenon DEF Overlay, Without, OneMap, Updated

\* Overlaid values that are there already.
LEMMA OverlaySame ==
  ASSUME NEW f \in [Addr -> Val], NEW m \in Map, \A a \in DOMAIN m : f[a] = m[a]
  PROVE  Overlay(m, f) = f
BY Zenon DEF Overlay

\* Without removes keys.
LEMMA WithoutType ==
  ASSUME NEW m \in Map, NEW S
  PROVE  Without(m, S) \in Map
<1>1. Without(m, S) \in [DOMAIN m \ S -> Val] /\ DOMAIN m \ S \in SUBSET Addr
  BY MapElim, Zenon DEF Without
<1> QED
  BY <1>1, MapIntro, Zenon

\* The blocks that a crash leaves.
LEMMA OutcomeType ==
  ASSUME NEW h \in Disks, NEW f \in CrashOutcomes(h)
  PROVE  f \in [Addr -> Val]
<1>1. /\ f \in [Addr -> UNION {Merge(h[a]) : a \in Addr}]
      /\ \A a \in Addr : f[a] \in Merge(h[a])
  BY Zenon DEF CrashOutcomes, Disks
<1>2. \A a \in Addr : Merge(h[a]) \subseteq Val
  BY Zenon DEF Merge, Disks, ValuSet
<1> QED
  BY <1>1, <1>2, Zenon

\* A flushed disk reads as what was flushed.
LEMMA FlushedLatest ==
  ASSUME NEW f \in [Addr -> Val]
  PROVE  Latest(Flushed(f)) = f
BY SettledFields, Zenon DEF Latest, Flushed

-----------------------------------------------------------------------------
\* The inductive invariant.

\* The log now, after a running call, and its copy in memory.
LogInv ==
  /\ pc # "down" => oms = dlog.now.map
  /\ pc \notin {"extend", "trunc"} => dlog.next = dlog.now
  /\ pc = "extend" => dlog.next = Append1(dlog.now, Head(queue))
  /\ pc = "applied" => \A a \in DOMAIN oms : disk[a].cur = oms[a]
  /\ pc = "trunc" => dlog.next = EmptyLog /\ \A a \in DOMAIN oms : disk[a] = Settled(oms[a])

\* The packing of the logs.
PackInv == Packed(dlog.now) /\ Packed(dlog.next)

\* What is handed to the log fits into an empty log, and what is appended has
\* been given room.
RoomInv ==
  /\ \A i \in DOMAIN ts : Accepts(ts[i])
  /\ \A i \in DOMAIN queue : Accepts(queue[i])
  /\ pc = "append" => Cardinality(DOMAIN Head(queue)) <= Avail(dlog.now)

\* Where a flush has lists to flush.
QueueInv ==
  /\ pc \in {"idle", "dwrite", "return", "down"} => queue = <<>>
  /\ pc \in {"append", "extend"} => queue # <<>>
  /\ pc = "dwrite" => op = "dwrite"
  /\ pc = "idle" => op = "none"

\* The disk set follows the pending transactions.
ChainInv == pc # "down" => Chain(ds, ts, vm)

\* The log represents the first disk, and in a flush one on the way to the latest.
FlushInv ==
  IF pc = "flush" \/ queue # <<>>
  THEN Path(disk, ds, dlog.now.map, queue)
  ELSE pc # "down" => Reps(disk, ds[1], dlog.now.map)

\* What is known of a direct write.
DwriteInv ==
  /\ op # "dwrite" => wr = EmptyMap
  /\ queue = <<>> /\ pc \in {"dwrite", "apply", "applied", "trunc"} => ~Overlap(wr, vm)
  /\ pc = "return" => \A a \in DOMAIN wr : latest[a].cur = wr[a]

\* What the active transaction sees.
TxnInv == pc # "down" => txn = Overlay(cm, Overlay(wr, Latest(latest)))

\* After a crash.
DownInv ==
  pc = "down" =>
    /\ CrashSafe
    /\ disk = Flushed(Latest(disk))
    /\ vm = EmptyMap /\ ts = <<>> /\ cm = EmptyMap /\ wr = EmptyMap
    /\ op = "none"

IInv ==
  /\ TypeOK /\ LogInv /\ PackInv /\ RoomInv /\ QueueInv /\ ChainInv
  /\ FlushInv /\ DwriteInv /\ TxnInv /\ DownInv

-----------------------------------------------------------------------------
\* The types that the steps rely on.
LEMMA TypeFacts ==
  ASSUME TypeOK
  PROVE  /\ disk \in Disks /\ ds \in DiskSeq /\ Len(ds) \in Nat /\ 1 <= Len(ds)
         /\ latest \in Disks /\ ds[1] \in Disks
         /\ queue \in MapSeq /\ ts \in MapSeq
         /\ oms \in Map /\ wr \in Map /\ vm \in Map /\ cm \in Map
         /\ dlog \in [now : LogType, next : LogType]
         /\ dlog.now \in LogType /\ dlog.next \in LogType
         /\ dlog.now.map \in Map /\ dlog.next.map \in Map
<1>1. ds \in Seq(Disks) /\ ds # <<>>
  BY Zenon DEF TypeOK
<1>2. Len(ds) \in Nat /\ 1 <= Len(ds)
  BY <1>1
<1>3. ds[Len(ds)] \in Disks /\ ds[1] \in Disks
  BY <1>1, <1>2
<1>4. dlog.now \in LogType /\ dlog.next \in LogType
  BY Zenon DEF TypeOK
<1>5. dlog.now.map \in Map /\ dlog.next.map \in Map
  BY <1>4, Zenon DEF LogType, Map
<1> QED
  BY <1>1, <1>2, <1>3, <1>4, <1>5, Zenon DEF TypeOK, DiskSeq, MapSeq, Map, latest

\* Between calls the active transaction sees its writes over the latest disk.
LEMMA IdleTxn ==
  ASSUME IInv, pc = "idle"
  PROVE  /\ queue = <<>> /\ op = "none" /\ wr = EmptyMap
         /\ Reps(disk, ds[1], dlog.now.map)
         /\ Chain(ds, ts, vm)
         /\ dlog.next = dlog.now
         /\ Latest(latest) \in [Addr -> Val]
         /\ txn = Overlay(cm, Latest(latest))
<1>1. queue = <<>> /\ op = "none" /\ wr = EmptyMap
  BY Zenon DEF IInv, QueueInv, DwriteInv
<1>2. Reps(disk, ds[1], dlog.now.map) /\ Chain(ds, ts, vm) /\ dlog.next = dlog.now
  BY <1>1, Zenon DEF IInv, FlushInv, ChainInv, LogInv
<1>3. Latest(latest) \in [Addr -> Val]
  BY TypeFacts, Zenon DEF IInv, Latest, Disks, ValuSet
<1>4. Overlay(wr, Latest(latest)) = Latest(latest)
  BY <1>1, <1>3, OverlayEmpty, Zenon
<1> QED
  BY <1>1, <1>2, <1>3, <1>4, Zenon DEF IInv, TxnInv

\* write and abort change the active transaction only.
LEMMA TxnStep ==
  ASSUME IInv, pc = "idle", UNCHANGED <<gvars, ds>>, cm' \in Map,
         txn' = Overlay(cm', Latest(latest)), txn' \in [Addr -> Val]
  PROVE  IInv'
<1>1. UNCHANGED <<disk, dlog, oms, pc, op, queue, wr, vm, ts, ds, latest>>
  BY Zenon DEF gvars, mvars, latest
<1>2. TypeOK'
  BY <1>1, Zenon DEF IInv, TypeOK, Map
<1>3. LogInv' /\ PackInv' /\ RoomInv' /\ QueueInv' /\ ChainInv' /\ FlushInv' /\ DwriteInv'
  BY <1>1, Zenon DEF IInv, LogInv, PackInv, RoomInv, QueueInv, ChainInv, FlushInv, DwriteInv
<1>4. TxnInv'
  <2>1. Overlay(wr, Latest(latest)) = Latest(latest)
    BY IdleTxn, OverlayEmpty, Zenon
  <2> QED
    BY <1>1, <2>1, Zenon DEF TxnInv
<1>5. DownInv'
  BY <1>1, Zenon DEF DownInv
<1> QED
  BY <1>2, <1>3, <1>4, <1>5, Zenon DEF IInv

\* LOG.write
LEMMA WriteStep ==
  ASSUME IInv, NEW a \in Addr, NEW v \in Val, Write(a, v)
  PROVE  IInv'
<1>1. PICK n : n = [x \in {a} |-> v]
  BY Zenon
<1>2. cm \in Map /\ n \in Map
  BY <1>1, TypeFacts, OneBlock, Zenon DEF IInv
<1>3. PICK f \in [Addr -> Val] : f = Latest(latest) /\ txn = Overlay(cm, f)
  BY IdleTxn, Zenon DEF Write
<1>4. pc = "idle" /\ cm' = AddAll(cm, n) /\ txn' = [txn EXCEPT ![a] = v] /\ UNCHANGED <<gvars, ds>>
  BY <1>1, Zenon DEF Write
<1>5. cm' \in Map
  BY <1>2, <1>4, AddAllType, Zenon
<1>6. txn' = Overlay(cm', f)
  <2>1. OneMap(n, a, v) /\ Updated(txn', Overlay(cm, f), a, v)
    BY <1>1, <1>3, <1>4, Zenon DEF OneMap, Updated
  <2> QED
    BY <1>2, <1>4, <2>1, OverlayWrite, Zenon
<1>7. txn' \in [Addr -> Val]
  BY <1>4, Zenon DEF IInv, TypeOK
<1> QED
  BY <1>3, <1>4, <1>5, <1>6, <1>7, TxnStep, Zenon

\* LOG.abort
LEMMA AbortStep == ASSUME IInv, Abort PROVE IInv'
<1>1. cm' \in Map /\ cm' = EmptyMap
  BY EmptyMapType, Zenon DEF Abort
<1>2. txn' = Overlay(cm', Latest(latest)) /\ txn' \in [Addr -> Val]
  BY <1>1, IdleTxn, OverlayEmpty, Zenon DEF Abort
<1> QED
  BY <1>1, <1>2, TxnStep, Zenon DEF Abort

\* A flush begins, with the disk set and the transactions that its call leaves.
LEMMA FlushBegins ==
  ASSUME IInv, pc = "idle", UNCHANGED <<disk, dlog, oms>>,
         queue' = ToFlush(vm', ts'), pc' = "flush",
         op' \in {"commit", "flushall", "flushsync", "dwrite"},
         ds' \in DiskSeq, ds' # <<>>, ds'[1] = ds[1], ts' \in MapSeq, vm' \in Map, cm' \in Map,
         wr' \in Map, op' # "dwrite" => wr' = EmptyMap,
         txn' \in [Addr -> Val], Chain(ds', ts', vm'),
         \A i \in DOMAIN ts' : Accepts(ts'[i]),
         txn' = Overlay(cm', Overlay(wr', Latest(ds'[Len(ds')])))
  PROVE  IInv'
<1>1. /\ queue' \in MapSeq
      /\ \A i \in DOMAIN queue' : Accepts(queue'[i])
  BY ToFlushFits, Zenon
<1>2. TypeOK'
  BY <1>1, Zenon DEF IInv, TypeOK, Map, MapSeq, DiskSeq
<1>3. LogInv' /\ PackInv'
  <2>1. oms = dlog.now.map /\ dlog.next = dlog.now
    BY Zenon DEF IInv, LogInv
  <2> QED
    BY <2>1, Zenon DEF IInv, LogInv, PackInv
<1>4. RoomInv' /\ QueueInv' /\ DwriteInv' /\ DownInv'
  BY <1>1, Zenon DEF RoomInv, QueueInv, DwriteInv, DownInv
<1>5. ChainInv' /\ TxnInv'
  BY Zenon DEF ChainInv, TxnInv, latest
<1>6. FlushInv'
  <2>1. Reps(disk', ds'[1], dlog'.now.map)
    BY IdleTxn, Zenon
  <2>2. Path(disk', ds', dlog'.now.map, queue')
    BY <2>1, PathStart, Zenon
  <2> QED
    BY <2>2, Zenon DEF FlushInv
<1> QED
  BY <1>2, <1>3, <1>4, <1>5, <1>6, Zenon DEF IInv

\* flushall and flushsync
LEMMA FlushallStep == ASSUME IInv, Flushall \/ Flushsync PROVE IInv'
<1>1. /\ pc = "idle" /\ pc' = "flush" /\ queue' = ToFlush(vm, ts)
      /\ op' \in {"flushall", "flushsync"}
      /\ UNCHANGED <<disk, dlog, oms, wr, vm, ts, cm, ds, txn>>
  BY Zenon DEF Flushall, Flushsync, StartFlush
<1>2. /\ ds \in DiskSeq /\ ds # <<>> /\ ts \in MapSeq /\ vm \in Map /\ cm \in Map /\ wr \in Map
      /\ txn \in [Addr -> Val]
  BY TypeFacts, Zenon DEF IInv, TypeOK
<1>3. Chain(ds, ts, vm) /\ wr = EmptyMap
  BY <1>1, IdleTxn, Zenon
<1>4. \A i \in DOMAIN ts : Accepts(ts[i])
  BY Zenon DEF IInv, RoomInv
<1>5. txn = Overlay(cm, Overlay(wr, Latest(ds[Len(ds)])))
  BY <1>1, Zenon DEF IInv, TxnInv, latest
<1> QED
  BY <1>1, <1>2, <1>3, <1>4, <1>5, FlushBegins, Zenon

\* A call of the group log that returns at once.
LEMMA SubmitOnly ==
  ASSUME IInv, pc = "idle", UNCHANGED <<disk, dlog, oms, queue, pc, op, wr>>,
         ds' \in DiskSeq, ds' # <<>>, ds'[1] = ds[1], ts' \in MapSeq, vm' \in Map, cm' \in Map,
         txn' \in [Addr -> Val], Chain(ds', ts', vm'),
         \A i \in DOMAIN ts' : Accepts(ts'[i]),
         txn' = Overlay(cm', Overlay(wr', Latest(ds'[Len(ds')])))
  PROVE  IInv'
<1>1. TypeOK'
  BY Zenon DEF IInv, TypeOK, Map, MapSeq, DiskSeq
<1>2. LogInv' /\ PackInv' /\ QueueInv'
  BY Zenon DEF IInv, LogInv, PackInv, QueueInv
<1>3. RoomInv'
  BY Zenon DEF IInv, RoomInv
<1>4. DwriteInv' /\ DownInv'
  BY Zenon DEF IInv, DwriteInv, DownInv
<1>5. ChainInv' /\ TxnInv'
  BY Zenon DEF ChainInv, TxnInv, latest
<1>6. FlushInv'
  <2>1. Reps(disk', ds'[1], dlog'.now.map) /\ queue' = <<>>
    BY IdleTxn, Zenon
  <2> QED
    BY <2>1, Zenon DEF FlushInv
<1> QED
  BY <1>1, <1>2, <1>3, <1>4, <1>5, <1>6, Zenon DEF IInv

\* LOG.commit
LEMMA CommitStep == ASSUME IInv, Commit PROVE IInv'
<1>1. /\ pc = "idle" /\ Accepts(cm)
      /\ vm' = AddAll(vm, cm) /\ ts' = Append(ts, cm) /\ cm' = EmptyMap
      /\ ds' = Append(ds, Committed(ds[Len(ds)], cm))
      /\ UNCHANGED <<disk, dlog, oms, wr, txn>>
  BY Zenon DEF Commit, AfterSubmit, latest
<1>2. /\ ds \in DiskSeq /\ Len(ds) \in Nat /\ 1 <= Len(ds) /\ ts \in MapSeq
      /\ vm \in Map /\ cm \in Map /\ wr \in Map
      /\ latest \in Disks /\ latest = ds[Len(ds)] /\ txn \in [Addr -> Val]
  BY TypeFacts, Zenon DEF IInv, TypeOK, latest
<1>3. Chain(ds, ts, vm) /\ wr = EmptyMap /\ txn = Overlay(cm, Latest(latest))
  BY <1>1, IdleTxn, Zenon
<1>4. PICK e \in Disks : e = Committed(latest, cm)
  BY <1>2, CommittedType, Zenon
<1>5. ds' = Append(ds, e)
  BY <1>1, <1>2, <1>4, Zenon
<1>6. ds' \in DiskSeq /\ ds' # <<>> /\ ds'[1] = ds[1] /\ ds'[Len(ds')] = e
  BY <1>2, <1>4, <1>5 DEF DiskSeq
<1>7. Chain(ds', ts', vm')
  BY <1>1, <1>2, <1>3, ChainCommit, Zenon
<1>8. vm' \in Map /\ cm' \in Map /\ ts' \in MapSeq
  BY <1>1, <1>2, AddAllType, EmptyMapType DEF MapSeq
<1>9. ASSUME NEW i \in DOMAIN ts' PROVE Accepts(ts'[i])
  <2>1. i \in DOMAIN ts \/ i = Len(ts) + 1
    BY <1>1, <1>2 DEF MapSeq
  <2>2. CASE i \in DOMAIN ts
    <3>1. ts'[i] = ts[i]
      BY <1>1, <1>2, <2>2 DEF MapSeq
    <3> QED
      BY <2>2, <3>1, Zenon DEF IInv, RoomInv
  <2>3. CASE i = Len(ts) + 1
    <3>1. ts'[i] = cm
      BY <1>1, <1>2, <2>3 DEF MapSeq
    <3> QED
      BY <1>1, <3>1, Zenon
  <2> QED
    BY <2>1, <2>2, <2>3, Zenon
<1>10. txn' = Overlay(cm', Overlay(wr', Latest(ds'[Len(ds')])))
  <2>1. Latest(e) \in [Addr -> Val]
    BY Zenon DEF Latest, Disks, ValuSet
  <2>2. Overlay(EmptyMap, Overlay(EmptyMap, Latest(e))) = Latest(e)
    BY <2>1, OverlayEmpty, Zenon
  <2>3. Latest(e) = Overlay(cm, Latest(latest))
    BY <1>2, <1>4, CommittedLatest, Zenon
  <2> QED
    BY <1>1, <1>3, <1>6, <2>2, <2>3, Zenon
<1>11. CASE ShouldFlushall
  <2>1. queue' = ToFlush(vm', ts') /\ pc' = "flush" /\ op' = "commit"
    BY <1>11, Zenon DEF Commit, AfterSubmit, StartFlush
  <2> QED
    BY <2>1, <1>1, <1>2, <1>3, <1>6, <1>7, <1>8, <1>9, <1>10, FlushBegins
<1>12. CASE ~ShouldFlushall
  <2>1. UNCHANGED <<queue, pc, op>>
    BY <1>12, Zenon DEF Commit, AfterSubmit
  <2> QED
    BY <2>1, <1>1, <1>2, <1>3, <1>6, <1>7, <1>8, <1>9, <1>10, SubmitOnly
<1> QED
  BY <1>11, <1>12, Zenon

\* LOG.commit of a transaction that submit refuses.
LEMMA CommitTooBigStep == ASSUME IInv, CommitTooBig PROVE IInv'
<1>1. /\ pc = "idle" /\ cm' = EmptyMap /\ txn' = Latest(latest)
      /\ UNCHANGED <<disk, dlog, oms, wr, vm, ts, ds>>
  BY Zenon DEF CommitTooBig, AfterSubmit
<1>2. /\ ds \in DiskSeq /\ ds # <<>> /\ ts \in MapSeq
      /\ vm \in Map /\ wr \in Map /\ latest = ds[Len(ds)]
  BY TypeFacts, Zenon DEF IInv, TypeOK, latest
<1>3. Chain(ds, ts, vm) /\ wr = EmptyMap /\ Latest(latest) \in [Addr -> Val]
  BY <1>1, IdleTxn, Zenon
<1>4. \A i \in DOMAIN ts : Accepts(ts[i])
  BY Zenon DEF IInv, RoomInv
<1>5. txn' = Overlay(cm', Overlay(wr', Latest(ds'[Len(ds')])))
  <2>1. Overlay(EmptyMap, Overlay(EmptyMap, Latest(latest))) = Latest(latest)
    BY <1>3, OverlayEmpty, Zenon
  <2> QED
    BY <1>1, <1>2, <1>3, <2>1, Zenon
<1>6. CASE ShouldFlushall
  <2>1. queue' = ToFlush(vm', ts') /\ pc' = "flush" /\ op' = "commit"
    BY <1>6, Zenon DEF CommitTooBig, AfterSubmit, StartFlush
  <2> QED
    BY <2>1, <1>1, <1>2, <1>3, <1>4, <1>5, EmptyMapType, FlushBegins
<1>7. CASE ~ShouldFlushall
  <2>1. UNCHANGED <<queue, pc, op>>
    BY <1>7, Zenon DEF CommitTooBig, AfterSubmit
  <2> QED
    BY <2>1, <1>1, <1>2, <1>3, <1>4, <1>5, EmptyMapType, SubmitOnly, Zenon
<1> QED
  BY <1>6, <1>7, Zenon

\* A direct write begins, with a flush if a pending transaction has a block of it.
LEMMA DwriteBegins ==
  ASSUME IInv, pc = "idle", NEW m \in Map, StartDwrite(m), cm' \in Map, txn' \in [Addr -> Val],
         txn' = Overlay(cm', Overlay(m, Latest(latest)))
  PROVE  IInv'
<1>1. wr' = m /\ UNCHANGED <<disk, dlog, oms, vm, ts, ds>>
  BY Zenon DEF StartDwrite
<1>2. /\ ds \in DiskSeq /\ ds # <<>> /\ ts \in MapSeq /\ vm \in Map /\ latest = ds[Len(ds)]
  BY TypeFacts, Zenon DEF IInv, TypeOK, latest
<1>3. Chain(ds, ts, vm) /\ queue = <<>> /\ Reps(disk, ds[1], dlog.now.map)
  BY IdleTxn, Zenon
<1>4. \A i \in DOMAIN ts : Accepts(ts[i])
  BY Zenon DEF IInv, RoomInv
<1>5. CASE Overlap(m, vm)
  <2>1. queue' = ToFlush(vm', ts') /\ pc' = "flush" /\ op' = "dwrite"
    BY <1>1, <1>5, Zenon DEF StartDwrite, StartFlush
  <2> QED
    BY <2>1, <1>1, <1>2, <1>3, <1>4, FlushBegins, Zenon
<1>6. CASE ~Overlap(m, vm)
  <2>1. pc' = "dwrite" /\ op' = "dwrite" /\ queue' = queue
    BY <1>6, Zenon DEF StartDwrite
  <2>2. TypeOK'
    BY <1>1, <2>1, Zenon DEF IInv, TypeOK, Map
  <2>3. LogInv' /\ PackInv'
    BY <1>1, <2>1, Zenon DEF IInv, LogInv, PackInv
  <2>4. RoomInv' /\ QueueInv'
    BY <1>1, <1>3, <2>1, Zenon DEF IInv, RoomInv, QueueInv
  <2>5. ChainInv' /\ FlushInv'
    BY <1>1, <1>3, <2>1, Zenon DEF ChainInv, FlushInv
  <2>6. DwriteInv' /\ TxnInv' /\ DownInv'
    BY <1>1, <1>2, <1>6, <2>1, Zenon DEF DwriteInv, TxnInv, DownInv, latest
  <2> QED
    BY <2>2, <2>3, <2>4, <2>5, <2>6, Zenon DEF IInv
<1> QED
  BY <1>5, <1>6, Zenon

\* LOG.dwrite
LEMMA DwriteStep ==
  ASSUME IInv, NEW a \in Addr, NEW v \in Val, Dwrite(a, v)
  PROVE  IInv'
<1>1. PICK n : n = [x \in {a} |-> v]
  BY Zenon
<1>2. cm \in Map /\ n \in Map
  BY <1>1, TypeFacts, OneBlock, Zenon DEF IInv
<1>3. PICK f \in [Addr -> Val] : f = Latest(latest) /\ txn = Overlay(cm, f)
  BY IdleTxn, Zenon DEF Dwrite
<1>4. pc = "idle" /\ cm' = Without(cm, {a}) /\ txn' = [txn EXCEPT ![a] = v] /\ StartDwrite(n)
  BY <1>1, Zenon DEF Dwrite
<1>5. cm' \in Map
  BY <1>2, <1>4, WithoutType, Zenon
<1>6. txn' = Overlay(cm', Overlay(n, f))
  <2>1. OneMap(n, a, v) /\ Updated(txn', Overlay(cm, f), a, v)
    BY <1>1, <1>3, <1>4, Zenon DEF OneMap, Updated
  <2> QED
    BY <1>2, <1>4, <2>1, OverlayDwrite, Zenon
<1>7. txn' \in [Addr -> Val]
  BY <1>4, Zenon DEF IInv, TypeOK
<1> QED
  BY <1>2, <1>3, <1>4, <1>5, <1>6, <1>7, DwriteBegins, Zenon

\* LOG.dwrite_vecs
LEMMA DwriteVecsStep ==
  ASSUME IInv, NEW m \in Map, DwriteVecs(m)
  PROVE  IInv'
<1>1. pc = "idle" /\ cm' = EmptyMap /\ txn' = Overlay(m, Latest(latest)) /\ StartDwrite(m)
  BY Zenon DEF DwriteVecs
<1>2. Latest(latest) \in [Addr -> Val]
  BY <1>1, IdleTxn, Zenon
<1>3. Overlay(m, Latest(latest)) \in [Addr -> Val]
  BY <1>2, MapElim, Zenon DEF Overlay
<1>4. txn' = Overlay(cm', Overlay(m, Latest(latest)))
  BY <1>1, <1>3, OverlayEmpty, Zenon
<1> QED
  BY <1>1, <1>3, <1>4, EmptyMapType, DwriteBegins, Zenon

\* LOG.dsync, dsync_vecs and sync_cache
LEMMA DsyncStep ==
  ASSUME IInv, NEW S \in SUBSET Addr, Dsync(S)
  PROVE  IInv'
<1>1. /\ pc = "idle" /\ disk' = SyncBlocks(disk, S)
      /\ ds' = [i \in DOMAIN ds |-> SyncBlocks(ds[i], S)]
      /\ UNCHANGED <<dlog, oms, pc, op, queue, wr, vm, ts, cm, txn>>
  BY Zenon DEF Dsync, EachDisk
<1>2. /\ disk \in Disks /\ ds \in DiskSeq /\ Len(ds) \in Nat /\ 1 <= Len(ds)
      /\ ts \in MapSeq /\ vm \in Map /\ dlog.now.map \in Map
      /\ latest \in Disks /\ ds[1] \in Disks /\ latest = ds[Len(ds)]
  BY TypeFacts, Zenon DEF IInv, latest
<1>3. Chain(ds, ts, vm) /\ queue = <<>> /\ Reps(disk, ds[1], dlog.now.map)
  BY <1>1, IdleTxn, Zenon
<1>4. PICK k \in Nat : k = Len(ds) /\ 1 <= k
  BY <1>2, Zenon
<1>5. DOMAIN ds = 1..k /\ \A i \in 1..k : ds[i] \in Disks
  BY <1>2, <1>4 DEF DiskSeq
<1>6. \A d \in Disks : SyncBlocks(d, S) \in Disks
  <2>1. PICK f : f \in [Addr -> Val]
    BY Zenon DEF IInv, TypeOK
  <2>2. EmptyMap \in Map
    BY EmptyMapType, Zenon
  <2> QED
    BY <2>1, <2>2, DiskTypes, Zenon
<1>7. \A i \in 1..k : ds'[i] = SyncBlocks(ds[i], S) /\ ds'[i] \in Disks
  BY <1>1, <1>5, <1>6, Zenon
<1>8. ds' \in DiskSeq /\ Len(ds') = k /\ ds' # <<>>
  <2>1. ds' \in [1..k -> Disks]
    BY <1>1, <1>5, <1>6, Zenon
  <2> QED
    BY <1>4, <2>1 DEF DiskSeq
<1>9. disk' \in Disks
  BY <1>1, <1>2, <1>6, Zenon
<1>10. latest' = SyncBlocks(latest, S)
  BY <1>2, <1>4, <1>7, <1>8 DEF latest
<1>11. Latest(latest') = Latest(latest)
  BY <1>2, <1>10, SyncLatest, Zenon
<1>12. TypeOK'
  BY <1>1, <1>8, <1>9, Zenon DEF IInv, TypeOK, DiskSeq
<1>13. LogInv' /\ PackInv' /\ RoomInv' /\ QueueInv'
  BY <1>1, Zenon DEF IInv, LogInv, PackInv, RoomInv, QueueInv
<1>14. ChainInv'
  BY <1>1, <1>2, <1>3, ChainSync, Zenon DEF ChainInv
<1>15. FlushInv'
  <2>1. ds'[1] = SyncBlocks(ds[1], S)
    BY <1>4, <1>7
  <2>2. Reps(disk', ds'[1], dlog'.now.map)
    BY <1>1, <1>2, <1>3, <2>1, RepsDsync, Zenon
  <2> QED
    BY <1>1, <1>3, <2>2, Zenon DEF FlushInv
<1>16. DwriteInv' /\ DownInv'
  BY <1>1, Zenon DEF IInv, DwriteInv, DownInv
<1>17. TxnInv'
  BY <1>1, <1>11, Zenon DEF IInv, TxnInv
<1> QED
  BY <1>12, <1>13, <1>14, <1>15, <1>16, <1>17, Zenon DEF IInv

-----------------------------------------------------------------------------
\* The steps of the memory log below a running call.

\* They change neither the disk set nor the transactions.
LEMMA WorkFrame ==
  ASSUME IInv, pc # "down", pc' # "down", UNCHANGED <<op, wr, vm, ts, cm, ds, txn>>
  PROVE  ChainInv' /\ TxnInv' /\ DownInv' /\ latest' = latest
BY Zenon DEF IInv, ChainInv, TxnInv, DownInv, latest

\* The choice of flush.
LEMMA MFlushStep ==
  ASSUME IInv, MFlush, UNCHANGED <<vm, ts, cm, ds, txn>>
  PROVE  IInv'
<1>1. /\ pc = "flush" /\ queue # <<>> /\ pc' \in {"flush", "apply", "append"}
      /\ UNCHANGED <<disk, dlog, oms, op, wr, vm, ts, cm, ds, txn>>
  BY Zenon DEF MFlush
<1>2. /\ disk \in Disks /\ ds \in DiskSeq /\ queue \in MapSeq /\ dlog.now.map \in Map
      /\ dlog.now \in LogType
      /\ \A i \in DOMAIN queue : Accepts(queue[i])
  BY TypeFacts, Zenon DEF IInv, RoomInv
<1>3. /\ Head(queue) \in Map /\ Tail(queue) \in MapSeq
      /\ \A i \in DOMAIN Tail(queue) : Accepts(Tail(queue)[i])
  BY <1>1, <1>2, QueueParts, Zenon
<1>4. Path(disk, ds, dlog.now.map, queue)
  BY <1>1, Zenon DEF IInv, FlushInv
<1>5. ChainInv' /\ TxnInv' /\ DownInv' /\ latest' = latest
  BY <1>1, WorkFrame, Zenon
<1>6. LogInv' /\ PackInv'
  BY <1>1, Zenon DEF IInv, LogInv, PackInv
<1>7. CASE DOMAIN Head(queue) = {}
  <2>1. queue' = Tail(queue) /\ pc' = "flush"
    BY <1>1, <1>7, Zenon DEF MFlush
  <2>2. TypeOK'
    BY <1>1, <1>3, <2>1, Zenon DEF IInv, TypeOK, MapSeq, Map
  <2>3. RoomInv' /\ QueueInv' /\ DwriteInv'
    BY <1>1, <1>3, <2>1, Zenon DEF IInv, RoomInv, QueueInv, DwriteInv
  <2>4. FlushInv'
    <3>1. Path(disk', ds', dlog'.now.map, queue')
      BY <1>1, <1>2, <1>4, <1>7, <2>1, PathSkip, Zenon
    <3> QED
      BY <3>1, <2>1, Zenon DEF FlushInv
  <2> QED
    BY <2>2, <2>3, <2>4, <1>5, <1>6, Zenon DEF IInv
<1>8. CASE DOMAIN Head(queue) # {}
  <2>1. /\ queue' = queue
        /\ pc' = IF Avail(dlog.now) < Cardinality(DOMAIN Head(queue)) THEN "apply" ELSE "append"
    BY <1>8, Zenon DEF MFlush
  <2>2. TypeOK'
    BY <1>1, <2>1, Zenon DEF IInv, TypeOK
  <2>3. RoomInv'
    <3>1. PICK c \in Nat : c = Cardinality(DOMAIN Head(queue))
      BY <1>3, MapCardinality, Zenon
    <3>2. PICK r \in Int : r = Avail(dlog.now)
      BY <1>2, MemLogAssumption DEF Avail, LogLen, LogType
    <3>3. pc' = "append" => c <= r
      BY <2>1, <3>1, <3>2
    <3> QED
      BY <1>1, <2>1, <3>1, <3>2, <3>3, Zenon DEF IInv, RoomInv
  <2>4. QueueInv' /\ DwriteInv'
    BY <1>1, <2>1, Zenon DEF IInv, QueueInv, DwriteInv
  <2>5. FlushInv'
    BY <1>1, <1>4, <2>1, Zenon DEF FlushInv
  <2> QED
    BY <2>2, <2>3, <2>4, <2>5, <1>5, <1>6, Zenon DEF IInv
<1> QED
  BY <1>7, <1>8, Zenon

\* What flush hands to extend fits.
LEMMA AppendHasRoom ==
  ASSUME IInv, pc = "append"
  PROVE  /\ queue # <<>> /\ Head(queue) \in Map
         /\ Fits(dlog.now, Head(queue))
<1>1. queue # <<>> /\ Cardinality(DOMAIN Head(queue)) <= Avail(dlog.now) /\ Packed(dlog.now)
  BY Zenon DEF IInv, QueueInv, RoomInv, PackInv
<1>2. queue \in MapSeq /\ dlog.now \in LogType /\ \A i \in DOMAIN queue : Accepts(queue[i])
  BY TypeFacts, Zenon DEF IInv, RoomInv
<1>3. Head(queue) \in Map
  BY <1>1, <1>2, QueueParts, Zenon
<1> QED
  BY <1>1, <1>2, <1>3, AvailFits, Zenon

\* The writes of extend.
LEMMA MExtendStep ==
  ASSUME IInv, MExtend, UNCHANGED <<vm, ts, cm, ds, txn>>
  PROVE  IInv'
<1>1. pc = "append"
  BY Zenon DEF MExtend
<1>2. queue # <<>> /\ Head(queue) \in Map /\ Fits(dlog.now, Head(queue))
  BY <1>1, AppendHasRoom, Zenon
<1>3. /\ dlog' = [dlog EXCEPT !.next = Append1(dlog.now, Head(queue))] /\ pc' = "extend"
      /\ UNCHANGED <<disk, oms, op, queue, wr, vm, ts, cm, ds, txn>>
  BY <1>2, Zenon DEF MExtend
<1>4. dlog \in [now : LogType, next : LogType] /\ dlog.now \in LogType /\ Packed(dlog.now)
  BY TypeFacts, Zenon DEF IInv, PackInv
<1>5. PICK l \in LogType : l = Append1(dlog.now, Head(queue)) /\ Packed(l)
  BY <1>2, <1>4, AppendFits, Zenon
<1>6. dlog' \in [now : LogType, next : LogType] /\ dlog'.now = dlog.now /\ dlog'.next = l
  BY <1>3, <1>4, <1>5, Zenon
<1>7. ChainInv' /\ TxnInv' /\ DownInv' /\ latest' = latest
  BY <1>1, <1>3, WorkFrame, Zenon
<1>8. TypeOK'
  BY <1>3, <1>6, Zenon DEF IInv, TypeOK
<1>9. LogInv' /\ PackInv'
  BY <1>1, <1>3, <1>4, <1>5, <1>6 DEF IInv, LogInv, PackInv
<1>10. RoomInv' /\ QueueInv' /\ DwriteInv'
  BY <1>1, <1>2, <1>3, Zenon DEF IInv, RoomInv, QueueInv, DwriteInv
<1>11. FlushInv'
  BY <1>2, <1>3, <1>6, Zenon DEF IInv, FlushInv
<1> QED
  BY <1>7, <1>8, <1>9, <1>10, <1>11, Zenon DEF IInv

\* The flush of extend: the log represents the next disk.
LEMMA MExtendSyncStep ==
  ASSUME IInv, MExtendSync, UNCHANGED <<vm, ts, cm, ds, txn>>
  PROVE  IInv'
<1>1. /\ pc = "extend" /\ pc' = "flush"
      /\ dlog' = [now |-> dlog.next, next |-> dlog.next]
      /\ oms' = AddAll(oms, Head(queue)) /\ queue' = Tail(queue)
      /\ UNCHANGED <<disk, op, wr, vm, ts, cm, ds, txn>>
  BY Zenon DEF MExtendSync
<1>2. /\ queue # <<>> /\ dlog.next = Append1(dlog.now, Head(queue)) /\ oms = dlog.now.map
      /\ Packed(dlog.next)
  BY <1>1, Zenon DEF IInv, QueueInv, LogInv, PackInv
<1>3. /\ disk \in Disks /\ ds \in DiskSeq /\ queue \in MapSeq /\ dlog.now.map \in Map
      /\ dlog.next \in LogType /\ oms \in Map
      /\ \A i \in DOMAIN queue : Accepts(queue[i])
  BY TypeFacts, Zenon DEF IInv, RoomInv
<1>4. /\ Head(queue) \in Map /\ Tail(queue) \in MapSeq
      /\ \A i \in DOMAIN Tail(queue) : Accepts(Tail(queue)[i])
  BY <1>2, <1>3, QueueParts, Zenon
<1>5. Path(disk, ds, dlog.now.map, queue)
  BY <1>2, Zenon DEF IInv, FlushInv
<1>6. ChainInv' /\ TxnInv' /\ DownInv' /\ latest' = latest
  BY <1>1, WorkFrame, Zenon
<1>7. /\ dlog' \in [now : LogType, next : LogType] /\ dlog'.now = dlog.next /\ dlog'.next = dlog.next
      /\ dlog'.now.map = AddAll(dlog.now.map, Head(queue))
  BY <1>1, <1>2, <1>3 DEF Append1
<1>8. oms' \in Map
  BY <1>1, <1>3, <1>4, AddAllType, Zenon
<1>9. TypeOK'
  BY <1>1, <1>4, <1>7, <1>8, Zenon DEF IInv, TypeOK, MapSeq, Map
<1>10. LogInv' /\ PackInv'
  BY <1>1, <1>2, <1>7, Zenon DEF LogInv, PackInv
<1>11. RoomInv' /\ QueueInv' /\ DwriteInv'
  BY <1>1, <1>4, Zenon DEF IInv, RoomInv, QueueInv, DwriteInv
<1>12. FlushInv'
  <2>1. Path(disk', ds', dlog'.now.map, queue')
    BY <1>1, <1>2, <1>3, <1>5, <1>7, PathNext, Zenon
  <2> QED
    BY <1>1, <2>1, Zenon DEF FlushInv
<1> QED
  BY <1>6, <1>9, <1>10, <1>11, <1>12, Zenon DEF IInv

\* A step of apply changes the home blocks and the log, and not the disk that
\* they represent.
LEMMA FlushKept ==
  ASSUME IInv, pc \notin {"flush", "down"}, pc' \notin {"flush", "down"}, UNCHANGED <<queue, ds>>,
         \A d \in Disks : Reps(disk, d, dlog.now.map) => Reps(disk', d, dlog'.now.map)
  PROVE  FlushInv'
<1>1. ds \in DiskSeq /\ queue \in MapSeq /\ ds[1] \in Disks
  BY TypeFacts, Zenon DEF IInv
<1>2. CASE queue # <<>>
  <2>1. Path(disk, ds, dlog.now.map, queue)
    BY <1>2, Zenon DEF IInv, FlushInv
  <2>2. Path(disk', ds', dlog'.now.map, queue')
    BY <1>1, <2>1, PathSame, Zenon
  <2> QED
    BY <1>2, <2>2, Zenon DEF FlushInv
<1>3. CASE queue = <<>>
  <2>1. Reps(disk', ds'[1], dlog'.now.map)
    BY <1>1, <1>3, Zenon DEF IInv, FlushInv
  <2> QED
    BY <1>3, <2>1, Zenon DEF FlushInv
<1> QED
  BY <1>2, <1>3, Zenon

\* The log represents some disk of the disk set all the time.
LEMMA SomeDisk ==
  ASSUME IInv, pc # "down"
  PROVE  \E i \in 1..Len(ds) : Reps(disk, ds[i], dlog.now.map)
<1>1. ds \in DiskSeq /\ queue \in MapSeq /\ 1 \in 1..Len(ds)
  BY TypeFacts DEF IInv
<1>2. CASE pc = "flush" \/ queue # <<>>
  BY <1>1, <1>2, PathReps, Zenon DEF IInv, FlushInv
<1>3. CASE ~(pc = "flush" \/ queue # <<>>)
  BY <1>1, <1>3, Zenon DEF IInv, FlushInv
<1> QED
  BY <1>2, <1>3, Zenon

\* The home writes of apply.
LEMMA MApplyWriteStep ==
  ASSUME IInv, MApplyWrite, UNCHANGED <<vm, ts, cm, ds, txn>>
  PROVE  IInv'
<1>1. /\ pc = "apply" /\ pc' = "applied" /\ disk' = WriteBlocks(disk, oms)
      /\ UNCHANGED <<dlog, oms, op, queue, wr, vm, ts, cm, ds, txn>>
  BY Zenon DEF MApplyWrite
<1>2. disk \in Disks /\ oms \in Map /\ oms = dlog.now.map /\ dlog.next = dlog.now /\ ds \in DiskSeq
  BY <1>1, TypeFacts, Zenon DEF IInv, LogInv
<1>3. disk' \in Disks
  <2>1. PICK f : f \in [Addr -> Val]
    BY Zenon DEF IInv, TypeOK
  <2> QED
    BY <1>1, <1>2, <2>1, DiskTypes, Zenon
<1>4. \A d \in Disks : Reps(disk, d, oms) =>
        Reps(disk', d, oms) /\ \A a \in DOMAIN oms : disk'[a].cur = oms[a]
  BY <1>1, <1>2, RepsApply
<1>5. \A a \in DOMAIN oms : disk'[a].cur = oms[a]
  <2>1. PICK i \in 1..Len(ds) : Reps(disk, ds[i], oms)
    BY <1>1, <1>2, SomeDisk, Zenon
  <2>2. ds[i] \in Disks
    BY <1>2 DEF DiskSeq
  <2> QED
    BY <1>4, <2>1, <2>2, Zenon
<1>6. ChainInv' /\ TxnInv' /\ DownInv' /\ latest' = latest
  BY <1>1, WorkFrame, Zenon
<1>7. TypeOK'
  BY <1>1, <1>3, Zenon DEF IInv, TypeOK
<1>8. LogInv' /\ PackInv'
  BY <1>1, <1>2, <1>5, Zenon DEF IInv, LogInv, PackInv
<1>9. RoomInv' /\ QueueInv' /\ DwriteInv'
  BY <1>1, Zenon DEF IInv, RoomInv, QueueInv, DwriteInv
<1>10. FlushInv'
  BY <1>1, <1>2, <1>4, FlushKept, Zenon
<1> QED
  BY <1>6, <1>7, <1>8, <1>9, <1>10, Zenon DEF IInv

\* The sync of apply: log and home blocks agree before the log is truncated.
LEMMA MApplySyncStep ==
  ASSUME IInv, MApplySync, UNCHANGED <<vm, ts, cm, ds, txn>>
  PROVE  IInv'
<1>1. /\ pc = "applied" /\ pc' = "trunc" /\ disk' = SyncBlocks(disk, DOMAIN oms)
      /\ dlog' = [dlog EXCEPT !.next = EmptyLog]
      /\ UNCHANGED <<oms, op, queue, wr, vm, ts, cm, ds, txn>>
  BY Zenon DEF MApplySync
<1>2. /\ disk \in Disks /\ oms \in Map /\ oms = dlog.now.map /\ ds \in DiskSeq
      /\ \A a \in DOMAIN oms : disk[a].cur = oms[a]
      /\ dlog \in [now : LogType, next : LogType]
  BY <1>1, TypeFacts, Zenon DEF IInv, LogInv
<1>3. disk' \in Disks
  <2>1. PICK f : f \in [Addr -> Val]
    BY Zenon DEF IInv, TypeOK
  <2> QED
    BY <1>1, <1>2, <2>1, DiskTypes, Zenon
<1>4. \A d \in Disks : Reps(disk, d, oms) =>
        Reps(disk', d, oms) /\ \A a \in DOMAIN oms : disk'[a] = Settled(oms[a])
  BY <1>1, <1>2, RepsApplySync
<1>5. \A a \in DOMAIN oms : disk'[a] = Settled(oms[a])
  <2>1. PICK i \in 1..Len(ds) : Reps(disk, ds[i], oms)
    BY <1>1, <1>2, SomeDisk, Zenon
  <2>2. ds[i] \in Disks
    BY <1>2 DEF DiskSeq
  <2> QED
    BY <1>4, <2>1, <2>2, Zenon
<1>6. ChainInv' /\ TxnInv' /\ DownInv' /\ latest' = latest
  BY <1>1, WorkFrame, Zenon
<1>7. /\ dlog' \in [now : LogType, next : LogType] /\ dlog'.now = dlog.now
      /\ dlog'.next = EmptyLog /\ Packed(EmptyLog)
  BY <1>1, <1>2, EmptyLogFacts, Zenon
<1>8. TypeOK'
  BY <1>1, <1>3, <1>7, Zenon DEF IInv, TypeOK
<1>9. LogInv' /\ PackInv'
  BY <1>1, <1>2, <1>5, <1>7, Zenon DEF IInv, LogInv, PackInv
<1>10. RoomInv' /\ QueueInv' /\ DwriteInv'
  BY <1>1, Zenon DEF IInv, RoomInv, QueueInv, DwriteInv
<1>11. FlushInv'
  BY <1>1, <1>2, <1>4, <1>7, FlushKept, Zenon
<1> QED
  BY <1>6, <1>8, <1>9, <1>10, <1>11, Zenon DEF IInv

\* The flush of trunc: the log is empty and has room for any list.
LEMMA MApplyTruncStep ==
  ASSUME IInv, MApplyTrunc, UNCHANGED <<vm, ts, cm, ds, txn>>
  PROVE  IInv'
<1>1. /\ pc = "trunc" /\ dlog' = [now |-> dlog.next, next |-> dlog.next] /\ oms' = EmptyMap
      /\ pc' = IF queue # <<>> THEN "append" ELSE IF op = "dwrite" THEN "dwrite" ELSE "return"
      /\ UNCHANGED <<disk, op, queue, wr, vm, ts, cm, ds, txn>>
  BY Zenon DEF MApplyTrunc
<1>2. /\ disk \in Disks /\ oms \in Map /\ oms = dlog.now.map /\ dlog.next = EmptyLog
      /\ \A a \in DOMAIN oms : disk[a] = Settled(oms[a])
      /\ queue \in MapSeq /\ \A i \in DOMAIN queue : Accepts(queue[i])
  BY <1>1, TypeFacts, Zenon DEF IInv, LogInv, RoomInv
<1>3. /\ dlog' \in [now : LogType, next : LogType] /\ dlog'.now = EmptyLog /\ dlog'.next = EmptyLog
      /\ Packed(EmptyLog) /\ EmptyLog.map = EmptyMap /\ EmptyMap \in Map /\ DOMAIN EmptyMap = {}
  BY <1>1, <1>2, EmptyLogFacts, EmptyMapType, Zenon
<1>4. \A d \in Disks : Reps(disk, d, oms) => Reps(disk, d, EmptyMap)
  BY <1>2, RepsTrunc, Zenon
<1>5. ChainInv' /\ TxnInv' /\ DownInv' /\ latest' = latest
  BY <1>1, WorkFrame, Zenon
<1>6. TypeOK'
  BY <1>1, <1>3, Zenon DEF IInv, TypeOK, Map
<1>7. LogInv' /\ PackInv'
  BY <1>1, <1>3, Zenon DEF LogInv, PackInv
<1>8. RoomInv'
  <2>1. pc' = "append" => Cardinality(DOMAIN Head(queue)) <= Avail(EmptyLog)
    BY <1>1, <1>2, QueueParts, EmptyLogFacts, Zenon DEF Accepts
  <2> QED
    BY <1>1, <1>3, <2>1, Zenon DEF IInv, RoomInv
<1>9. QueueInv'
  BY <1>1, Zenon DEF QueueInv
<1>10. DwriteInv'
  BY <1>1, <1>3, Zenon DEF IInv, DwriteInv
<1>11. FlushInv'
  BY <1>1, <1>2, <1>3, <1>4, FlushKept, Zenon
<1> QED
  BY <1>5, <1>6, <1>7, <1>8, <1>9, <1>10, <1>11 DEF IInv

\* A direct write waits for an apply.
LEMMA MDwriteApplyStep ==
  ASSUME IInv, MDwriteApply, UNCHANGED <<vm, ts, cm, ds, txn>>
  PROVE  IInv'
<1>1. /\ pc = "dwrite" /\ pc' = "apply"
      /\ UNCHANGED <<disk, dlog, oms, op, queue, wr, vm, ts, cm, ds, txn>>
  BY Zenon DEF MDwriteApply
<1>2. ChainInv' /\ TxnInv' /\ DownInv' /\ latest' = latest
  BY <1>1, WorkFrame, Zenon
<1>3. TypeOK'
  BY <1>1, Zenon DEF IInv, TypeOK
<1>4. LogInv' /\ PackInv' /\ RoomInv' /\ QueueInv' /\ DwriteInv'
  BY <1>1, Zenon DEF IInv, LogInv, PackInv, RoomInv, QueueInv, DwriteInv
<1>5. FlushInv'
  BY <1>1, Zenon DEF IInv, FlushInv
<1> QED
  BY <1>2, <1>3, <1>4, <1>5, Zenon DEF IInv

\* flushall is done: the log represents the latest disk, the only one left.
LEMMA FlushallDoneStep == ASSUME IInv, FlushallDone PROVE IInv'
<1>1. /\ pc = "flush" /\ queue = <<>> /\ vm' = EmptyMap /\ ts' = <<>> /\ ds' = <<latest>>
      /\ pc' = CASE op = "flushsync" -> "apply"
                 [] op = "dwrite"    -> "dwrite"
                 [] OTHER            -> "return"
      /\ UNCHANGED <<disk, dlog, oms, op, queue, wr, cm, txn>>
  BY Zenon DEF FlushallDone, FlushDone
<1>2. ds \in DiskSeq /\ latest \in Disks /\ latest = ds[Len(ds)]
  BY TypeFacts, Zenon DEF IInv, latest
<1>3. Reps(disk, latest, dlog.now.map)
  BY <1>1, <1>2, PathEnd, Zenon DEF IInv, FlushInv
<1>4. latest' = latest /\ ds'[1] = latest /\ ds' \in DiskSeq /\ ds' # <<>>
  BY <1>1, <1>2 DEF latest, DiskSeq
<1>5. EmptyMap \in Map /\ DOMAIN EmptyMap = {}
  BY EmptyMapType, Zenon
<1>6. pc' \in {"apply", "dwrite", "return"} /\ (pc' = "dwrite" => op = "dwrite")
      /\ (pc' = "return" => op # "dwrite")
  BY <1>1, Zenon
<1>7. TypeOK'
  <2>1. ts' \in Seq(Maps(Addr, Val))
    BY <1>1
  <2> QED
    BY <1>1, <1>4, <1>5, <1>6, <2>1, Zenon DEF IInv, TypeOK, DiskSeq, Map
<1>8. LogInv' /\ PackInv'
  BY <1>1, <1>6, Zenon DEF IInv, LogInv, PackInv
<1>9. RoomInv' /\ QueueInv'
  BY <1>1, <1>6, Zenon DEF IInv, RoomInv, QueueInv
<1>10. ChainInv'
  BY <1>1, <1>2, ChainOne, Zenon DEF ChainInv
<1>11. FlushInv'
  BY <1>1, <1>3, <1>4, <1>6, Zenon DEF FlushInv
<1>12. DwriteInv'
  BY <1>1, <1>5, <1>6, Zenon DEF IInv, DwriteInv, Overlap
<1>13. TxnInv' /\ DownInv'
  BY <1>1, <1>4, <1>6, Zenon DEF IInv, TxnInv, DownInv
<1> QED
  BY <1>7, <1>8, <1>9, <1>10, <1>11, <1>12, <1>13, Zenon DEF IInv

\* The direct write: no block of it is in the log or in a pending transaction.
LEMMA DwriteNowStep == ASSUME IInv, DwriteNow PROVE IInv'
<1>1. /\ pc = "dwrite" /\ pc' = "return" /\ ~Overlap(wr, oms)
      /\ disk' = WriteBlocks(disk, wr)
      /\ ds' = [i \in DOMAIN ds |-> WriteBlocks(ds[i], wr)]
      /\ UNCHANGED <<dlog, oms, op, queue, wr, vm, ts, cm, txn>>
  BY Zenon DEF DwriteNow, MDwrite, EachDisk
<1>2. /\ disk \in Disks /\ ds \in DiskSeq /\ Len(ds) \in Nat /\ 1 <= Len(ds)
      /\ ts \in MapSeq /\ vm \in Map /\ wr \in Map /\ oms \in Map
      /\ latest \in Disks /\ ds[1] \in Disks /\ latest = ds[Len(ds)]
  BY TypeFacts, Zenon DEF IInv, latest
<1>3. /\ queue = <<>> /\ oms = dlog.now.map /\ Chain(ds, ts, vm)
      /\ DOMAIN wr \cap DOMAIN vm = {} /\ DOMAIN wr \cap DOMAIN oms = {}
  BY <1>1, Zenon DEF IInv, QueueInv, LogInv, ChainInv, DwriteInv, Overlap
<1>4. PICK k \in Nat : k = Len(ds) /\ 1 <= k
  BY <1>2, Zenon
<1>5. DOMAIN ds = 1..k /\ \A i \in 1..k : ds[i] \in Disks
  BY <1>2, <1>4 DEF DiskSeq
<1>6. \A d \in Disks : WriteBlocks(d, wr) \in Disks /\ Latest(d) \in [Addr -> Val]
  <2>1. PICK f : f \in [Addr -> Val]
    BY Zenon DEF IInv, TypeOK
  <2> QED
    BY <1>2, <2>1, DiskTypes, Zenon
<1>7. \A i \in 1..k : ds'[i] = WriteBlocks(ds[i], wr)
  BY <1>1, <1>5, Zenon
<1>8. ds' \in DiskSeq /\ Len(ds') = k /\ ds' # <<>>
  <2>1. ds' \in [1..k -> Disks]
    BY <1>1, <1>5, <1>6, Zenon
  <2> QED
    BY <1>4, <2>1 DEF DiskSeq
<1>9. latest' = WriteBlocks(latest, wr) /\ latest' \in Disks /\ disk' \in Disks
  BY <1>1, <1>2, <1>4, <1>6, <1>7, <1>8 DEF latest
<1>10. PICK f \in [Addr -> Val] : f = Latest(latest)
  BY <1>2, <1>6, Zenon
<1>11. PICK g \in [Addr -> Val] : g = Latest(latest') /\ g = Overlay(wr, f)
  BY <1>2, <1>6, <1>9, <1>10, WriteLatest, Zenon
<1>12. \A a \in DOMAIN wr : g[a] = wr[a]
  BY <1>2, <1>11, MapElim, Zenon DEF Overlay
<1>13. TypeOK'
  BY <1>1, <1>8, <1>9, Zenon DEF IInv, TypeOK, DiskSeq
<1>14. LogInv' /\ PackInv' /\ RoomInv' /\ QueueInv'
  BY <1>1, <1>3, Zenon DEF IInv, LogInv, PackInv, RoomInv, QueueInv
<1>15. ChainInv'
  BY <1>1, <1>2, <1>3, ChainWrite, Zenon DEF ChainInv
<1>16. FlushInv'
  <2>1. ds'[1] = WriteBlocks(ds[1], wr)
    BY <1>4, <1>7
  <2>2. Reps(disk, ds[1], oms)
    BY <1>1, <1>3, Zenon DEF IInv, FlushInv
  <2>3. Reps(disk', ds'[1], oms)
    BY <1>1, <1>2, <1>3, <2>1, <2>2, RepsDwrite
  <2> QED
    BY <1>1, <1>3, <2>3, Zenon DEF FlushInv
<1>17. DwriteInv'
  <2>1. \A a \in DOMAIN wr : latest'[a].cur = wr[a]
    <3>1. \A a \in Addr : g[a] = latest'[a].cur
      BY <1>9, <1>11, Zenon DEF Latest, Disks
    <3> QED
      BY <1>2, <1>12, <3>1, MapElim, Zenon
  <2> QED
    BY <1>1, <2>1, Zenon DEF IInv, DwriteInv
<1>18. TxnInv'
  <2>1. Overlay(wr, g) = g
    BY <1>2, <1>12, OverlaySame, Zenon
  <2> QED
    BY <1>1, <1>10, <1>11, <2>1, Zenon DEF IInv, TxnInv
<1>19. DownInv'
  BY <1>1, Zenon DEF DownInv
<1> QED
  BY <1>13, <1>14, <1>15, <1>16, <1>17, <1>18, <1>19 DEF IInv

\* The call returns, and a direct write is in the disk set.
LEMMA ReturnStep == ASSUME IInv, Return PROVE IInv'
<1>1. /\ pc = "return" /\ pc' = "idle" /\ op' = "none" /\ wr' = EmptyMap
      /\ UNCHANGED <<disk, dlog, oms, queue, vm, ts, cm, ds, txn>>
  BY Zenon DEF Return
<1>2. latest' = latest /\ EmptyMap \in Map /\ DOMAIN EmptyMap = {} /\ latest \in Disks /\ wr \in Map
  BY <1>1, EmptyMapType, TypeFacts, Zenon DEF latest, IInv
<1>3. TypeOK'
  BY <1>1, <1>2, Zenon DEF IInv, TypeOK, Map
<1>4. LogInv' /\ PackInv' /\ RoomInv' /\ QueueInv'
  BY <1>1, Zenon DEF IInv, LogInv, PackInv, RoomInv, QueueInv
<1>5. ChainInv' /\ FlushInv' /\ DownInv'
  BY <1>1, Zenon DEF IInv, ChainInv, FlushInv, DownInv
<1>6. DwriteInv'
  BY <1>1, Zenon DEF DwriteInv
<1>7. TxnInv'
  <2>1. Latest(latest) \in [Addr -> Val] /\ \A a \in DOMAIN wr : Latest(latest)[a] = wr[a]
    <3>1. \A a \in DOMAIN wr : latest[a].cur = wr[a]
      BY <1>1, Zenon DEF IInv, DwriteInv
    <3> QED
      BY <1>2, <3>1, MapElim, Zenon DEF Latest, Disks, ValuSet
  <2>2. Overlay(wr, Latest(latest)) = Latest(latest) /\ Overlay(EmptyMap, Latest(latest)) = Latest(latest)
    BY <1>2, <2>1, OverlaySame, OverlayEmpty, Zenon
  <2> QED
    BY <1>1, <1>2, <2>2, Zenon DEF IInv, TxnInv
<1> QED
  BY <1>3, <1>4, <1>5, <1>6, <1>7, Zenon DEF IInv

-----------------------------------------------------------------------------
\* Crash and recovery.

\* Whichever log a crash leaves, it represents a disk of the disk set.
LEMMA EitherLog ==
  ASSUME IInv, pc # "down", NEW l \in {dlog.now, dlog.next}
  PROVE  \E i \in 1..Len(ds) : Reps(disk, ds[i], l.map)
<1>1. /\ disk \in Disks /\ ds \in DiskSeq /\ queue \in MapSeq /\ dlog.now.map \in Map
  BY TypeFacts, Zenon DEF IInv
<1>2. CASE l = dlog.now
  BY <1>2, SomeDisk, Zenon
<1>3. CASE l = dlog.next /\ pc \notin {"extend", "trunc"}
  BY <1>3, SomeDisk, Zenon DEF IInv, LogInv
<1>4. CASE l = dlog.next /\ pc = "extend"
  <2>1. queue # <<>> /\ l = Append1(dlog.now, Head(queue)) /\ Path(disk, ds, dlog.now.map, queue)
    BY <1>4, Zenon DEF IInv, QueueInv, LogInv, FlushInv
  <2>2. l.map = AddAll(dlog.now.map, Head(queue))
    BY <2>1, Zenon DEF Append1
  <2>3. Tail(queue) \in MapSeq
    BY <1>1, <2>1 DEF MapSeq
  <2>4. Path(disk, ds, l.map, Tail(queue))
    BY <1>1, <2>1, <2>2, PathNext, Zenon
  <2> QED
    BY <1>1, <2>3, <2>4, PathReps, Zenon
<1>5. CASE l = dlog.next /\ pc = "trunc"
  <2>1. l.map = EmptyMap /\ \A a \in DOMAIN dlog.now.map : disk[a] = Settled(dlog.now.map[a])
    BY <1>5, EmptyLogFacts, Zenon DEF IInv, LogInv
  <2>2. PICK i \in 1..Len(ds) : Reps(disk, ds[i], dlog.now.map)
    BY SomeDisk, Zenon
  <2>3. ds[i] \in Disks
    BY <1>1 DEF DiskSeq
  <2> QED
    BY <1>1, <2>1, <2>2, <2>3, RepsTrunc, Zenon
<1> QED
  BY <1>2, <1>3, <1>4, <1>5, Zenon

\* A crash, at any step of any call.
LEMMA CrashStep == ASSUME IInv, Crash PROVE IInv'
<1>1. PICK f \in CrashOutcomes(disk), l \in {dlog.now, dlog.next} :
        disk' = Flushed(f) /\ dlog' = [now |-> l, next |-> l]
  BY Zenon DEF Crash, GCrash, MCrash
<1>2. /\ pc # "down" /\ pc' = "down" /\ oms' = EmptyMap /\ op' = "none" /\ queue' = <<>>
      /\ wr' = EmptyMap /\ vm' = EmptyMap /\ ts' = <<>> /\ cm' = EmptyMap
      /\ UNCHANGED <<ds, txn>>
  BY Zenon DEF Crash, GCrash, MCrash
<1>3. /\ disk \in Disks /\ ds \in DiskSeq /\ l \in LogType /\ l.map \in Map /\ Packed(l)
      /\ EmptyMap \in Map /\ DOMAIN EmptyMap = {}
  BY <1>1, TypeFacts, EmptyMapType, Zenon DEF IInv, PackInv
<1>4. f \in [Addr -> Val]
  BY <1>3, OutcomeType, Zenon
<1>5. Latest(disk') = f /\ disk' \in Disks
  BY <1>1, <1>3, <1>4, FlushedLatest, DiskTypes, Zenon
<1>6. dlog' \in [now : LogType, next : LogType] /\ dlog'.now = l /\ dlog'.next = l
  BY <1>1, <1>3, Zenon
<1>7. Explains(ds, Overlay(l.map, f))
  <2>1. PICK i \in 1..Len(ds) : Reps(disk, ds[i], l.map)
    BY <1>2, EitherLog, Zenon
  <2>2. ds[i] \in Disks /\ i \in DOMAIN ds
    BY <1>3 DEF DiskSeq
  <2>3. \A a \in Addr : Overlay(l.map, f)[a] \in Merge(ds[i][a])
    BY <1>3, <2>1, <2>2, RepsCrash, Zenon
  <2> QED
    BY <2>2, <2>3, Zenon DEF Explains
<1>8. TypeOK'
  <2>1. queue' \in Seq(Maps(Addr, Val)) /\ ts' \in Seq(Maps(Addr, Val))
    BY <1>2
  <2> QED
    BY <1>2, <1>3, <1>5, <1>6, <2>1 DEF IInv, TypeOK, Map
<1>9. LogInv' /\ PackInv'
  BY <1>2, <1>3, <1>6, Zenon DEF LogInv, PackInv
<1>10. RoomInv' /\ QueueInv'
  BY <1>2 DEF RoomInv, QueueInv
<1>11. ChainInv' /\ FlushInv' /\ TxnInv'
  BY <1>2, Zenon DEF ChainInv, FlushInv, TxnInv
<1>12. DwriteInv'
  BY <1>2, Zenon DEF DwriteInv
<1>13. DownInv'
  BY <1>1, <1>2, <1>5, <1>6, <1>7, Zenon DEF DownInv, CrashSafe
<1> QED
  BY <1>8, <1>9, <1>10, <1>11, <1>12, <1>13 DEF IInv

\* Recovery begins a disk set with the disk that it finds.
LEMMA RecoverStep == ASSUME IInv, Recover PROVE IInv'
<1>1. /\ pc = "down" /\ pc' = "idle" /\ oms' = dlog.now.map
      /\ txn' = Overlay(dlog.now.map, Latest(disk)) /\ ds' = <<Flushed(txn')>>
      /\ UNCHANGED <<disk, dlog, op, queue, wr, vm, ts, cm>>
  BY Zenon DEF Recover, GRecover, MRecover
<1>2. disk \in Disks /\ dlog.now.map \in Map
  BY TypeFacts, Zenon DEF IInv
<1>3. /\ vm = EmptyMap /\ ts = <<>> /\ cm = EmptyMap /\ wr = EmptyMap /\ op = "none"
      /\ queue = <<>> /\ disk = Flushed(Latest(disk)) /\ dlog.next = dlog.now
  BY <1>1, Zenon DEF IInv, DownInv, QueueInv, LogInv
<1>4. Latest(disk) \in [Addr -> Val]
  BY <1>2, Zenon DEF Latest, Disks, ValuSet
<1>5. txn' \in [Addr -> Val]
  BY <1>1, <1>2, <1>4, MapElim, Zenon DEF Overlay
<1>6. PICK d \in Disks : d = Flushed(txn')
  BY <1>5, SettledType, Zenon DEF Flushed, Disks
<1>7. ds' = <<d>> /\ ds' \in DiskSeq /\ ds' # <<>> /\ ds'[1] = d /\ latest' = d
  BY <1>1, <1>6 DEF DiskSeq, latest
<1>8. TypeOK'
  BY <1>1, <1>2, <1>5, <1>7 DEF IInv, TypeOK, DiskSeq, Map
<1>9. LogInv' /\ PackInv' /\ RoomInv' /\ QueueInv'
  BY <1>1, <1>3, Zenon DEF IInv, LogInv, PackInv, RoomInv, QueueInv
<1>10. ChainInv'
  BY <1>1, <1>3, <1>7, ChainOne, Zenon DEF ChainInv
<1>11. FlushInv'
  <2>1. Reps(disk, d, dlog.now.map)
    BY <1>1, <1>2, <1>3, <1>6, RepsRecover, Zenon
  <2> QED
    BY <1>1, <1>3, <1>7, <2>1, Zenon DEF FlushInv
<1>12. DwriteInv' /\ DownInv'
  BY <1>1, <1>3, Zenon DEF DwriteInv, DownInv
<1>13. TxnInv'
  <2>1. Latest(d) = txn'
    BY <1>5, <1>6, FlushedLatest, Zenon
  <2>2. Overlay(EmptyMap, Overlay(EmptyMap, txn')) = txn'
    BY <1>5, OverlayEmpty, Zenon
  <2> QED
    BY <1>1, <1>3, <1>7, <2>1, <2>2, Zenon DEF TxnInv
<1> QED
  BY <1>8, <1>9, <1>10, <1>11, <1>12, <1>13, Zenon DEF IInv

-----------------------------------------------------------------------------
\* mkfs leaves settled blocks and an empty log.
LEMMA InitInv == Init => IInv
<1> SUFFICES ASSUME Init PROVE IInv
  BY Zenon
<1>1. PICK f \in [Addr -> Val] : f = [a \in Addr |-> DefaultVal]
  BY MemLogAssumption, Zenon
<1>2. /\ disk = Flushed(f) /\ dlog = [now |-> EmptyLog, next |-> EmptyLog] /\ oms = EmptyMap
      /\ pc = "idle" /\ op = "none" /\ queue = <<>> /\ wr = EmptyMap /\ vm = EmptyMap
      /\ ts = <<>> /\ cm = EmptyMap /\ ds = <<disk>> /\ txn = Latest(disk)
  BY <1>1, Zenon DEF Init, GInit, MInit
<1>3. disk \in Disks /\ txn = f
  BY <1>1, <1>2, FlushedLatest, DiskTypes, EmptyMapType, SettledType, Zenon DEF Flushed, Disks
<1>4. /\ EmptyLog \in LogType /\ Packed(EmptyLog) /\ EmptyLog.map = EmptyMap
      /\ EmptyMap \in Map /\ DOMAIN EmptyMap = {}
  BY EmptyLogFacts, EmptyMapType, Zenon
<1>5. /\ dlog \in [now : LogType, next : LogType]
      /\ dlog.now = EmptyLog /\ dlog.next = EmptyLog
  BY <1>2, <1>4, Zenon
<1>6. ds[1] = disk /\ latest = disk /\ ds \in Seq(Disks) /\ ds # <<>>
  BY <1>2, <1>3 DEF latest
<1>7. TypeOK
  <2>1. queue \in Seq(Maps(Addr, Val)) /\ ts \in Seq(Maps(Addr, Val))
    BY <1>2
  <2> QED
    BY <1>2, <1>3, <1>4, <1>5, <1>6, <2>1 DEF TypeOK, Map
<1>8. LogInv /\ PackInv
  BY <1>2, <1>4, <1>5, Zenon DEF LogInv, PackInv
<1>9. RoomInv /\ QueueInv /\ DwriteInv /\ DownInv
  BY <1>2 DEF RoomInv, QueueInv, DwriteInv, DownInv
<1>10. ChainInv
  BY <1>2, <1>3, ChainOne, Zenon DEF ChainInv
<1>11. FlushInv
  BY <1>2, <1>4, <1>5, <1>6, Zenon DEF FlushInv, Reps
<1>12. TxnInv
  <2>1. Overlay(EmptyMap, Overlay(EmptyMap, f)) = f
    BY OverlayEmpty, Zenon
  <2> QED
    BY <1>2, <1>3, <1>6, <2>1, Zenon DEF TxnInv
<1> QED
  BY <1>7, <1>8, <1>9, <1>10, <1>11, <1>12, Zenon DEF IInv

\* Every step of the stack keeps the invariant.
LEMMA NextInv == IInv /\ [Next]_vars => IInv'
<1> SUFFICES ASSUME IInv, [Next]_vars PROVE IInv'
  BY Zenon
<1>1. ASSUME NEW a \in Addr, NEW v \in Val, Write(a, v) \/ Dwrite(a, v) PROVE IInv'
  BY <1>1, WriteStep, DwriteStep, Zenon
<1>2. CASE Abort \/ Commit \/ CommitTooBig \/ Flushall \/ Flushsync
  BY <1>2, AbortStep, CommitStep, CommitTooBigStep, FlushallStep, Zenon
<1>3. ASSUME NEW m \in Maps(Addr, Val), DwriteVecs(m) PROVE IInv'
  BY <1>3, DwriteVecsStep, Zenon DEF Map
<1>4. ASSUME NEW S \in SUBSET Addr, Dsync(S) PROVE IInv'
  BY <1>4, DsyncStep, Zenon
<1>5. CASE Work
  <2>1. MStep /\ UNCHANGED <<vm, ts, cm, ds, txn>>
    BY <1>5, Zenon DEF Work
  <2> QED
    BY <2>1, MFlushStep, MExtendStep, MExtendSyncStep, MApplyWriteStep, MApplySyncStep,
       MApplyTruncStep, MDwriteApplyStep, Zenon DEF MStep
<1>6. CASE FlushallDone \/ DwriteNow \/ Return
  BY <1>6, FlushallDoneStep, DwriteNowStep, ReturnStep, Zenon
<1>7. CASE Crash \/ Recover
  BY <1>7, CrashStep, RecoverStep, Zenon
<1>8. CASE UNCHANGED vars
  <2>1. UNCHANGED <<disk, dlog, oms, pc, op, queue, wr, vm, ts, cm, ds, txn, latest>>
    BY <1>8, Zenon DEF vars, gvars, mvars, latest
  <2>2. TypeOK'
    BY <2>1, Zenon DEF IInv, TypeOK
  <2>4. LogInv' /\ PackInv' /\ RoomInv' /\ QueueInv'
    BY <2>1, Zenon DEF IInv, LogInv, PackInv, RoomInv, QueueInv
  <2>3. ChainInv' /\ FlushInv' /\ DwriteInv' /\ TxnInv' /\ DownInv'
    BY <2>1, Zenon DEF IInv, ChainInv, FlushInv, DwriteInv, TxnInv, DownInv, CrashSafe
  <2> QED
    BY <2>2, <2>3, <2>4, Zenon DEF IInv
<1> QED
  BY <1>1, <1>2, <1>3, <1>4, <1>5, <1>6, <1>7, <1>8 DEF Next, Step

\* The inductive invariant of the log stack.
THEOREM StackInductive == Spec => []IInv
BY InitInv, NextInv, PTL DEF Spec

\* The variables of MemLog.v, GroupLog.v and Log.v keep their types.
THEOREM StackTypeCorrect == Spec => []TypeOK
<1>1. IInv => TypeOK
  BY Zenon DEF IInv
<1> QED
  BY <1>1, StackInductive, PTL

\* Whenever a crash comes, what LOG.recover rebuilds is a crash outcome of a
\* disk of the disk set that LOG.rep promises.
THEOREM StackCrashSafe == Spec => []CrashSafe
<1>1. IInv => CrashSafe
  BY Zenon DEF IInv, DownInv, CrashSafe
<1> QED
  BY <1>1, StackInductive, PTL

\* LOG.read returns what the active transaction must see.
THEOREM StackReads == Spec => []ReadsTxn
<1>1. IInv => ReadsTxn
  <2> SUFFICES ASSUME IInv, pc = "idle", NEW a \in Addr PROVE Read(a) = txn[a]
    BY Zenon DEF ReadsTxn
  <2>1. /\ Reps(disk, ds[1], oms) /\ latest = Committed(ds[1], vm)
        /\ txn = Overlay(cm, Latest(latest))
    BY IdleTxn, Zenon DEF IInv, LogInv, Chain, latest
  <2>2. disk \in Disks /\ ds[1] \in Disks /\ oms \in Map /\ vm \in Map
    BY TypeFacts, Zenon DEF IInv
  <2>3. Latest(ds[1]) = Overlay(oms, Latest(disk))
    BY <2>1, <2>2, RepsRead, Zenon
  <2>4. Latest(latest) = Overlay(vm, Latest(ds[1]))
    BY <2>1, <2>2, CommittedLatest, Zenon
  <2>5. Latest(disk) \in [Addr -> Val] /\ Latest(disk)[a] = disk[a].cur
    BY <2>2, Zenon DEF Latest, Disks, ValuSet
  <2>6. Overlay(oms, Latest(disk))[a] = MRead(a)
    BY <2>5, Zenon DEF Overlay, MRead
  <2>7. Latest(latest)[a] = GRead(a)
    BY <2>3, <2>4, <2>5, <2>6, Zenon DEF Overlay, GRead
  <2>8. a \in DOMAIN Latest(latest)
    BY <2>3, <2>4, <2>5, Zenon DEF Overlay
  <2> QED
    BY <2>1, <2>7, <2>8, Zenon DEF Read, Overlay
<1> QED
  BY <1>1, StackInductive, PTL

\* MLog.flush never answers false to GLog.flushall, which drops the answer.
THEOREM StackFlushes == Spec => []FlushNeverFails
<1>1. IInv => FlushNeverFails
  BY AppendHasRoom, Zenon DEF FlushNeverFails
<1> QED
  BY <1>1, StackInductive, PTL
=============================================================================
