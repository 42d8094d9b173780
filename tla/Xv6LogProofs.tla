----------------------------- MODULE Xv6LogProofs -----------------------------
(***************************************************************************)
(* Proofs about the log of xv6: for every set of home sectors, every log   *)
(* size and every cache size, a crash at any point of log.c is atomic, a   *)
(* system call reads what was written before, and none panics.             *)
(*                                                                         *)
(* The argument has two halves.  Coh says what the buffer cache may hold   *)
(* at any point, and bread, log_write, bwrite and brelse keep it.  Safe    *)
(* says which disks recovery rebuilds, whatever a crash leaves of them.    *)
(* IInv puts both together for each point of begin_op, end_op, commit and  *)
(* recover_from_log.                                                       *)
(***************************************************************************)
EXTENDS Xv6Log, FiniteSetTheorems, TLAPS

\* A nonempty set of numbers up to n contains its maximum, so bget recycles
\* a buffer that exists.
LEMMA MaxIn ==
  ASSUME NEW n \in Nat, NEW S \in SUBSET (1..n), S # {}
  PROVE  Max(S) \in S
<1> DEFINE T == {n - i : i \in S}
<1>1. T \subseteq Nat
  <2>1. \A i \in S : n - i \in Nat OBVIOUS
  <2> QED BY <2>1, Zenon
<1>2. T # {}
  <2>1. PICK i \in S : TRUE BY Zenon
  <2>2. n - i \in T BY Zenon
  <2> QED BY <2>2, Zenon
<1>3. PICK x \in T : \A y \in T : ~(<<y, x>> \in OpToRel(<, Nat)) 
  <2> HIDE DEF T
  <2> QED BY <1>1, <1>2, NatLessThanWellFounded, WFMin, Zenon
<1>4. PICK m \in S : x = n - m BY Zenon
<1>5. ASSUME NEW i \in S PROVE i <= m
  <2>1. n - i \in T /\ n - i \in Nat /\ x \in Nat BY <1>1, Zenon
  <2>2. ~(<<n - i, x>> \in OpToRel(<, Nat)) BY <1>3, <2>1, Zenon
  <2>3. ~(n - i < x) BY <2>1, <2>2, Zenon DEF OpToRel
  <2> QED BY <2>1, <2>3, <1>4
<1> QED BY <1>5, Zenon DEF Max

AnyData == Val \cup Seq(Home) \cup {NoSector}
Buf == [sector : Sectors \cup {NoSector}, data : AnyData,
        valid : BOOLEAN, dirty : BOOLEAN, busy : BOOLEAN]

\* The cache c is coherent with the disk d: a sector has one buffer, a clean
\* buffer is a copy, the dirty ones are those of L and hold what p has, and the
\* callers hold the buffers of B.
Coh(c, d, p, L, B) ==
  /\ c \in [1..NBUF -> Buf]
  /\ \A i, j \in 1..NBUF : c[i].sector = c[j].sector /\ c[i].sector # NoSector => i = j
  /\ \A i \in 1..NBUF :
       /\ c[i].valid => c[i].sector # NoSector
       /\ c[i].valid /\ ~c[i].dirty => c[i].data = d[c[i].sector].cur
       /\ c[i].dirty => c[i].valid /\ c[i].sector \in L /\ c[i].data = p[c[i].sector]
       /\ c[i].busy <=> c[i].sector \in B
  /\ \A s \in L : \E i \in 1..NBUF : c[i].sector = s /\ c[i].dirty
  /\ \A s \in B : \E i \in 1..NBUF : c[i].sector = s /\ c[i].valid

\* The numbers that the constants are.
LEMMA Constants ==
  /\ NBUF \in Nat /\ NBUF > 0 /\ NBUF > MAXOPBLOCKS
  /\ MAXOPBLOCKS \in Nat /\ LOGSIZE \in Nat
  /\ MAXOPBLOCKS < Len(LogSector) /\ Len(LogSector) <= LOGSIZE
  /\ Len(LogSector) \in Nat /\ DOMAIN LogSector = 1..Len(LogSector)
  /\ NoSector \notin Sectors
BY Xv6LogAssumption

\* The buffer of a sector.
LEMMA SlotOf ==
  ASSUME NEW c, NEW d, NEW p, NEW L, NEW B, Coh(c, d, p, L, B),
         NEW i \in 1..NBUF, NEW s \in Sectors, c[i].sector = s
  PROVE  Slots(c, s) = {i} /\ Slot(c, s) = i
<1>1. s # NoSector BY Constants, Zenon
<1>2. Slots(c, s) = {i} BY <1>1, Zenon DEF Coh, Slots
<1>3. Slot(c, s) \in {i} BY <1>2, Zenon DEF Slot
<1> QED BY <1>2, <1>3, Zenon

\* A sector is cached when some buffer has it.
LEMMA SlotsOf ==
  ASSUME NEW c, NEW d, NEW p, NEW L, NEW B, Coh(c, d, p, L, B), NEW s \in Sectors
  PROVE  Slots(c, s) # {} <=> \E i \in 1..NBUF : c[i].sector = s
BY Zenon DEF Coh, Slots


\* The fields of a buffer.
LEMMA BufFields ==
  ASSUME NEW b \in Buf
  PROVE  /\ b.sector \in Sectors \cup {NoSector} /\ b.data \in AnyData
         /\ b.valid \in BOOLEAN /\ b.dirty \in BOOLEAN /\ b.busy \in BOOLEAN
BY Zenon DEF Buf

\* Changing a flag of a buffer leaves a buffer.
LEMMA BufExcept ==
  ASSUME NEW b \in Buf, NEW x \in BOOLEAN
  PROVE  /\ [b EXCEPT !.busy = x] \in Buf
         /\ [b EXCEPT !.dirty = x] \in Buf
         /\ [b EXCEPT !.valid = x] \in Buf
BY Zenon DEF Buf

\* Giving buffer i the sector s, held and valid, when no other buffer has it and
\* buffer i was not held for another sector or dirty.
LEMMA PutCoh ==
  ASSUME NEW c, NEW d, NEW p, NEW L, NEW B \in SUBSET Sectors, Coh(c, d, p, L, B),
         NEW i \in 1..NBUF, NEW s \in Sectors, NEW e \in Buf,
         e.sector = s, e.valid, e.busy,
         \A j \in 1..NBUF : c[j].sector = s => j = i,
         \/ /\ c[i].sector = s /\ e.dirty = c[i].dirty
            /\ e.data = IF c[i].valid THEN c[i].data ELSE d[s].cur
         \/ ~c[i].dirty /\ ~c[i].busy /\ ~e.dirty /\ e.data = d[s].cur
  PROVE  Coh([c EXCEPT ![i] = e], d, p, L, B \cup {s})
<1> DEFINE b == [c EXCEPT ![i] = e]
<1>s. s # NoSector BY Constants, Zenon
<1>t. c \in [1..NBUF -> Buf] BY Zenon DEF Coh
<1>1. b \in [1..NBUF -> Buf] BY <1>t, Zenon
<1>2. b[i] = e /\ \A j \in 1..NBUF : j # i => b[j] = c[j] BY <1>t, Zenon
<1> HIDE DEF b
<1>3. \A j, k \in 1..NBUF : b[j].sector = b[k].sector /\ b[j].sector # NoSector => j = k
  BY <1>2 DEF Coh
<1>4. ASSUME NEW j \in 1..NBUF
      PROVE  /\ b[j].valid => b[j].sector # NoSector
             /\ b[j].valid /\ ~b[j].dirty => b[j].data = d[b[j].sector].cur
             /\ b[j].dirty => b[j].valid /\ b[j].sector \in L /\ b[j].data = p[b[j].sector]
             /\ b[j].busy <=> b[j].sector \in B \cup {s}
  <2>1. CASE j = i BY <2>1, <1>2, <1>s DEF Coh
  <2>2. CASE j # i BY <2>2, <1>2 DEF Coh
  <2> QED BY <2>1, <2>2, Zenon
<1>5. \A x \in L : \E j \in 1..NBUF : b[j].sector = x /\ b[j].dirty
  <2> SUFFICES ASSUME NEW x \in L PROVE \E j \in 1..NBUF : b[j].sector = x /\ b[j].dirty BY Zenon
  <2>1. PICK j \in 1..NBUF : c[j].sector = x /\ c[j].dirty BY Zenon DEF Coh
  <2> QED BY <2>1, <1>2, Zenon
<1>6. \A x \in B \cup {s} : \E j \in 1..NBUF : b[j].sector = x /\ b[j].valid
  <2> SUFFICES ASSUME NEW x \in B \cup {s} PROVE \E j \in 1..NBUF : b[j].sector = x /\ b[j].valid BY Zenon
  <2>1. CASE x = s BY <2>1, <1>2, Zenon
  <2>2. CASE x # s
    <3>1. PICK j \in 1..NBUF : c[j].sector = x /\ c[j].valid BY <2>2, Zenon DEF Coh
    <3>2. c[j].busy BY <3>1, <2>2, Zenon DEF Coh
    <3>3. j # i BY <3>1, <3>2, <2>2, Zenon
    <3> QED BY <3>1, <3>3, <1>2, Zenon
  <2> QED BY <2>1, <2>2, Zenon
<1> QED BY <1>1, <1>3, <1>4, <1>5, <1>6 DEF Coh

\* bread gives the caller a valid buffer of the sector and keeps the cache coherent.
LEMMA BReadCoh ==
  ASSUME disk \in [Sectors -> ValuSet(AnyData)],
         NEW c, NEW p, NEW L, NEW B \in SUBSET Sectors, Coh(c, disk, p, L, B),
         NEW s \in Sectors, CanGet(c, s)
  PROVE  Coh(BRead(c, s), disk, p, L, B \cup {s})
<1> DEFINE g == BGet(c, s)
           b == BRead(c, s)
<1>0. disk[s].cur \in AnyData BY Zenon DEF ValuSet
<1>s. s # NoSector BY Constants, Zenon
<1>t. c \in [1..NBUF -> Buf] /\ DOMAIN c = 1..NBUF BY Zenon DEF Coh
<1>r. ASSUME NEW i \in 1..NBUF, NEW e \in Buf, g = [c EXCEPT ![i] = e], Slot(g, s) = i
      PROVE  b = [c EXCEPT ![i] = IF e.valid THEN e ELSE [[e EXCEPT !.valid = TRUE] EXCEPT !.data = disk[s].cur]]
  <2>1. g[i] = e BY <1>r, <1>t, Zenon
  <2>2. CASE e.valid BY <2>1, <2>2, <1>r, Zenon DEF BRead
  <2>3. CASE ~e.valid
    <3>1. b = [g EXCEPT ![i].valid = TRUE, ![i].data = disk[s].cur] BY <2>1, <2>3, <1>r, Zenon DEF BRead
    <3> DEFINE f == [g EXCEPT ![i].valid = TRUE]
    <3>2. f = [c EXCEPT ![i] = [e EXCEPT !.valid = TRUE]] BY <1>r, <1>t, <2>1, Zenon
    <3>3. b = [f EXCEPT ![i].data = disk[s].cur] BY <3>1, Zenon
    <3>4. f[i] = [e EXCEPT !.valid = TRUE] BY <3>2, <1>t, Zenon
    <3> HIDE DEF f
    <3>5. b = [f EXCEPT ![i] = [[e EXCEPT !.valid = TRUE] EXCEPT !.data = disk[s].cur]] BY <3>3, <3>4, Zenon
    <3> QED BY <3>5, <3>2, <2>3, <1>t, Zenon
  <2> QED BY <2>2, <2>3, Zenon
<1>1. CASE Slots(c, s) # {}
  <2>1. PICK i \in 1..NBUF : c[i].sector = s BY <1>1, SlotsOf, Zenon
  <2>2. Slot(c, s) = i /\ Slots(c, s) = {i} BY <2>1, SlotOf, Zenon
  <2> DEFINE e == [c[i] EXCEPT !.busy = TRUE]
             k == [[e EXCEPT !.valid = TRUE] EXCEPT !.data = disk[s].cur]
  <2>3. g = [c EXCEPT ![i] = e] BY <1>1, <2>2, Zenon DEF BGet
  <2>4. e \in Buf BY <1>t, BufExcept, Zenon
  <2>5. /\ e.sector = s /\ e.data = c[i].data /\ e.valid = c[i].valid
        /\ e.dirty = c[i].dirty /\ e.busy
    BY <1>t, <2>1, Zenon DEF Buf
  <2>6. Slots(g, s) = {i}
    <3>1. DOMAIN g = 1..NBUF /\ g[i] = e /\ \A j \in 1..NBUF : j # i => g[j] = c[j] BY <2>3, <1>t, Zenon
    <3> HIDE DEF e, g
    <3> QED BY <3>1, <2>2, <2>5, <1>t DEF Slots
  <2>7. Slot(g, s) = i BY <2>6, Zenon DEF Slot
  <2>8. b = [c EXCEPT ![i] = IF e.valid THEN e ELSE k] BY <2>3, <2>4, <2>7, <1>r, Zenon
  <2>9. k \in Buf /\ k.sector = s /\ k.data = disk[s].cur /\ k.valid /\ k.dirty = c[i].dirty /\ k.busy
    <3> HIDE DEF e
    <3>1. [e EXCEPT !.valid = TRUE] \in Buf BY <2>4, BufExcept, Zenon
    <3> QED BY <3>1, <2>4, <2>5, <1>0, Zenon DEF Buf
  <2>10. \A j \in 1..NBUF : c[j].sector = s => j = i BY <2>2, <1>t, Zenon DEF Slots
  <2> HIDE DEF b, e, k
  <2>11. CASE c[i].valid
    <3>1. Coh([c EXCEPT ![i] = e], disk, p, L, B \cup {s}) BY <2>1, <2>4, <2>5, <2>10, <2>11, PutCoh, Zenon
    <3> QED BY <3>1, <2>5, <2>8, <2>11, Zenon DEF b
  <2>12. CASE ~c[i].valid
    <3>1. Coh([c EXCEPT ![i] = k], disk, p, L, B \cup {s}) BY <2>1, <2>9, <2>10, <2>12, PutCoh, Zenon
    <3> QED BY <3>1, <2>5, <2>8, <2>12, Zenon DEF b
  <2> QED BY <2>11, <2>12, Zenon
<1>2. CASE Slots(c, s) = {}
  <2>1. \A j \in 1..NBUF : c[j].sector # s BY <1>2, SlotsOf, Zenon
  <2>2. Recyclable(c) # {} /\ Recyclable(c) \in SUBSET (1..NBUF) BY <1>2, <1>t, Zenon DEF CanGet, Recyclable
  <2>3. Max(Recyclable(c)) \in Recyclable(c) BY <2>2, MaxIn, Constants, Zenon
  <2> DEFINE i == Max(Recyclable(c))
  <2>4. i \in 1..NBUF /\ ~c[i].busy /\ ~c[i].dirty
    <3> HIDE DEF i
    <3>1. i \in Recyclable(c) BY <2>3, Zenon DEF i
    <3> QED BY <3>1, <1>t, Zenon DEF Recyclable
  <2> DEFINE e == [[Unused EXCEPT !.sector = s] EXCEPT !.busy = TRUE]
             k == [[e EXCEPT !.valid = TRUE] EXCEPT !.data = disk[s].cur]
  <2>5. g = [c EXCEPT ![i] = e] BY <1>2, Zenon DEF BGet
  <2> HIDE DEF i
  <2>6. e \in Buf /\ e.sector = s /\ ~e.valid /\ ~e.dirty /\ e.busy BY Zenon DEF Buf, AnyData, Unused
  <2>8. Slots(g, s) = {i}
    <3>1. DOMAIN g = 1..NBUF /\ g[i] = e /\ \A j \in 1..NBUF : j # i => g[j] = c[j] BY <2>4, <2>5, <1>t, Zenon
    <3> HIDE DEF e, g
    <3> QED BY <3>1, <2>1, <2>4, <2>6, Zenon DEF Slots
  <2>9. Slot(g, s) = i BY <2>8, Zenon DEF Slot
  <2>10. b = [c EXCEPT ![i] = IF e.valid THEN e ELSE k] BY <2>4, <2>5, <2>6, <2>9, <1>r, Zenon
  <2>11. k \in Buf /\ k.sector = s /\ k.data = disk[s].cur /\ k.valid /\ ~k.dirty /\ k.busy
    <3> HIDE DEF e
    <3>1. [e EXCEPT !.valid = TRUE] \in Buf BY <2>6, BufExcept, Zenon
    <3> QED BY <3>1, <2>6, <1>0, Zenon DEF Buf
  <2> HIDE DEF b, e, k
  <2>12. Coh([c EXCEPT ![i] = k], disk, p, L, B \cup {s}) BY <2>1, <2>4, <2>11, PutCoh, Zenon
  <2> QED BY <2>12, <2>10, <2>6, Zenon DEF b
<1> QED BY <1>1, <1>2, Zenon

\* The list with the buffer k moved to the head, where it becomes h.
ToFront(h, c, k) == <<h>> \o Without(c, k)

\* The list r is the list c with buffer k, as h, moved to the head.
Reordered(r, h, c, k) ==
  /\ r \in [1..NBUF -> Buf]
  /\ \A i \in 1..NBUF : r[i] = IF i = 1 THEN h ELSE IF i <= k THEN c[i - 1] ELSE c[i]

\* brelse changes the order of the list and nothing else.
LEMMA BRelseOrder ==
  ASSUME NEW c \in [1..NBUF -> Buf], NEW k \in 1..NBUF, NEW h \in Buf
  PROVE  Reordered(ToFront(h, c, k), h, c, k)
<1>1. NBUF \in Nat BY Constants, Zenon
<1>2. c \in Seq(Buf) /\ Len(c) = NBUF
  <2>1. c \in Seq(Buf) BY <1>1
  <2> QED BY <2>1, <1>1
<1> DEFINE f == SubSeq(c, 1, k - 1)
           g == SubSeq(c, k + 1, NBUF)
<1>3. /\ f \in Seq(Buf) /\ Len(f) = k - 1
      /\ \A i \in 1..(k - 1) : f[i] = c[i]
  <2>1. \A i \in 1..(k - 1) : c[i] \in Buf BY <1>1
  <2>2. 1 \in Int /\ k - 1 \in Int BY <1>1
  <2>3. /\ f \in Seq(Buf) /\ Len(f) = IF 1 <= k - 1 THEN (k - 1) - 1 + 1 ELSE 0
        /\ \A i \in 1..((k - 1) - 1 + 1) : f[i] = c[1 + i - 1]
    BY <2>1, <2>2
  <2> HIDE DEF f
  <2> QED BY <2>3, <1>1
<1>4. /\ g \in Seq(Buf) /\ Len(g) = NBUF - k
      /\ \A i \in 1..(NBUF - k) : g[i] = c[k + i]
  <2>1. \A i \in (k + 1)..NBUF : c[i] \in Buf BY <1>1
  <2>2. k + 1 \in Int /\ NBUF \in Int BY <1>1
  <2>3. /\ g \in Seq(Buf) /\ Len(g) = IF k + 1 <= NBUF THEN NBUF - (k + 1) + 1 ELSE 0
        /\ \A i \in 1..(NBUF - (k + 1) + 1) : g[i] = c[(k + 1) + i - 1]
    BY <2>1, <2>2
  <2> HIDE DEF g
  <2> QED BY <2>3, <1>1
<1>5. Without(c, k) = f \o g BY <1>2, Zenon DEF Without
<1> HIDE DEF f, g
<1>6. /\ f \o g \in Seq(Buf) /\ Len(f \o g) = NBUF - 1
      /\ \A i \in 1..(NBUF - 1) : (f \o g)[i] = IF i < k THEN c[i] ELSE c[i + 1]
  <2>1. /\ f \o g \in Seq(Buf) /\ Len(f \o g) = Len(f) + Len(g)
        /\ \A i \in 1..(Len(f) + Len(g)) : (f \o g)[i] = IF i <= Len(f) THEN f[i] ELSE g[i - Len(f)]
    <3>1. f \in Seq(Buf) /\ g \in Seq(Buf) BY <1>3, <1>4, Zenon
    <3> QED BY <3>1
  <2>2. Len(f) + Len(g) = NBUF - 1 BY <1>1, <1>3, <1>4
  <2>3. ASSUME NEW i \in 1..(NBUF - 1) PROVE (f \o g)[i] = IF i < k THEN c[i] ELSE c[i + 1]
    <3>1. (f \o g)[i] = IF i <= k - 1 THEN f[i] ELSE g[i - (k - 1)] BY <2>1, <2>2, <1>3, Zenon
    <3>2. CASE i < k BY <3>1, <3>2, <1>1, <1>3
    <3>3. CASE ~(i < k)
      <4>1. i - (k - 1) \in 1..(NBUF - k) /\ k + (i - (k - 1)) = i + 1 BY <3>3, <1>1
      <4> QED BY <4>1, <3>1, <3>3, <1>4, <1>1
    <3> QED BY <3>2, <3>3, Zenon
  <2> QED BY <2>1, <2>2, <2>3, Zenon
<1> DEFINE t == Without(c, k)
           r == <<h>> \o t
<1>7. t \in Seq(Buf) /\ Len(t) = NBUF - 1 /\ \A i \in 1..(NBUF - 1) : t[i] = IF i < k THEN c[i] ELSE c[i + 1]
  BY <1>5, <1>6, Zenon
<1> HIDE DEF t
<1>8. <<h>> \in Seq(Buf) /\ Len(<<h>>) = 1 /\ <<h>>[1] = h OBVIOUS
<1>9. /\ r \in Seq(Buf) /\ Len(r) = Len(<<h>>) + Len(t)
      /\ \A i \in 1..(Len(<<h>>) + Len(t)) : r[i] = IF i <= Len(<<h>>) THEN <<h>>[i] ELSE t[i - Len(<<h>>)]
  BY <1>7, <1>8
<1> HIDE DEF r
<1>10. Len(r) = NBUF BY <1>1, <1>7, <1>8, <1>9
<1>11. r \in [1..NBUF -> Buf] BY <1>9, <1>10
<1>12. ASSUME NEW i \in 1..NBUF PROVE r[i] = IF i = 1 THEN h ELSE IF i <= k THEN c[i - 1] ELSE c[i]
  <2>1. r[i] = IF i <= 1 THEN <<h>>[i] ELSE t[i - 1] BY <1>1, <1>7, <1>8, <1>9
  <2>2. CASE i = 1 BY <2>1, <2>2, <1>8
  <2>3. CASE i # 1
    <3>1. i - 1 \in 1..(NBUF - 1) /\ (i - 1 < k <=> i <= k) /\ (i - 1) + 1 = i /\ ~(i <= 1) BY <2>3, <1>1
    <3>2. t[i - 1] = IF i - 1 < k THEN c[i - 1] ELSE c[(i - 1) + 1] BY <3>1, <1>7, Zenon
    <3> QED BY <2>1, <2>3, <3>1, <3>2, Zenon
  <2> QED BY <2>2, <2>3, Zenon
<1> QED BY <1>11, <1>12, Zenon DEF r, t, ToFront, Reordered

\* brelse gives up one buffer of the caller and keeps the cache coherent.
LEMMA BRelseCoh ==
  ASSUME NEW c, NEW d, NEW p, NEW L, NEW B \in SUBSET Sectors, Coh(c, d, p, L, B), NEW s \in B
  PROVE  Coh(BRelse(c, s), d, p, L, B \ {s})
<1>1. PICK k \in 1..NBUF : c[k].sector = s BY Zenon DEF Coh
<1>2. Slot(c, s) = k BY <1>1, SlotOf, Zenon
<1> DEFINE h == [c[k] EXCEPT !.busy = FALSE]
           r == BRelse(c, s)
           to == [j \in 1..NBUF |-> IF j = k THEN 1 ELSE IF j < k THEN j + 1 ELSE j]
           fr == [i \in 1..NBUF |-> IF i = 1 THEN k ELSE IF i <= k THEN i - 1 ELSE i]
<1>3. c \in [1..NBUF -> Buf] /\ NBUF \in Nat BY Constants, Zenon DEF Coh
<1>4. /\ h \in Buf /\ h.sector = s /\ h.data = c[k].data /\ h.valid = c[k].valid
      /\ h.dirty = c[k].dirty /\ ~h.busy
  <2>1. c[k] \in Buf BY <1>3, Zenon
  <2>2. h \in Buf BY <2>1, BufExcept, Zenon
  <2> QED BY <2>1, <2>2, <1>1, Zenon DEF Buf
<1>5. r = ToFront(h, c, k) BY <1>2, Zenon DEF BRelse, ToFront
<1> HIDE DEF h, r
<1>6. /\ r \in [1..NBUF -> Buf]
      /\ \A i \in 1..NBUF : r[i] = IF i = 1 THEN h ELSE IF i <= k THEN c[i - 1] ELSE c[i]
  <2>1. Reordered(ToFront(h, c, k), h, c, k) BY <1>3, <1>4, BRelseOrder, Zenon
  <2>2. Reordered(r, h, c, k) BY <2>1, <1>5, Zenon
  <2> QED BY <2>2, Zenon DEF Reordered
<1>7. \A i \in 1..NBUF : fr[i] \in 1..NBUF /\ (fr[i] = k <=> i = 1) BY <1>3
<1>8. \A j \in 1..NBUF : to[j] \in 1..NBUF /\ fr[to[j]] = j BY <1>3
<1>9. \A i, j \in 1..NBUF : fr[i] = fr[j] => i = j BY <1>3
<1>10. ASSUME NEW i \in 1..NBUF PROVE r[i] = IF i = 1 THEN h ELSE c[fr[i]] BY <1>6, <1>3, Zenon
<1> HIDE DEF to, fr
<1>11. ASSUME NEW i \in 1..NBUF
       PROVE /\ r[i].sector = c[fr[i]].sector /\ r[i].data = c[fr[i]].data
             /\ r[i].valid = c[fr[i]].valid /\ r[i].dirty = c[fr[i]].dirty
             /\ r[i].busy <=> c[fr[i]].busy /\ fr[i] # k
  <2>1. CASE i = 1 BY <2>1, <1>1, <1>4, <1>7, <1>10
  <2>2. CASE i # 1 BY <2>2, <1>7, <1>10, Zenon
  <2> QED BY <2>1, <2>2, Zenon
<1>12. \A i, j \in 1..NBUF : r[i].sector = r[j].sector /\ r[i].sector # NoSector => i = j
  BY <1>7, <1>9, <1>11 DEF Coh
<1>13. ASSUME NEW i \in 1..NBUF
       PROVE /\ r[i].valid => r[i].sector # NoSector
             /\ r[i].valid /\ ~r[i].dirty => r[i].data = d[r[i].sector].cur
             /\ r[i].dirty => r[i].valid /\ r[i].sector \in L /\ r[i].data = p[r[i].sector]
             /\ r[i].busy <=> r[i].sector \in B \ {s}
  <2>1. s # NoSector BY Constants, Zenon
  <2>2. fr[i] = k <=> c[fr[i]].sector = s BY <2>1, <1>1, <1>7 DEF Coh
  <2>3. fr[i] \in 1..NBUF BY <1>7, Zenon
  <2>4. /\ c[fr[i]].valid => c[fr[i]].sector # NoSector
        /\ c[fr[i]].valid /\ ~c[fr[i]].dirty => c[fr[i]].data = d[c[fr[i]].sector].cur
        /\ c[fr[i]].dirty => c[fr[i]].valid /\ c[fr[i]].sector \in L /\ c[fr[i]].data = p[c[fr[i]].sector]
        /\ c[fr[i]].busy <=> c[fr[i]].sector \in B
    BY <2>3, Zenon DEF Coh
  <2> QED BY <2>2, <2>4, <1>11, Zenon
<1>14. \A x \in L : \E i \in 1..NBUF : r[i].sector = x /\ r[i].dirty
  <2> SUFFICES ASSUME NEW x \in L PROVE \E i \in 1..NBUF : r[i].sector = x /\ r[i].dirty BY Zenon
  <2>1. PICK j \in 1..NBUF : c[j].sector = x /\ c[j].dirty BY Zenon DEF Coh
  <2>2. to[j] \in 1..NBUF /\ fr[to[j]] = j BY <1>8, Zenon
  <2> QED BY <2>1, <2>2, <1>11
<1>15. \A x \in B \ {s} : \E i \in 1..NBUF : r[i].sector = x /\ r[i].valid
  <2> SUFFICES ASSUME NEW x \in B \ {s} PROVE \E i \in 1..NBUF : r[i].sector = x /\ r[i].valid BY Zenon
  <2>1. PICK j \in 1..NBUF : c[j].sector = x /\ c[j].valid BY DEF Coh
  <2>2. to[j] \in 1..NBUF /\ fr[to[j]] = j BY <1>8, Zenon
  <2> QED BY <2>1, <2>2, <1>11
<1> QED BY <1>6, <1>12, <1>13, <1>14, <1>15, Zenon DEF Coh, r

\* What the caller finds in a buffer that it holds.
LEMMA DataOfHeld ==
  ASSUME NEW c, NEW d, NEW p, NEW L, NEW B \in SUBSET Sectors, Coh(c, d, p, L, B), NEW s \in B
  PROVE  DataOf(c, s) = IF s \in L THEN p[s] ELSE d[s].cur
<1>1. PICK k \in 1..NBUF : c[k].sector = s /\ c[k].valid BY Zenon DEF Coh
<1>2. Slot(c, s) = k BY <1>1, SlotOf, Zenon
<1>3. CASE s \in L
  <2>1. PICK j \in 1..NBUF : c[j].sector = s /\ c[j].dirty BY <1>3, Zenon DEF Coh
  <2>2. j = k BY <2>1, <1>1, Constants DEF Coh
  <2> QED BY <2>1, <2>2, <1>2, <1>3, Zenon DEF Coh, DataOf
<1>4. CASE s \notin L BY <1>1, <1>2, <1>4, Zenon DEF Coh, DataOf
<1> QED BY <1>3, <1>4, Zenon

\* The dirty bit of the buffer of a sector.
SetDirty(c, s, x) == [c EXCEPT ![Slot(c, s)].dirty = x]

\* With new data v and dirty bit x for the sector s, buffer k becomes e.
Modified(c, s, v, x, k, e) ==
  /\ c[k].sector = s
  /\ DataOf(Modify(c, s, v), s) = v
  /\ SetDirty(Modify(c, s, v), s, x) = [c EXCEPT ![k] = e]
  /\ e.sector = s /\ e.data = v /\ e.valid /\ e.dirty = x /\ e.busy

\* Two changes of the buffer of a sector: its data, then its dirty bit.
LEMMA ModifyForm ==
  ASSUME NEW c, NEW d, NEW p, NEW L, NEW B \in SUBSET Sectors, Coh(c, d, p, L, B), NEW s \in B,
         NEW v \in AnyData, NEW x \in BOOLEAN
  PROVE  \E k \in 1..NBUF, e \in Buf : Modified(c, s, v, x, k, e)
<1>1. PICK k \in 1..NBUF : c[k].sector = s /\ c[k].valid BY Zenon DEF Coh
<1>2. Slot(c, s) = k /\ Slots(c, s) = {k} BY <1>1, SlotOf, Zenon
<1>3. c \in [1..NBUF -> Buf] /\ c[k] \in Buf /\ c[k].busy BY <1>1, Zenon DEF Coh
<1> DEFINE m == Modify(c, s, v)
           a == [c[k] EXCEPT !.data = v]
           e == [a EXCEPT !.dirty = x]
<1>4. m = [c EXCEPT ![k] = a] BY <1>2, Zenon DEF Modify
<1>5. a \in Buf /\ a.sector = s /\ a.data = v /\ a.valid /\ a.busy BY <1>1, <1>3, Zenon DEF Buf
<1> HIDE DEF a, m
<1>6. e \in Buf /\ e.sector = s /\ e.data = v /\ e.valid /\ e.dirty = x /\ e.busy
  <2>1. e \in Buf BY <1>5, BufExcept, Zenon
  <2> QED BY <2>1, <1>5, Zenon DEF Buf
<1>7. DOMAIN m = 1..NBUF /\ m[k] = a /\ \A j \in 1..NBUF : j # k => m[j] = c[j] BY <1>3, <1>4, Zenon
<1>8. Slots(m, s) = {k} BY <1>2, <1>3, <1>5, <1>7 DEF Slots
<1>9. Slot(m, s) = k BY <1>8, Zenon DEF Slot
<1>10. DataOf(m, s) = v BY <1>5, <1>7, <1>9, Zenon DEF DataOf
<1>11. [m EXCEPT ![Slot(m, s)].dirty = x] = [m EXCEPT ![k] = e] BY <1>7, <1>9, Zenon
<1>12. [m EXCEPT ![k] = e] = [c EXCEPT ![k] = e] BY <1>3, <1>4, Zenon
<1> QED BY <1>1, <1>6, <1>10, <1>11, <1>12, Zenon DEF m, SetDirty, Modified

\* log_write: the buffer holds the new data and is pinned.
LEMMA PinCoh ==
  ASSUME NEW c, NEW d, NEW p \in [Home -> Val], NEW L \in SUBSET Home,
         NEW B \in SUBSET Sectors, Coh(c, d, p, L, B),
         NEW s \in B, s \in Home, NEW v \in Val
  PROVE  Coh(SetDirty(Modify(c, s, v), s, TRUE), d, [p EXCEPT ![s] = v], L \cup {s}, B)
<1>0. v \in AnyData BY Zenon DEF AnyData
<1> DEFINE m == Modify(c, s, v)
           r == SetDirty(m, s, TRUE)
           q == [p EXCEPT ![s] = v]
<1>a. PICK k \in 1..NBUF, e \in Buf : Modified(c, s, v, TRUE, k, e)
  <2>1. TRUE \in BOOLEAN BY Zenon
  <2> QED BY <2>1, <1>0, ModifyForm, Zenon
<1>1. /\ c[k].sector = s /\ r = [c EXCEPT ![k] = e]
      /\ e.sector = s /\ e.data = v /\ e.valid /\ e.dirty /\ e.busy
  BY <1>a, Zenon DEF Modified
<1> HIDE DEF m, r
<1>2. q[s] = v /\ \A x \in Home : x # s => q[x] = p[x] BY Zenon
<1> HIDE DEF q
<1>3. c \in [1..NBUF -> Buf] /\ s # NoSector BY Constants DEF Coh
<1>4. r \in [1..NBUF -> Buf] /\ r[k] = e /\ \A j \in 1..NBUF : j # k => r[j] = c[j] /\ c[j].sector # s
  BY <1>1, <1>3 DEF Coh
<1>5. \A i, j \in 1..NBUF : r[i].sector = r[j].sector /\ r[i].sector # NoSector => i = j
  BY <1>1, <1>4 DEF Coh
<1>6. ASSUME NEW j \in 1..NBUF
      PROVE  /\ r[j].valid => r[j].sector # NoSector
             /\ r[j].valid /\ ~r[j].dirty => r[j].data = d[r[j].sector].cur
             /\ r[j].dirty => r[j].valid /\ r[j].sector \in L \cup {s} /\ r[j].data = q[r[j].sector]
             /\ r[j].busy <=> r[j].sector \in B
  <2>1. CASE j = k BY <2>1, <1>1, <1>2, <1>3, <1>4, Zenon
  <2>2. CASE j # k BY <2>2, <1>2, <1>4 DEF Coh
  <2> QED BY <2>1, <2>2, Zenon
<1>7. \A x \in L \cup {s} : \E j \in 1..NBUF : r[j].sector = x /\ r[j].dirty
  <2> SUFFICES ASSUME NEW x \in L \cup {s} PROVE \E j \in 1..NBUF : r[j].sector = x /\ r[j].dirty BY Zenon
  <2>1. CASE x = s BY <2>1, <1>1, <1>4, Zenon
  <2>2. CASE x # s
    <3>1. PICK j \in 1..NBUF : c[j].sector = x /\ c[j].dirty BY <2>2, Zenon DEF Coh
    <3> QED BY <3>1, <2>2, <1>1, <1>4, Zenon
  <2> QED BY <2>1, <2>2, Zenon
<1>8. \A x \in B : \E j \in 1..NBUF : r[j].sector = x /\ r[j].valid
  <2> SUFFICES ASSUME NEW x \in B PROVE \E j \in 1..NBUF : r[j].sector = x /\ r[j].valid BY Zenon
  <2>1. PICK j \in 1..NBUF : c[j].sector = x /\ c[j].valid BY Zenon DEF Coh
  <2>2. CASE j = k BY <2>1, <2>2, <1>1, <1>4, Zenon
  <2>3. CASE j # k BY <2>1, <2>3, <1>4, Zenon
  <2> QED BY <2>2, <2>3, Zenon
<1> QED BY <1>4, <1>5, <1>6, <1>7, <1>8, Zenon DEF Coh, r, m, q

\* The disk n differs from d in the sector s, which now reads as v.
Changed(d, n, s, v) == n[s].cur = v /\ \A x \in Sectors : x # s => n[x].cur = d[x].cur

\* bwrite: the buffer is clean again and the disk has its data.
LEMMA WriteCoh ==
  ASSUME NEW c, NEW d, NEW p, NEW L,
         NEW B \in SUBSET Sectors, Coh(c, d, p, L, B),
         NEW s \in B, NEW v \in AnyData,
         NEW n, Changed(d, n, s, v)
  PROVE  /\ DataOf(Modify(c, s, v), s) = v
         /\ Coh(BWrite(Modify(c, s, v), s), n, p, L \ {s}, B)
<1> DEFINE m == Modify(c, s, v)
           r == BWrite(m, s)
<1>0. PICK k \in 1..NBUF, e \in Buf : Modified(c, s, v, FALSE, k, e)
  <2>1. FALSE \in BOOLEAN BY Zenon
  <2> QED BY <2>1, ModifyForm, Zenon
<1>1. /\ c[k].sector = s /\ DataOf(m, s) = v /\ SetDirty(m, s, FALSE) = [c EXCEPT ![k] = e]
      /\ e.sector = s /\ e.data = v /\ e.valid /\ ~e.dirty /\ e.busy
  BY <1>0, Zenon DEF Modified
<1>a. r = [c EXCEPT ![k] = e] BY <1>1, Zenon DEF BWrite, SetDirty
<1> HIDE DEF m, r
<1>3. c \in [1..NBUF -> Buf] /\ s # NoSector BY Constants DEF Coh
<1>4. r \in [1..NBUF -> Buf] /\ r[k] = e /\ \A j \in 1..NBUF : j # k => r[j] = c[j] /\ c[j].sector # s
  BY <1>1, <1>3, <1>a DEF Coh
<1>5. \A i, j \in 1..NBUF : r[i].sector = r[j].sector /\ r[i].sector # NoSector => i = j
  BY <1>1, <1>4 DEF Coh
<1>6. ASSUME NEW j \in 1..NBUF
      PROVE  /\ r[j].valid => r[j].sector # NoSector
             /\ r[j].valid /\ ~r[j].dirty => r[j].data = n[r[j].sector].cur
             /\ r[j].dirty => r[j].valid /\ r[j].sector \in L \ {s} /\ r[j].data = p[r[j].sector]
             /\ r[j].busy <=> r[j].sector \in B
  <2>1. CASE j = k BY <2>1, <1>1, <1>3, <1>4, Zenon DEF Changed
  <2>2. CASE j # k
    <3>1. c[j].valid => c[j].sector \in Sectors BY <1>3, BufFields DEF Coh
    <3> QED BY <3>1, <2>2, <1>4 DEF Coh, Changed
  <2> QED BY <2>1, <2>2, Zenon
<1>7. \A x \in L \ {s} : \E j \in 1..NBUF : r[j].sector = x /\ r[j].dirty
  <2> SUFFICES ASSUME NEW x \in L \ {s} PROVE \E j \in 1..NBUF : r[j].sector = x /\ r[j].dirty BY Zenon
  <2>1. PICK j \in 1..NBUF : c[j].sector = x /\ c[j].dirty BY Zenon DEF Coh
  <2> QED BY <2>1, <1>1, <1>4, Zenon
<1>8. \A x \in B : \E j \in 1..NBUF : r[j].sector = x /\ r[j].valid
  <2> SUFFICES ASSUME NEW x \in B PROVE \E j \in 1..NBUF : r[j].sector = x /\ r[j].valid BY Zenon
  <2>1. PICK j \in 1..NBUF : c[j].sector = x /\ c[j].valid BY Zenon DEF Coh
  <2>2. CASE j = k BY <2>1, <2>2, <1>1, <1>4, Zenon
  <2>3. CASE j # k BY <2>1, <2>3, <1>4, Zenon
  <2> QED BY <2>2, <2>3, Zenon
<1>9. Coh(r, n, p, L \ {s}, B) BY <1>4, <1>5, <1>6, <1>7, <1>8, Zenon DEF Coh
<1> QED BY <1>1, <1>9, Zenon DEF m, r

-----------------------------------------------------------------------------
(***************************************************************************)
(* The steps of the log on the cache.                                      *)
(***************************************************************************)

\* binit leaves a coherent cache.
LEMMA FreshCoh == ASSUME NEW d, NEW p PROVE Coh(FreshCache, d, p, {}, {})
<1>1. Unused \in Buf BY Zenon DEF Unused, Buf, AnyData
<1>2. FreshCache \in [1..NBUF -> Buf] /\ \A i \in 1..NBUF : FreshCache[i] = Unused BY <1>1, Zenon DEF FreshCache
<1>3. Unused.sector = NoSector /\ ~Unused.valid /\ ~Unused.dirty /\ ~Unused.busy BY Zenon DEF Unused
<1> QED BY <1>2, <1>3, Zenon DEF Coh

\* read_head of initlog.
LEMMA ReadHeadCoh ==
  ASSUME disk \in [Sectors -> ValuSet(AnyData)], NEW p
  PROVE  LET c == BRead(FreshCache, HeadSector)
         IN /\ DataOf(c, HeadSector) = disk[HeadSector].cur
            /\ Coh(BRelse(c, HeadSector), disk, p, {}, {})
<1>1. Coh(FreshCache, disk, p, {}, {}) BY FreshCoh, Zenon
<1>2. CanGet(FreshCache, HeadSector)
  <2>1. 1 \in Recyclable(FreshCache) BY Constants DEF Recyclable, FreshCache, Unused
  <2> QED BY <2>1, Zenon DEF CanGet
<1> DEFINE c == BRead(FreshCache, HeadSector)
<1>3. HeadSector \in Sectors BY Zenon DEF Sectors
<1>4. Coh(c, disk, p, {}, {} \cup {HeadSector})
  <2>1. {} \in SUBSET Sectors BY Zenon
  <2> QED BY <2>1, <1>1, <1>2, <1>3, BReadCoh, Zenon
<1> HIDE DEF c
<1>5. Coh(c, disk, p, {}, {HeadSector}) BY <1>4, Zenon
<1>6. {HeadSector} \in SUBSET Sectors /\ HeadSector \in {HeadSector} BY <1>3, Zenon
<1>7. DataOf(c, HeadSector) = disk[HeadSector].cur BY <1>5, <1>6, DataOfHeld
<1>8. Coh(BRelse(c, HeadSector), disk, p, {}, {HeadSector} \ {HeadSector}) BY <1>5, <1>6, BRelseCoh, Zenon
<1> QED BY <1>7, <1>8, Zenon DEF c

\* bread, brelse.
LEMMA ReadCoh ==
  ASSUME disk \in [Sectors -> ValuSet(AnyData)], NEW p, NEW L,
         Coh(bufs, disk, p, L, {}), NEW s \in Sectors, CanGet(bufs, s)
  PROVE  /\ Coh(BRead(bufs, s), disk, p, L, {s})
         /\ Coh(BRelse(BRead(bufs, s), s), disk, p, L, {})
<1> DEFINE c == BRead(bufs, s)
<1>1. Coh(c, disk, p, L, {} \cup {s})
  <2>1. {} \in SUBSET Sectors BY Zenon
  <2> QED BY <2>1, BReadCoh, Zenon
<1> HIDE DEF c
<1>2. Coh(c, disk, p, L, {s}) BY <1>1, Zenon
<1>3. {s} \in SUBSET Sectors /\ s \in {s} BY Zenon
<1>4. Coh(BRelse(c, s), disk, p, L, {s} \ {s}) BY <1>2, <1>3, BRelseCoh, Zenon
<1> QED BY <1>2, <1>4, Zenon DEF c

\* bread, modify, log_write, brelse.
LEMMA LogWriteCoh ==
  ASSUME disk \in [Sectors -> ValuSet(AnyData)], NEW p \in [Home -> Val], NEW L \in SUBSET Home,
         Coh(bufs, disk, p, L, {}), NEW h \in Home, NEW v \in Val, CanGet(bufs, h)
  PROVE  LET c == Modify(BRead(bufs, h), h, v)
         IN Coh(BRelse([c EXCEPT ![Slot(c, h)].dirty = TRUE], h),
                disk, [p EXCEPT ![h] = v], L \cup {h}, {})
<1> DEFINE b == BRead(bufs, h)
           m == SetDirty(Modify(b, h, v), h, TRUE)
<1>0. h \in Sectors BY Zenon DEF Sectors
<1>1. Coh(b, disk, p, L, {h}) BY <1>0, ReadCoh, Zenon
<1> HIDE DEF b
<1>2. {h} \in SUBSET Sectors /\ h \in {h} BY <1>0, Zenon
<1>3. Coh(m, disk, [p EXCEPT ![h] = v], L \cup {h}, {h}) BY <1>1, <1>2, PinCoh, Zenon
<1> HIDE DEF m
<1>4. Coh(BRelse(m, h), disk, [p EXCEPT ![h] = v], L \cup {h}, {h} \ {h}) BY <1>2, <1>3, BRelseCoh, Zenon
<1>5. {h} \ {h} = {} BY Zenon
<1>6. Coh(BRelse(m, h), disk, [p EXCEPT ![h] = v], L \cup {h}, {}) BY <1>4, <1>5, Zenon
<1> QED BY <1>6, Zenon DEF m, b, SetDirty

\* A write of one sector.
Put(d, s, v) == WriteBlocks(d, [x \in {s} |-> v])

\* What a read of the sector returns.
Seen(p, L, s) == IF s \in L THEN p[s] ELSE disk[s].cur

\* One round of a copy loop.
LEMMA CopyCoh ==
  ASSUME disk \in [Sectors -> ValuSet(AnyData)], NEW p, NEW L,
         Coh(bufs, disk, p, L, {}),
         NEW from \in Sectors, NEW to \in Sectors, from # to,
         NEW first, NEW second, (first = from /\ second = to) \/ (first = to /\ second = from),
         NEW v \in AnyData, v = Seen(p, L, from),
         Copy(from, to, first, second)
  PROVE  /\ disk' = Put(disk, to, v)
         /\ Coh(bufs', disk', p, L \ {to}, {})
<1> DEFINE a == BRead(bufs, first)
           c == BRead(a, second)
           m == Modify(c, to, DataOf(c, from))
           B == {from, to}
           n == Put(disk, to, v)
<1>0. first \in Sectors /\ second \in Sectors /\ CanGet(bufs, first) /\ CanGet(a, second)
  BY Zenon DEF Copy, TwoBuffers
<1>1. Coh(a, disk, p, L, {first}) BY <1>0, ReadCoh, Zenon
<1> HIDE DEF a
<1>2. {first} \in SUBSET Sectors BY <1>0, Zenon
<1>3. Coh(c, disk, p, L, {first} \cup {second}) BY <1>0, <1>1, <1>2, BReadCoh, Zenon
<1> HIDE DEF c
<1>4. {first} \cup {second} = B BY Zenon
<1>5. B \in SUBSET Sectors /\ from \in B /\ to \in B BY Zenon
<1> HIDE DEF B
<1>6. Coh(c, disk, p, L, B) BY <1>3, <1>4, Zenon
<1>7. DataOf(c, from) = v BY <1>5, <1>6, DataOfHeld DEF Seen
<1>8. Changed(disk, n, to, v)
  BY Zenon DEF Changed, Put, WriteBlocks, Overwrite
<1> HIDE DEF n
<1>9. DataOf(m, to) = v /\ Coh(BWrite(m, to), n, p, L \ {to}, B)
  <2>1. m = Modify(c, to, v) BY <1>7, Zenon
  <2>2. DataOf(Modify(c, to, v), to) = v /\ Coh(BWrite(Modify(c, to, v), to), n, p, L \ {to}, B)
    BY <1>5, <1>6, <1>8, WriteCoh
  <2> QED BY <2>1, <2>2, Zenon
<1> HIDE DEF m
<1>10. Written(m, to) = n BY <1>9, Zenon DEF Written, n, Put
<1>11. Coh(BRelse(BWrite(m, to), from), n, p, L \ {to}, B \ {from}) BY <1>5, <1>9, BRelseCoh, Zenon
<1>12. B \ {from} \in SUBSET Sectors /\ to \in B \ {from} BY <1>5, Zenon
<1>13. Coh(BRelse(BRelse(BWrite(m, to), from), to), n, p, L \ {to}, (B \ {from}) \ {to})
  BY <1>11, <1>12, BRelseCoh, Zenon
<1>14. (B \ {from}) \ {to} = {} BY Zenon DEF B
<1>15. disk' = n /\ bufs' = BRelse(BRelse(BWrite(m, to), from), to) BY <1>10, Zenon DEF Copy, m, c, a
<1> QED BY <1>13, <1>14, <1>15, Zenon DEF n

\* write_head up to its second flush.
LEMMA PutHeadCoh ==
  ASSUME disk \in [Sectors -> ValuSet(AnyData)], NEW p, NEW L \in SUBSET Home,
         Coh(bufs, disk, p, L, {}), NEW head \in Seq(Home), PutHead(head)
  PROVE  Coh(bufs', disk', p, L, {})
<1> DEFINE b == BRead(bufs, HeadSector)
           m == Modify(b, HeadSector, head)
           n == WriteBlocks(IdeFlush(disk), [s \in {HeadSector} |-> head])
<1>0. HeadSector \in Sectors /\ head \in AnyData /\ L \ {HeadSector} = L
  BY Xv6LogAssumption, Zenon DEF Sectors, AnyData
<1>1. Coh(b, disk, p, L, {HeadSector}) BY <1>0, ReadCoh, Zenon DEF PutHead
<1> HIDE DEF b
<1>2. {HeadSector} \in SUBSET Sectors /\ HeadSector \in {HeadSector} BY <1>0, Zenon
<1>3. Changed(disk, n, HeadSector, head)
  BY <1>0, Zenon DEF Changed, WriteBlocks, Overwrite, IdeFlush, SyncBlocks, Settled
<1> HIDE DEF n
<1>4. Coh(BWrite(m, HeadSector), n, p, L \ {HeadSector}, {HeadSector}) BY <1>0, <1>1, <1>2, <1>3, WriteCoh, Zenon
<1> HIDE DEF m
<1>5. Coh(BRelse(BWrite(m, HeadSector), HeadSector), n, p, L \ {HeadSector}, {HeadSector} \ {HeadSector})
  BY <1>2, <1>4, BRelseCoh, Zenon
<1>6. {HeadSector} \ {HeadSector} = {} BY Zenon
<1>7. disk' = n /\ bufs' = BRelse(BWrite(m, HeadSector), HeadSector) BY Zenon DEF PutHead, n, m, b
<1> QED BY <1>0, <1>5, <1>6, <1>7, Zenon

\* The cache sees only what reads of the disk return.
LEMMA CohSameCur ==
  ASSUME NEW c, NEW d, NEW p, NEW L, NEW B, Coh(c, d, p, L, B),
         NEW n, \A x \in Sectors : n[x].cur = d[x].cur
  PROVE  Coh(c, n, p, L, B)
<1>1. c \in [1..NBUF -> Buf] BY Zenon DEF Coh
<1>2. \A i \in 1..NBUF : c[i].valid => c[i].sector \in Sectors BY <1>1, BufFields, Zenon DEF Coh
<1> QED BY <1>2, Zenon DEF Coh

-----------------------------------------------------------------------------
(***************************************************************************)
(* The disk.                                                               *)
(***************************************************************************)

DiskType(d) ==
  /\ d \in [Sectors -> ValuSet(AnyData)]
  /\ \A s \in Sectors : Merge(d[s]) \subseteq Contents(s)

\* A header that recovery can follow.
IsLog(q) ==
  /\ q \in Seq(Home) /\ Len(q) <= Len(LogSector) /\ Len(q) <= MAXOPBLOCKS
  /\ \A i, j \in 1..Len(q) : q[i] = q[j] => i = j

\* Whichever header a crash leaves, the log has what st holds for its sectors.
HeadOK(d, st) ==
  \A q \in Merge(d[HeadSector]) :
    IsLog(q) /\ \A i \in 1..Len(q) : d[LogSector[i]] = Settled(st[q[i]])

\* A home sector is listed in every such header or has what st holds.
HomeOK(d, st) ==
  \A h \in Home : (\A q \in Merge(d[HeadSector]) : h \in Range(q)) \/ d[h] = Settled(st[h])

Safe(d, st) == HeadOK(d, st) /\ HomeOK(d, st)

\* The regions of the disk are apart.
LEMMA Regions ==
  /\ HeadSector \in Sectors /\ HeadSector \notin Home
  /\ \A h \in Home : h \in Sectors
  /\ \A i \in 1..Len(LogSector) : LogSector[i] \in Sectors /\ LogSector[i] \notin Home /\ LogSector[i] # HeadSector
  /\ \A i, j \in 1..Len(LogSector) : LogSector[i] = LogSector[j] => i = j
BY Xv6LogAssumption, Constants DEF Sectors, LogSectors

\* The sectors that a header lists.
LEMMA LogSet ==
  ASSUME NEW q \in Seq(Home)
  PROVE  /\ Len(q) \in Nat /\ DOMAIN q = 1..Len(q)
         /\ Range(q) \in SUBSET Home
         /\ \A h : h \in Range(q) <=> \E i \in 1..Len(q) : q[i] = h
         /\ \A i \in 1..Len(q) : q[i] \in Home
BY DEF Range

\* The numbers up to n are n.
LEMMA UpTo == ASSUME NEW n \in Nat PROVE IsFiniteSet(1..n) /\ Cardinality(1..n) = n
<1>1. 1 \in Int /\ n \in Int OBVIOUS
<1>2. IsFiniteSet(1..n) /\ Cardinality(1..n) = IF 1 > n THEN 0 ELSE n - 1 + 1 BY <1>1, FS_Interval, Zenon
<1> QED BY <1>2

\* A list of different sectors has as many entries as sectors.
LEMMA LogCard ==
  ASSUME NEW q \in Seq(Home), \A i, j \in 1..Len(q) : q[i] = q[j] => i = j
  PROVE  IsFiniteSet(Range(q)) /\ Cardinality(Range(q)) = Len(q)
<1>1. Len(q) \in Nat /\ DOMAIN q = 1..Len(q) /\ q = [i \in 1..Len(q) |-> q[i]] OBVIOUS
<1>2. q \in Bijection(1..Len(q), Range(q))
  BY <1>1, Zenon DEF Bijection, Injection, IsInjective, Surjection, Range
<1>3. IsFiniteSet(1..Len(q)) /\ Cardinality(1..Len(q)) = Len(q) BY <1>1, UpTo, Zenon
<1> QED BY <1>2, <1>3, FS_Bijection, Zenon DEF ExistsBijection

\* The empty header.
LEMMA EmptyLog == IsLog(<<>>) /\ Len(<<>>) = 0 /\ Range(<<>>) = {}
<1>1. <<>> \in Seq(Home) /\ Len(<<>>) = 0 OBVIOUS
<1>2. Range(<<>>) = {} BY DEF Range
<1> QED BY <1>1, <1>2, Constants DEF IsLog

\* A header that lists sectors.
LEMMA NonEmptyLog ==
  ASSUME NEW q \in Seq(Home), q # <<>>
  PROVE  Len(q) \in Nat /\ Len(q) > 0 /\ 1 \in 1..Len(q)
OBVIOUS

\* A settled block has one value.
LEMMA SettledCur == \A v : Settled(v).cur = v /\ Merge(Settled(v)) = {v}
BY Zenon DEF Settled, Merge

\* What a crash leaves: each sector has one of its values, and only that.
LEMMA CrashForm ==
  ASSUME NEW d, DiskType(d), NEW f \in CrashOutcomes(d)
  PROVE  /\ DOMAIN f = Sectors
         /\ \A s \in Sectors : f[s] \in Merge(d[s]) /\ f[s] \in Contents(s)
         /\ DiskType(Flushed(f))
         /\ \A s \in Sectors : Flushed(f)[s] = Settled(f[s]) /\ Latest(Flushed(f))[s] = f[s]
         /\ Latest(Flushed(f)) = f
<1>1. DOMAIN d = Sectors BY Zenon DEF DiskType
<1>2. f \in [Sectors -> UNION {Merge(d[a]) : a \in Sectors}] /\ \A s \in Sectors : f[s] \in Merge(d[s])
  BY <1>1, Zenon DEF CrashOutcomes
<1>3. \A s \in Sectors : f[s] \in Contents(s) BY <1>2, Zenon DEF DiskType
<1>4. \A s \in Sectors : Contents(s) \subseteq AnyData BY Zenon DEF Contents, AnyData
<1>5. \A s \in Sectors : Settled(f[s]) \in ValuSet(AnyData) /\ Merge(Settled(f[s])) = {f[s]}
  BY <1>3, <1>4, Zenon DEF Settled, ValuSet, Merge
<1>6. Flushed(f) = [s \in Sectors |-> Settled(f[s])] BY <1>2, Zenon DEF Flushed
<1>7. DiskType(Flushed(f)) BY <1>3, <1>5, <1>6, Zenon DEF DiskType
<1>8. \A s \in Sectors : Flushed(f)[s].cur = f[s] BY <1>6 DEF Settled
<1>9. Latest(Flushed(f)) = [s \in Sectors |-> f[s]] BY <1>6, <1>8, Zenon DEF Latest
<1> QED BY <1>2, <1>3, <1>6, <1>7, <1>9, Zenon

\* Recovery of a disk whose header is a log.
LEMMA ReplayedIs ==
  ASSUME NEW f, NEW st \in [Home -> Val], IsLog(f[HeadSector]),
         \A i \in 1..Len(f[HeadSector]) : f[LogSector[i]] = st[f[HeadSector][i]],
         \A h \in Home : h \in Range(f[HeadSector]) \/ f[h] = st[h]
  PROVE  Replayed(f) = st
<1> DEFINE q == f[HeadSector]
<1>1. q \in Seq(Home) BY Zenon DEF IsLog
<1>2. DOMAIN q = 1..Len(q) /\ \A h : h \in Range(q) <=> \E i \in 1..Len(q) : q[i] = h BY <1>1, LogSet, Zenon
<1>3. ASSUME NEW h \in Home
      PROVE  (IF h \in Range(q) THEN f[LogSector[CHOOSE i \in DOMAIN q : q[i] = h]] ELSE f[h]) = st[h]
  <2>1. CASE h \in Range(q)
    <3> DEFINE i == CHOOSE i \in DOMAIN q : q[i] = h
    <3>1. i \in 1..Len(q) /\ q[i] = h BY <2>1, <1>2, Zenon
    <3> HIDE DEF i
    <3>2. f[LogSector[i]] = st[h] BY <3>1, Zenon
    <3> QED BY <3>2, <2>1, Zenon DEF i
  <2>2. CASE h \notin Range(q) BY <2>2, Zenon
  <2> QED BY <2>1, <2>2, Zenon
<1>4. Replayed(f) = [h \in Home |-> st[h]] BY <1>3, Zenon DEF Replayed
<1> QED BY <1>4, Zenon

\* A crash of a safe disk leaves a safe disk, from which recovery rebuilds st.
LEMMA SafeCrash ==
  ASSUME NEW d, DiskType(d), NEW st \in [Home -> Val], Safe(d, st), NEW f \in CrashOutcomes(d)
  PROVE  Replayed(f) = st /\ Safe(Flushed(f), st)
<1> DEFINE q == f[HeadSector]
           n == Flushed(f)
<1>1. \A s \in Sectors : f[s] \in Merge(d[s]) /\ n[s] = Settled(f[s]) BY CrashForm, Zenon
<1>0. \A v : Merge(Settled(v)) = {v} BY SettledCur, Zenon
<1>2. q \in Merge(d[HeadSector]) /\ Merge(n[HeadSector]) = {q}
  <2>1. HeadSector \in Sectors BY Regions, Zenon
  <2>2. n[HeadSector] = Settled(q) BY <1>1, <2>1, Zenon
  <2> QED BY <1>1, <1>0, <2>1, <2>2, Zenon
<1>3. IsLog(q) /\ \A i \in 1..Len(q) : d[LogSector[i]] = Settled(st[q[i]]) BY <1>2, Zenon DEF Safe, HeadOK
<1>4. \A v, s : s \in Sectors /\ d[s] = Settled(v) => f[s] = v /\ n[s] = Settled(v)
  <2> HIDE DEF n
  <2> QED BY <1>0, <1>1, Zenon
<1>5. ASSUME NEW i \in 1..Len(q) PROVE f[LogSector[i]] = st[q[i]] /\ n[LogSector[i]] = Settled(st[q[i]])
  <2>1. i \in 1..Len(LogSector)
    <3>1. Len(q) \in Nat /\ Len(q) <= Len(LogSector) BY <1>3, LogSet, Zenon DEF IsLog
    <3> QED BY <3>1, Constants
  <2> QED BY <2>1, <1>3, <1>4, Regions, Zenon
<1>6. ASSUME NEW h \in Home PROVE h \in Range(q) \/ (f[h] = st[h] /\ n[h] = Settled(st[h]))
  BY <1>2, <1>4, Regions, Zenon DEF Safe, HomeOK
<1>7. Replayed(f) = st BY <1>3, <1>5, <1>6, ReplayedIs
<1> HIDE DEF q, n
<1>8. HeadOK(n, st) BY <1>2, <1>3, <1>5, Zenon DEF HeadOK
<1>9. HomeOK(n, st) BY <1>2, <1>6, Zenon DEF HomeOK
<1> QED BY <1>7, <1>8, <1>9, Zenon DEF Safe, n

\* ideflush leaves the latest value of each sector.
LEMMA FlushForm ==
  ASSUME NEW d, DiskType(d)
  PROVE  /\ DiskType(IdeFlush(d))
         /\ \A s \in Sectors : IdeFlush(d)[s] = Settled(d[s].cur) /\ IdeFlush(d)[s].cur = d[s].cur
<1>1. IdeFlush(d) = [s \in Sectors |-> Settled(d[s].cur)] BY Zenon DEF IdeFlush, SyncBlocks, DiskType
<1>2. \A s \in Sectors : /\ Settled(d[s].cur) \in ValuSet(AnyData) /\ Settled(d[s].cur).cur = d[s].cur
                         /\ Merge(Settled(d[s].cur)) \subseteq Merge(d[s])
  BY Zenon DEF DiskType, Settled, ValuSet, Merge
<1> QED BY <1>1, <1>2, Zenon DEF DiskType

\* A write changes one sector and keeps what a crash could expose of it.
LEMMA WriteForm ==
  ASSUME NEW d, DiskType(d), NEW s \in Sectors, NEW v \in Contents(s)
  PROVE  /\ DiskType(Put(d, s, v))
         /\ Put(d, s, v)[s] = Overwrite(d[s], v) /\ Put(d, s, v)[s].cur = v
         /\ \A x \in Sectors : x # s => Put(d, s, v)[x] = d[x]
<1> DEFINE n == Put(d, s, v)
<1>1. n = [x \in Sectors |-> IF x = s THEN Overwrite(d[x], v) ELSE d[x]]
  BY Zenon DEF Put, WriteBlocks, DiskType
<1>2. v \in AnyData
  <2>1. Contents(s) \subseteq AnyData BY Zenon DEF Contents, AnyData
  <2> QED BY <2>1, Zenon
<1>3. Overwrite(d[s], v) \in ValuSet(AnyData) /\ Overwrite(d[s], v).cur = v
      /\ Merge(Overwrite(d[s], v)) = {v} \cup Merge(d[s])
  <2>1. d[s].cur \in AnyData /\ d[s].old \in SUBSET AnyData BY Zenon DEF DiskType, ValuSet
  <2> QED BY <2>1, <1>2, Zenon DEF Overwrite, ValuSet, Merge
<1> HIDE DEF n
<1>4. n[s] = Overwrite(d[s], v) /\ \A x \in Sectors : x # s => n[x] = d[x] BY <1>1, Zenon
<1>5. n \in [Sectors -> ValuSet(AnyData)] BY <1>1, <1>3, Zenon DEF DiskType
<1>6. ASSUME NEW x \in Sectors PROVE Merge(n[x]) \subseteq Contents(x)
  <2>1. CASE x = s BY <2>1, <1>3, <1>4, Zenon DEF DiskType
  <2>2. CASE x # s BY <2>2, <1>4, Zenon DEF DiskType
  <2> QED BY <2>1, <2>2, Zenon
<1> QED BY <1>3, <1>4, <1>5, <1>6, Zenon DEF DiskType, n

-----------------------------------------------------------------------------
(***************************************************************************)
(* The inductive invariant: what holds at each point of log.c.             *)
(***************************************************************************)

StateType ==
  /\ DiskType(disk)
  /\ stable \in [Home -> Val] /\ pending \in [Home -> Val]
  /\ IsLog(lh)
  /\ pc \in {"down", "idle", "op", "writelog", "head", "headflush", "install", "clear", "clearflush"}

HomeSettled == \A h \in Home : disk[h] = Settled(stable[h])

\* The transaction is in the pinned buffers only.
InMemory ==
  /\ HomeSettled
  /\ \A h \in Home : h \notin Range(lh) => pending[h] = stable[h]
  /\ Coh(bufs, disk, pending, Range(lh), {})

\* The log blocks before i have the data of the transaction.
Logged(i) == \A k \in 1..Len(lh) : k < i => disk[LogSector[k]].cur = pending[lh[k]]

AtDown == pending = stable /\ bufs = FreshCache /\ \A s \in Sectors : disk[s] = Settled(disk[s].cur)

AtRun == InMemory /\ disk[HeadSector] = Settled(<<>>)

AtWriteLog == AtRun /\ tail \in 1..Len(lh) /\ Logged(tail)

AtHead == AtRun /\ lh # <<>> /\ Logged(Len(lh) + 1)

AtHeadFlush ==
  /\ InMemory /\ lh # <<>>
  /\ disk[HeadSector] = Overwrite(Settled(<<>>), lh)
  /\ \A k \in 1..Len(lh) : disk[LogSector[k]] = Settled(pending[lh[k]])

AtInstall ==
  /\ pending = stable
  /\ disk[HeadSector] = Settled(lh)
  /\ tail \in 1..Len(lh)
  /\ \A k \in 1..Len(lh) : k < tail => disk[lh[k]].cur = stable[lh[k]]
  /\ \E L \in SUBSET {lh[k] : k \in tail..Len(lh)} : Coh(bufs, disk, pending, L, {})

AtClear ==
  /\ pending = stable
  /\ disk[HeadSector] = Settled(lh)
  /\ \A h \in Home : disk[h].cur = stable[h]
  /\ Coh(bufs, disk, pending, {}, {})

AtClearFlush ==
  /\ pending = stable /\ lh = <<>>
  /\ disk[HeadSector].cur = <<>>
  /\ HomeSettled
  /\ Coh(bufs, disk, pending, {}, {})

IInv ==
  /\ StateType
  /\ pc # "headflush" => Safe(disk, stable)
  /\ pc = "down" => AtDown
  /\ pc \in {"idle", "op"} => AtRun
  /\ pc = "writelog" => AtWriteLog
  /\ pc = "head" => AtHead
  /\ pc = "headflush" => AtHeadFlush
  /\ pc = "install" => AtInstall
  /\ pc = "clear" => AtClear
  /\ pc = "clearflush" => AtClearFlush

-----------------------------------------------------------------------------
\* When the header is settled and empty and the home sectors are settled.
LEMMA SafeEmpty ==
  ASSUME NEW d, NEW st, d[HeadSector] = Settled(<<>>), \A h \in Home : d[h] = Settled(st[h])
  PROVE  Safe(d, st)
<1>1. Merge(d[HeadSector]) = {<<>>} BY DEF Merge, Settled
<1> QED BY <1>1, EmptyLog DEF Safe, HeadOK, HomeOK

\* A new disk satisfies the invariant.
LEMMA InitIInv == Init => IInv
<1> SUFFICES ASSUME Init PROVE IInv BY Zenon
<1> DEFINE f == [s \in Sectors |-> IF s = HeadSector THEN <<>> ELSE InitVal]
<1>1. \A s \in Sectors : f[s] \in Contents(s)
  <2>1. InitVal \in Val /\ <<>> \in Seq(Home) BY Xv6LogAssumption
  <2> QED BY <2>1, Zenon DEF Contents
<1>2. \A s \in Sectors : disk[s] = Settled(f[s]) /\ disk[s].cur = f[s] BY Zenon DEF Init, Flushed, Settled
<1>3. disk = [s \in Sectors |-> Settled(f[s])] BY Zenon DEF Init, Flushed
<1> HIDE DEF f
<1>4. \A s \in Sectors : Contents(s) \subseteq AnyData BY Zenon DEF Contents, AnyData
<1>5. \A s \in Sectors : Settled(f[s]) \in ValuSet(AnyData) /\ Merge(Settled(f[s])) = {f[s]}
  BY <1>1, <1>4, Zenon DEF Settled, ValuSet, Merge
<1>6. DiskType(disk) BY <1>1, <1>3, <1>5 DEF DiskType
<1>7. disk[HeadSector] = Settled(<<>>) /\ \A h \in Home : disk[h] = Settled(stable[h])
  BY <1>2, Regions, Zenon DEF Init, f
<1>8. Safe(disk, stable) BY <1>7, SafeEmpty, Zenon
<1>9. StateType BY <1>6, EmptyLog, Xv6LogAssumption, Zenon DEF StateType, Init
<1>10. AtDown BY <1>2, Zenon DEF AtDown, Init
<1> QED BY <1>8, <1>9, <1>10, Zenon DEF IInv, Init

\* A step that changes nothing keeps the invariant.
LEMMA StutterIInv == ASSUME IInv, UNCHANGED vars PROVE IInv'
<1>1. /\ disk' = disk /\ bufs' = bufs /\ lh' = lh /\ pc' = pc /\ tail' = tail
      /\ stable' = stable /\ pending' = pending
  BY Zenon DEF vars
<1>2. StateType' /\ (pc' # "headflush" => Safe(disk', stable')) BY <1>1, Zenon DEF IInv, StateType
<1>3. InMemory' = InMemory BY <1>1, Zenon DEF InMemory, HomeSettled
<1>4. AtDown' = AtDown /\ AtRun' = AtRun BY <1>1, <1>3, Zenon DEF AtDown, AtRun
<1>5. AtWriteLog' = AtWriteLog /\ AtHead' = AtHead BY <1>1, <1>4, Zenon DEF AtWriteLog, AtHead, Logged
<1>6. AtHeadFlush' = AtHeadFlush BY <1>1, <1>3, Zenon DEF AtHeadFlush
<1>7. ASSUME AtInstall PROVE AtInstall' BY <1>1, <1>7 DEF AtInstall
<1>8. AtClear' = AtClear /\ AtClearFlush' = AtClearFlush
  BY <1>1, Zenon DEF AtClear, AtClearFlush, HomeSettled
<1> QED BY <1>1, <1>2, <1>4, <1>5, <1>6, <1>7, <1>8, Zenon DEF IInv

\* initlog reads the header that a crash left: a log that can be installed.
LEMMA InitLogIInv == ASSUME IInv, InitLog PROVE IInv'
<1>1. DiskType(disk) /\ Safe(disk, stable) /\ AtDown /\ StateType BY Zenon DEF IInv, InitLog, StateType
<1>2. disk' = disk /\ stable' = stable /\ pending' = pending /\ tail' = 1 BY Zenon DEF InitLog
<1>3. /\ lh' = disk[HeadSector].cur /\ Coh(bufs', disk, pending, {}, {})
  <2>1. disk \in [Sectors -> ValuSet(AnyData)] BY <1>1, Zenon DEF DiskType
  <2> QED BY <2>1, ReadHeadCoh, Zenon DEF InitLog
<1>4. disk[HeadSector] = Settled(lh') BY <1>1, <1>3, Regions, Zenon DEF AtDown
<1>5. Merge(disk[HeadSector]) = {lh'} BY <1>4 DEF Merge, Settled
<1>6. IsLog(lh') /\ \A h \in Home : h \in Range(lh') \/ disk[h] = Settled(stable[h])
  BY <1>1, <1>5, Zenon DEF Safe, HeadOK, HomeOK
<1>7. StateType' BY <1>1, <1>2, <1>6, Zenon DEF StateType, InitLog
<1>8. CASE lh' = <<>>
  <2>1. pc' = "clear" BY <1>8, Zenon DEF InitLog
  <2>2. \A h \in Home : disk[h].cur = stable[h]
    <3>1. \A h \in Home : disk[h] = Settled(stable[h]) BY <1>6, <1>8, EmptyLog, Zenon
    <3> QED BY <3>1, SettledCur, Zenon
  <2>3. AtClear' BY <1>1, <1>2, <1>3, <1>4, <2>2, Zenon DEF AtClear, AtDown
  <2> QED BY <1>1, <1>2, <1>7, <2>1, <2>3, Zenon DEF IInv
<1>9. CASE lh' # <<>>
  <2>1. pc' = "install" BY <1>9, Zenon DEF InitLog
  <2>2. lh' \in Seq(Home) BY <1>6, Zenon DEF IsLog
  <2>3. 1 \in 1..Len(lh') /\ Len(lh') \in Nat BY <2>2, <1>9, NonEmptyLog, Zenon
  <2>4. AtInstall'
    <3>1. {} \in SUBSET {lh'[k] : k \in 1..Len(lh')} BY Zenon
    <3>2. \E L \in SUBSET {lh'[k] : k \in tail'..Len(lh')} : Coh(bufs', disk', pending', L, {})
      BY <3>1, <1>2, <1>3, Zenon
    <3> QED BY <3>2, <1>1, <1>2, <1>4, <2>3 DEF AtInstall, AtDown
  <2> QED BY <1>1, <1>2, <1>7, <2>1, <2>4, Zenon DEF IInv
<1> QED BY <1>8, <1>9, Zenon

\* begin_op keeps the invariant.
LEMMA BeginOpIInv == ASSUME IInv, BeginOp PROVE IInv'
<1>1. /\ pc = "idle" /\ pc' = "op"
      /\ disk' = disk /\ bufs' = bufs /\ lh' = lh /\ stable' = stable /\ pending' = pending
  BY Zenon DEF BeginOp
<1> QED BY <1>1, Zenon DEF IInv, StateType, AtRun, InMemory, HomeSettled

\* end_op keeps the invariant, and starts write_log with a sector to copy.
LEMMA EndOpIInv == ASSUME IInv, EndOp PROVE IInv'
<1>1. /\ pc = "op" /\ pc' \in {"idle", "writelog"}
      /\ disk' = disk /\ bufs' = bufs /\ lh' = lh /\ stable' = stable /\ pending' = pending
  BY Zenon DEF EndOp
<1>2. AtRun /\ AtRun' BY <1>1, Zenon DEF IInv, AtRun, InMemory, HomeSettled
<1>3. StateType' /\ Safe(disk', stable') BY <1>1, Zenon DEF IInv, StateType
<1>4. CASE pc' = "idle" BY <1>2, <1>3, <1>4, Zenon DEF IInv
<1>5. CASE pc' = "writelog"
  <2>1. lh # <<>> /\ tail' = 1 BY <1>5, Zenon DEF EndOp
  <2>2. lh \in Seq(Home) BY Zenon DEF IInv, StateType, IsLog
  <2>3. 1 \in 1..Len(lh) /\ Len(lh) \in Nat BY <2>1, <2>2, NonEmptyLog, Zenon
  <2>4. AtWriteLog' BY <1>1, <1>2, <2>1, <2>3 DEF AtWriteLog, Logged
  <2> QED BY <1>3, <1>5, <2>4, Zenon DEF IInv
<1> QED BY <1>1, <1>4, <1>5, Zenon

\* A read of a system call keeps the invariant.
LEMMA ReadIInv == ASSUME IInv, NEW h \in Home, Read(h) PROVE IInv'
<1>1. /\ pc = "op" /\ pc' = "op" /\ CanGet(bufs, h)
      /\ disk' = disk /\ lh' = lh /\ stable' = stable /\ pending' = pending
      /\ bufs' = BRelse(BRead(bufs, h), h)
  BY Zenon DEF Read
<1>2. AtRun /\ Coh(bufs, disk, pending, Range(lh), {}) BY <1>1, Zenon DEF IInv, AtRun, InMemory
<1>3. Coh(bufs', disk, pending, Range(lh), {})
  <2>1. disk \in [Sectors -> ValuSet(AnyData)] /\ h \in Sectors BY Regions, Zenon DEF IInv, StateType, DiskType
  <2> QED BY <2>1, <1>1, <1>2, ReadCoh, Zenon
<1>4. AtRun' BY <1>1, <1>2, <1>3, Zenon DEF AtRun, InMemory, HomeSettled
<1> QED BY <1>1, <1>4, Zenon DEF IInv, StateType

\* log_write lists a sector once, within the log, and pins its buffer.
LEMMA LogWriteIInv == ASSUME IInv, NEW h \in Home, NEW v \in Val, LogWrite(h, v) PROVE IInv'
<1>1. /\ pc = "op" /\ pc' = "op" /\ CanGet(bufs, h) /\ ~LogRefuses
      /\ disk' = disk /\ stable' = stable /\ pending' = [pending EXCEPT ![h] = v]
      /\ lh' = IF h \in Range(lh) THEN lh ELSE Append(lh, h)
      /\ Cardinality(Range(lh) \cup {h}) <= MAXOPBLOCKS
  BY Zenon DEF LogWrite
<1>2. AtRun /\ Coh(bufs, disk, pending, Range(lh), {}) BY <1>1, Zenon DEF IInv, AtRun, InMemory
<1>3. IsLog(lh) /\ lh \in Seq(Home) /\ pending \in [Home -> Val] BY Zenon DEF IInv, StateType, IsLog
<1>4. IsLog(lh') /\ Range(lh') = Range(lh) \cup {h}
  <2>1. CASE h \in Range(lh) BY <2>1, <1>1, <1>3, Zenon
  <2>2. CASE h \notin Range(lh)
    <3>1. lh' = Append(lh, h) BY <2>2, <1>1, Zenon
    <3>2. /\ Len(lh) \in Nat /\ lh' \in Seq(Home) /\ Len(lh') = Len(lh) + 1
          /\ lh'[Len(lh) + 1] = h /\ \A i \in 1..Len(lh) : lh'[i] = lh[i]
      BY <3>1, <1>3
    <3>3. \A x : x \in Range(lh) <=> \E i \in 1..Len(lh) : lh[i] = x BY <1>3, LogSet, Zenon
    <3>4. \A x : x \in Range(lh') <=> \E i \in 1..Len(lh') : lh'[i] = x BY <3>2, LogSet, Zenon
    <3>5. Range(lh') = Range(lh) \cup {h} BY <3>2, <3>3, <3>4
    <3>6. Len(lh') <= Len(LogSector)
      <4>1. Len(lh) < (Len(LogSector) + 1) - 1 BY <1>1, <3>2, Constants DEF LogRefuses, LogSpace
      <4> QED BY <4>1, <3>2, Constants
    <3>7. \A i, j \in 1..Len(lh') : lh'[i] = lh'[j] => i = j BY <2>2, <1>3, <3>2, <3>3 DEF IsLog
    <3>8. Len(lh') <= MAXOPBLOCKS BY <1>1, <3>2, <3>5, <3>7, LogCard
    <3> QED BY <3>2, <3>5, <3>6, <3>7, <3>8, Zenon DEF IsLog
  <2> QED BY <2>1, <2>2, Zenon
<1>5. Coh(bufs', disk, pending', Range(lh'), {})
  <2>1. disk \in [Sectors -> ValuSet(AnyData)] BY Zenon DEF IInv, StateType, DiskType
  <2>2. Range(lh) \in SUBSET Home BY <1>3, LogSet, Zenon
  <2>3. Coh(bufs', disk, [pending EXCEPT ![h] = v], Range(lh) \cup {h}, {})
    BY <2>1, <2>2, <1>1, <1>2, <1>3, LogWriteCoh, Zenon DEF LogWrite
  <2> QED BY <2>3, <1>1, <1>4, Zenon
<1>6. \A x \in Home : x \notin Range(lh') => pending'[x] = stable[x]
  BY <1>1, <1>2, <1>3, <1>4, Zenon DEF AtRun, InMemory
<1>7. AtRun' BY <1>1, <1>2, <1>5, <1>6, Zenon DEF AtRun, InMemory, HomeSettled
<1>8. StateType' BY <1>1, <1>3, <1>4, Zenon DEF IInv, StateType
<1> QED BY <1>1, <1>7, <1>8, Zenon DEF IInv

\* The loop index of a copy loop.
LEMMA LoopIndex ==
  ASSUME StateType, tail \in 1..Len(lh)
  PROVE  /\ Len(lh) \in Nat /\ tail \in 1..Len(LogSector)
         /\ lh[tail] \in Home /\ lh[tail] \in Sectors /\ LogSector[tail] \in Sectors
         /\ \A i, j \in 1..Len(lh) : lh[i] = lh[j] => i = j
         /\ \A i \in 1..Len(lh) : i \in 1..Len(LogSector) /\ lh[i] \in Home
         /\ (tail # Len(lh) => tail + 1 \in 1..Len(lh))
<1>1. lh \in Seq(Home) /\ Len(lh) <= Len(LogSector) /\ \A i, j \in 1..Len(lh) : lh[i] = lh[j] => i = j
  BY Zenon DEF StateType, IsLog
<1>2. Len(lh) \in Nat /\ \A i \in 1..Len(lh) : lh[i] \in Home BY <1>1, LogSet, Zenon
<1>3. \A i \in 1..Len(lh) : i \in 1..Len(LogSector) BY <1>1, <1>2, Constants
<1>4. tail # Len(lh) => tail + 1 \in 1..Len(lh) BY <1>2
<1> QED BY <1>1, <1>2, <1>3, <1>4, Regions, Zenon

\* write_log copies one more pinned buffer to the log.
LEMMA WriteLogIInv == ASSUME IInv, WriteLog PROVE IInv'
<1> DEFINE to == LogSector[tail]
           from == lh[tail]
<1>1. /\ pc = "writelog" /\ lh' = lh /\ stable' = stable /\ pending' = pending /\ tail' = tail + 1
      /\ pc' = (IF tail = Len(lh) THEN "head" ELSE "writelog")
  BY Zenon DEF WriteLog, Advance
<1>2. StateType /\ AtWriteLog /\ DiskType(disk) /\ tail \in 1..Len(lh) BY <1>1, Zenon DEF IInv, StateType, AtWriteLog
<1>3. /\ Len(lh) \in Nat /\ tail \in 1..Len(LogSector)
      /\ lh[tail] \in Home /\ from \in Sectors /\ to \in Sectors
      /\ \A i \in 1..Len(lh) : i \in 1..Len(LogSector) /\ lh[i] \in Home
      /\ (tail # Len(lh) => tail + 1 \in 1..Len(lh))
  BY <1>2, LoopIndex, Zenon
<1>4. from \in Range(lh) /\ Range(lh) \in SUBSET Home /\ to \notin Range(lh) /\ from # to
  BY <1>2, <1>3, LogSet, Regions, Zenon DEF StateType, IsLog
<1> DEFINE v == pending[from]
<1>5. v \in Val /\ v \in AnyData /\ v \in Contents(to) BY <1>2, <1>3, Regions, Zenon DEF StateType, AnyData, Contents
<1>6. Coh(bufs, disk, pending, Range(lh), {}) /\ disk \in [Sectors -> ValuSet(AnyData)]
  BY <1>2, Zenon DEF AtWriteLog, AtRun, InMemory, DiskType
<1>7. Copy(from, to, to, from) BY Zenon DEF WriteLog
<1> HIDE DEF to, from
<1>8. disk' = Put(disk, to, v) /\ Coh(bufs', disk', pending, Range(lh) \ {to}, {})
  <2>2. v = Seen(pending, Range(lh), from) BY <1>4, Zenon DEF Seen
  <2> HIDE DEF v
  <2> QED BY <2>2, <1>3, <1>4, <1>5, <1>6, <1>7, CopyCoh
<1>9. Coh(bufs', disk', pending, Range(lh), {})
  <2>1. Range(lh) \ {to} = Range(lh) BY <1>4, Zenon
  <2> QED BY <2>1, <1>8, Zenon
<1> HIDE DEF v
<1>10. DiskType(disk') /\ disk'[to].cur = v /\ \A x \in Sectors : x # to => disk'[x] = disk[x]
  BY <1>2, <1>3, <1>5, <1>8, WriteForm
<1>11. disk'[HeadSector] = Settled(<<>>) /\ \A h \in Home : disk'[h] = Settled(stable[h])
  BY <1>2, <1>3, <1>10, Regions, Zenon DEF to, AtWriteLog, AtRun, InMemory, HomeSettled
<1>12. Safe(disk', stable') BY <1>1, <1>11, SafeEmpty, Zenon
<1>13. StateType' BY <1>1, <1>2, <1>10, Zenon DEF StateType
<1>14. AtRun' BY <1>1, <1>2, <1>9, <1>11, Zenon DEF AtWriteLog, AtRun, InMemory, HomeSettled
<1>15. \A k \in 1..Len(lh) : k < tail + 1 => disk'[LogSector[k]].cur = pending[lh[k]]
  <2> SUFFICES ASSUME NEW k \in 1..Len(lh), k < tail + 1 PROVE disk'[LogSector[k]].cur = pending[lh[k]] BY Zenon
  <2>1. CASE k = tail BY <2>1, <1>10, Zenon DEF to, from, v
  <2>2. CASE k # tail
    <3>1. k < tail BY <2>2, <1>2, <1>3
    <3>2. LogSector[k] \in Sectors /\ LogSector[k] # to BY <2>2, <1>3, Regions, Zenon DEF to
    <3> QED BY <3>1, <3>2, <1>2, <1>10, Zenon DEF AtWriteLog, Logged
  <2> QED BY <2>1, <2>2, Zenon
<1>16. CASE tail = Len(lh)
  <2>1. lh # <<>> BY <1>2, EmptyLog
  <2>2. AtHead' BY <2>1, <1>1, <1>14, <1>15, <1>16, Zenon DEF AtHead, Logged
  <2> QED BY <2>2, <1>1, <1>12, <1>13, <1>16 DEF IInv
<1>17. CASE tail # Len(lh)
  <2>1. AtWriteLog' BY <1>1, <1>3, <1>14, <1>15, <1>17 DEF AtWriteLog, Logged
  <2> QED BY <2>1, <1>1, <1>12, <1>13, <1>17 DEF IInv
<1> QED BY <1>16, <1>17, Zenon

\* What write_head leaves on the disk.
LEMMA PutHeadForm ==
  ASSUME DiskType(disk), NEW head \in Seq(Home), PutHead(head)
  PROVE  /\ DiskType(disk')
         /\ disk'[HeadSector] = Overwrite(Settled(disk[HeadSector].cur), head)
         /\ \A x \in Sectors : x # HeadSector => disk'[x] = Settled(disk[x].cur)
<1> DEFINE d == IdeFlush(disk)
<1>1. disk' = Put(d, HeadSector, head) BY Zenon DEF PutHead, Put
<1>2. DiskType(d) /\ \A s \in Sectors : d[s] = Settled(disk[s].cur) BY FlushForm, Zenon
<1>3. HeadSector \in Sectors /\ head \in Contents(HeadSector) BY Regions, Zenon DEF Contents
<1> HIDE DEF d
<1>4. /\ DiskType(disk') /\ disk'[HeadSector] = Overwrite(d[HeadSector], head)
      /\ \A x \in Sectors : x # HeadSector => disk'[x] = d[x]
  BY <1>1, <1>2, <1>3, WriteForm
<1> QED BY <1>2, <1>3, <1>4, Zenon

\* write_head flushes the log before it writes the header.
LEMMA WriteHeadIInv == ASSUME IInv, WriteHead PROVE IInv'
<1>1. /\ pc = "head" /\ lh' = lh /\ stable' = stable /\ pending' = pending /\ pc' = "headflush" /\ PutHead(lh)
  BY Zenon DEF WriteHead
<1>2. StateType /\ AtHead /\ DiskType(disk) /\ IsLog(lh) /\ lh \in Seq(Home)
  BY <1>1, Zenon DEF IInv, StateType, IsLog
<1>3. /\ DiskType(disk') /\ disk'[HeadSector] = Overwrite(Settled(disk[HeadSector].cur), lh)
      /\ \A x \in Sectors : x # HeadSector => disk'[x] = Settled(disk[x].cur)
  BY <1>1, <1>2, PutHeadForm, Zenon
<1>4. disk[HeadSector] = Settled(<<>>) /\ disk[HeadSector].cur = <<>> BY <1>2 DEF AtHead, AtRun, Settled
<1>5. Coh(bufs', disk', pending, Range(lh), {})
  <2>1. Range(lh) \in SUBSET Home BY <1>2, LogSet, Zenon
  <2>2. disk \in [Sectors -> ValuSet(AnyData)] BY <1>2, Zenon DEF DiskType
  <2>3. Coh(bufs, disk, pending, Range(lh), {}) BY <1>2, Zenon DEF AtHead, AtRun, InMemory
  <2> QED BY <2>1, <2>2, <2>3, <1>1, <1>2, PutHeadCoh, Zenon
<1>6. \A h \in Home : disk'[h] = Settled(stable[h])
  <2>1. \A h \in Home : disk[h] = Settled(stable[h]) BY <1>2, Zenon DEF AtHead, AtRun, InMemory, HomeSettled
  <2>2. \A h \in Home : disk[h].cur = stable[h] BY <2>1, SettledCur, Zenon
  <2> QED BY <2>2, <1>3, Regions, Zenon
<1>7. \A k \in 1..Len(lh) : disk'[LogSector[k]] = Settled(pending[lh[k]])
  <2> SUFFICES ASSUME NEW k \in 1..Len(lh) PROVE disk'[LogSector[k]] = Settled(pending[lh[k]]) BY Zenon
  <2>1. Len(lh) \in Nat /\ k < Len(lh) + 1 /\ k \in 1..Len(LogSector) BY <1>2, LogSet, Constants DEF IsLog
  <2>2. disk[LogSector[k]].cur = pending[lh[k]] BY <2>1, <1>2, Zenon DEF AtHead, Logged
  <2> QED BY <2>1, <2>2, <1>3, Regions, Zenon
<1>8. InMemory' BY <1>1, <1>2, <1>5, <1>6, Zenon DEF AtHead, AtRun, InMemory, HomeSettled
<1>9. AtHeadFlush' BY <1>1, <1>2, <1>3, <1>4, <1>7, <1>8, Zenon DEF AtHead, AtHeadFlush
<1>10. StateType' BY <1>1, <1>2, <1>3, Zenon DEF StateType
<1> QED BY <1>1, <1>9, <1>10, Zenon DEF IInv

\* The second flush of write_head commits.
LEMMA WriteHeadFlushIInv == ASSUME IInv, WriteHeadFlush PROVE IInv'
<1>1. /\ pc = "headflush" /\ disk' = IdeFlush(disk) /\ stable' = pending /\ pc' = "install" /\ tail' = 1
      /\ bufs' = bufs /\ lh' = lh /\ pending' = pending
  BY Zenon DEF WriteHeadFlush
<1>2. StateType /\ AtHeadFlush /\ DiskType(disk) /\ IsLog(lh) /\ lh \in Seq(Home) /\ lh # <<>>
  BY <1>1, Zenon DEF IInv, StateType, IsLog, AtHeadFlush
<1>3. DiskType(disk') /\ \A s \in Sectors : disk'[s] = Settled(disk[s].cur) /\ disk'[s].cur = disk[s].cur
  BY <1>1, <1>2, FlushForm, Zenon
<1>a. \A v, s : s \in Sectors /\ disk[s] = Settled(v) => disk'[s] = Settled(v)
  BY <1>3, SettledCur
<1>4. disk'[HeadSector] = Settled(lh)
  <2>1. disk[HeadSector].cur = lh BY <1>2 DEF AtHeadFlush, Overwrite
  <2> QED BY <2>1, <1>3, Regions, Zenon
<1>5. Merge(disk'[HeadSector]) = {lh} BY <1>4 DEF Merge, Settled
<1>6. \A k \in 1..Len(lh) : disk'[LogSector[k]] = Settled(pending[lh[k]])
  <2> SUFFICES ASSUME NEW k \in 1..Len(lh) PROVE disk'[LogSector[k]] = Settled(pending[lh[k]]) BY Zenon
  <2>1. k \in 1..Len(LogSector) BY <1>2, LogSet, Constants DEF IsLog
  <2> QED BY <2>1, <1>2, <1>a, Regions, Zenon DEF AtHeadFlush
<1>7. \A h \in Home : h \in Range(lh) \/ disk'[h] = Settled(pending[h])
  BY <1>2, <1>a, Regions, Zenon DEF AtHeadFlush, InMemory, HomeSettled
<1>8. Safe(disk', stable') BY <1>1, <1>2, <1>5, <1>6, <1>7, Zenon DEF Safe, HeadOK, HomeOK
<1>9. StateType' BY <1>1, <1>2, <1>3, Zenon DEF StateType
<1>10. Coh(bufs, disk', pending, Range(lh), {})
  <2>1. Coh(bufs, disk, pending, Range(lh), {}) BY <1>2, Zenon DEF AtHeadFlush, InMemory
  <2> QED BY <2>1, <1>3, CohSameCur, Zenon
<1>11. Range(lh) \in SUBSET {lh[k] : k \in 1..Len(lh)} BY <1>2, LogSet, Zenon
<1>12. 1 \in 1..Len(lh) /\ Len(lh) \in Nat BY <1>2, NonEmptyLog, Zenon
<1>13. AtInstall'
  <2>1. \E L \in SUBSET {lh'[k] : k \in tail'..Len(lh')} : Coh(bufs', disk', pending', L, {})
    BY <1>1, <1>10, <1>11, Zenon
  <2> QED BY <2>1, <1>1, <1>4, <1>12 DEF AtInstall
<1> QED BY <1>1, <1>8, <1>9, <1>13, Zenon DEF IInv

\* install_trans writes only sectors that the header on the disk lists.
LEMMA InstallTransIInv == ASSUME IInv, InstallTrans PROVE IInv'
<1> DEFINE from == LogSector[tail]
           to == lh[tail]
           v == stable[to]
<1>1. /\ pc = "install" /\ lh' = lh /\ stable' = stable /\ pending' = pending /\ tail' = tail + 1
      /\ pc' = (IF tail = Len(lh) THEN "clear" ELSE "install") /\ Copy(from, to, from, to)
  BY Zenon DEF InstallTrans, Advance
<1>2. StateType /\ AtInstall /\ Safe(disk, stable) /\ DiskType(disk) /\ tail \in 1..Len(lh)
      /\ disk \in [Sectors -> ValuSet(AnyData)] /\ lh \in Seq(Home) /\ pending = stable
  BY <1>1, Zenon DEF IInv, StateType, AtInstall, DiskType, IsLog
<1>3. /\ Len(lh) \in Nat /\ to \in Home /\ from \in Sectors /\ to \in Sectors
      /\ \A i, j \in 1..Len(lh) : lh[i] = lh[j] => i = j
      /\ \A i \in 1..Len(lh) : i \in 1..Len(LogSector) /\ lh[i] \in Home
      /\ (tail # Len(lh) => tail + 1 \in 1..Len(lh))
  BY <1>2, LoopIndex, Zenon
<1>4. from \notin Home /\ from # to /\ from # HeadSector /\ to # HeadSector BY <1>2, <1>3, Regions, Zenon
<1>5. v \in AnyData /\ v \in Contents(to) BY <1>2, <1>3, <1>4, Zenon DEF StateType, AnyData, Contents
<1>6. Merge(disk[HeadSector]) = {lh} BY <1>2, SettledCur, Zenon DEF AtInstall
<1>7. \A i \in 1..Len(lh) : disk[LogSector[i]] = Settled(stable[lh[i]]) BY <1>2, <1>6, Zenon DEF Safe, HeadOK
<1>8. disk[from].cur = v BY <1>2, <1>7, SettledCur, Zenon
<1>9. PICK L \in SUBSET {lh[k] : k \in tail..Len(lh)} : Coh(bufs, disk, pending, L, {}) BY <1>2, Zenon DEF AtInstall
<1>10. L \in SUBSET Home
  <2>1. \A k \in tail..Len(lh) : lh[k] \in Home BY <1>2, <1>3
  <2> QED BY <2>1, Zenon
<1> HIDE DEF from, to, v
<1>11. disk' = Put(disk, to, v) /\ Coh(bufs', disk', pending, L \ {to}, {})
  <2>1. v = Seen(pending, L, from) BY <1>4, <1>8, <1>10, Zenon DEF Seen
  <2>2. /\ Copy(from, to, from, to) /\ from \in Sectors /\ to \in Sectors /\ from # to /\ v \in AnyData
        /\ disk \in [Sectors -> ValuSet(AnyData)]
    BY <1>1, <1>2, <1>3, <1>4, <1>5, Zenon
  <2> QED BY <2>1, <2>2, <1>9, CopyCoh, Zenon
<1>12. DiskType(disk') /\ disk'[to].cur = v /\ \A x \in Sectors : x # to => disk'[x] = disk[x]
  BY <1>2, <1>3, <1>5, <1>11, WriteForm
<1>13. disk'[HeadSector] = disk[HeadSector] /\ \A i \in 1..Len(lh) : disk'[LogSector[i]] = disk[LogSector[i]]
  BY <1>3, <1>4, <1>12, Regions
<1>14. to \in Range(lh) /\ \A h \in Home : h \in Range(lh) \/ disk[h] = Settled(stable[h])
  BY <1>2, <1>6, LogSet, Zenon DEF to, Safe, HomeOK
<1>15. Safe(disk', stable')
  <2>1. HeadOK(disk', stable) BY <1>2, <1>6, <1>7, <1>13 DEF HeadOK, StateType
  <2>2. \A h \in Home : h \in Range(lh) \/ disk'[h] = Settled(stable[h]) BY <1>12, <1>14, Regions, Zenon
  <2>3. HomeOK(disk', stable) BY <2>2, <1>6, <1>13, Zenon DEF HomeOK
  <2> QED BY <2>1, <2>3, <1>1, Zenon DEF Safe
<1>16. StateType' BY <1>1, <1>2, <1>12, Zenon DEF StateType
<1>17. \A k \in 1..Len(lh) : k < tail + 1 => disk'[lh[k]].cur = stable[lh[k]]
  <2> SUFFICES ASSUME NEW k \in 1..Len(lh), k < tail + 1 PROVE disk'[lh[k]].cur = stable[lh[k]] BY Zenon
  <2>1. CASE k = tail BY <2>1, <1>12, Zenon DEF to, v
  <2>2. CASE k # tail
    <3>1. k < tail BY <2>2, <1>2, <1>3
    <3>2. lh[k] \in Sectors /\ lh[k] # to BY <2>2, <1>2, <1>3, Regions, Zenon DEF to
    <3> QED BY <3>1, <3>2, <1>2, <1>12, Zenon DEF AtInstall
  <2> QED BY <2>1, <2>2, Zenon
<1>18. L \ {to} \in SUBSET {lh[k] : k \in (tail + 1)..Len(lh)}
  <2> SUFFICES ASSUME NEW x \in L, x # to PROVE \E k \in (tail + 1)..Len(lh) : x = lh[k] BY Zenon
  <2>1. PICK k \in tail..Len(lh) : x = lh[k] BY <1>9, Zenon
  <2>2. k # tail BY <2>1, Zenon DEF to
  <2>3. k \in (tail + 1)..Len(lh) BY <2>2, <1>2, <1>3
  <2> QED BY <2>1, <2>3, Zenon
<1>19. CASE tail = Len(lh)
  <2>1. L \ {to} = {}
    <3>1. (tail + 1)..Len(lh) = {} BY <1>19, <1>2, <1>3
    <3> QED BY <3>1, <1>18, Zenon
  <2>2. Coh(bufs', disk', pending, {}, {}) BY <2>1, <1>11, Zenon
  <2>3. \A h \in Home : disk'[h].cur = stable[h]
    <3> SUFFICES ASSUME NEW h \in Home PROVE disk'[h].cur = stable[h] BY Zenon
    <3>1. CASE h \in Range(lh)
      <4>1. PICK k \in 1..Len(lh) : lh[k] = h BY <3>1, <1>2, LogSet, Zenon
      <4>2. k < tail + 1 BY <1>19, <1>3
      <4> QED BY <4>1, <4>2, <1>17, Zenon
    <3>2. CASE h \notin Range(lh)
      <4>1. disk'[h] = Settled(stable[h]) BY <3>2, <1>12, <1>14, Regions, Zenon
      <4> QED BY <4>1, SettledCur, Zenon
    <3> QED BY <3>1, <3>2, Zenon
  <2>4. AtClear' BY <2>2, <2>3, <1>1, <1>2, <1>13, Zenon DEF AtInstall, AtClear
  <2> QED BY <2>4, <1>1, <1>15, <1>16, <1>19, Zenon DEF IInv
<1>20. CASE tail # Len(lh)
  <2>1. \E M \in SUBSET {lh'[k] : k \in tail'..Len(lh')} : Coh(bufs', disk', pending', M, {})
    BY <1>1, <1>11, <1>18, Zenon
  <2>2. AtInstall' BY <2>1, <1>1, <1>2, <1>3, <1>13, <1>17, <1>20, Zenon DEF AtInstall
  <2> QED BY <2>2, <1>1, <1>15, <1>16, <1>20, Zenon DEF IInv
<1> QED BY <1>19, <1>20, Zenon

\* The header is cleared after the home sectors are flushed.
LEMMA ClearHeadIInv == ASSUME IInv, ClearHead PROVE IInv'
<1>1. pc = "clear" /\ lh' = <<>> /\ stable' = stable /\ pending' = pending /\ pc' = "clearflush" /\ PutHead(<<>>)
  BY Zenon DEF ClearHead
<1>2. StateType /\ AtClear /\ Safe(disk, stable) /\ DiskType(disk) /\ IsLog(lh) /\ <<>> \in Seq(Home)
      /\ disk \in [Sectors -> ValuSet(AnyData)]
  BY <1>1, EmptyLog, Zenon DEF IInv, StateType, DiskType, IsLog
<1>3. /\ DiskType(disk') /\ disk'[HeadSector] = Overwrite(Settled(disk[HeadSector].cur), <<>>)
      /\ \A x \in Sectors : x # HeadSector => disk'[x] = Settled(disk[x].cur)
  BY <1>1, <1>2, PutHeadForm, Zenon
<1>4. disk[HeadSector].cur = lh /\ Merge(disk[HeadSector]) = {lh} BY <1>2, SettledCur, Zenon DEF AtClear
<1>5. disk'[HeadSector].cur = <<>> /\ Merge(disk'[HeadSector]) = {<<>>, lh}
  <2>1. disk'[HeadSector].cur = <<>> /\ disk'[HeadSector].old = Merge(Settled(lh)) BY <1>3, <1>4 DEF Overwrite
  <2> QED BY <2>1, SettledCur, Zenon DEF Merge
<1>6. \A h \in Home : disk'[h] = Settled(stable[h]) BY <1>2, <1>3, Regions, Zenon DEF AtClear
<1>7. \A i \in 1..Len(lh) : disk'[LogSector[i]] = Settled(stable[lh[i]])
  <2> SUFFICES ASSUME NEW i \in 1..Len(lh) PROVE disk'[LogSector[i]] = Settled(stable[lh[i]]) BY Zenon
  <2>1. i \in 1..Len(LogSector) BY <1>2, LogSet, Constants DEF IsLog
  <2>2. disk[LogSector[i]] = Settled(stable[lh[i]]) BY <1>2, <1>4, Zenon DEF Safe, HeadOK
  <2>3. disk[LogSector[i]].cur = stable[lh[i]] BY <2>2, SettledCur, Zenon
  <2> QED BY <2>1, <2>3, <1>3, Regions, Zenon
<1>8. Safe(disk', stable')
  <2>1. HeadOK(disk', stable)
    <3> SUFFICES ASSUME NEW q \in {<<>>, lh}
                 PROVE IsLog(q) /\ \A i \in 1..Len(q) : disk'[LogSector[i]] = Settled(stable[q[i]])
      BY <1>5, Zenon DEF HeadOK
    <3>1. CASE q = <<>> BY <3>1, EmptyLog
    <3>2. CASE q = lh BY <3>2, <1>2, <1>7, Zenon
    <3> QED BY <3>1, <3>2, Zenon
  <2>2. HomeOK(disk', stable) BY <1>6, Zenon DEF HomeOK
  <2> QED BY <2>1, <2>2, <1>1, Zenon DEF Safe
<1>9. Coh(bufs', disk', pending, {}, {})
  <2>1. Coh(bufs, disk, pending, {}, {}) /\ {} \in SUBSET Home BY <1>2, Zenon DEF AtClear
  <2> QED BY <2>1, <1>1, <1>2, PutHeadCoh, Zenon
<1>10. AtClearFlush' BY <1>1, <1>2, <1>5, <1>6, <1>9, Zenon DEF AtClear, AtClearFlush, HomeSettled
<1>11. StateType' BY <1>1, <1>2, <1>3, EmptyLog, Zenon DEF StateType
<1> QED BY <1>1, <1>8, <1>10, <1>11, Zenon DEF IInv

\* The second flush of the clearing write_head ends the commit.
LEMMA ClearHeadFlushIInv == ASSUME IInv, ClearHeadFlush PROVE IInv'
<1>1. /\ pc = "clearflush" /\ disk' = IdeFlush(disk) /\ pc' = "idle"
      /\ bufs' = bufs /\ lh' = lh /\ stable' = stable /\ pending' = pending
  BY Zenon DEF ClearHeadFlush
<1>2. StateType /\ AtClearFlush /\ DiskType(disk) BY <1>1, Zenon DEF IInv, StateType
<1>3. DiskType(disk') /\ \A s \in Sectors : disk'[s] = Settled(disk[s].cur) /\ disk'[s].cur = disk[s].cur
  BY <1>1, <1>2, FlushForm, Zenon
<1>4. disk'[HeadSector] = Settled(<<>>) BY <1>2, <1>3, Regions, Zenon DEF AtClearFlush
<1>5. \A h \in Home : disk'[h] = Settled(stable[h])
  BY <1>2, <1>3, SettledCur, Regions DEF AtClearFlush, HomeSettled
<1>6. Safe(disk', stable') BY <1>1, <1>4, <1>5, SafeEmpty, Zenon
<1>7. Coh(bufs, disk', pending, {}, {})
  <2>1. Coh(bufs, disk, pending, {}, {}) BY <1>2, Zenon DEF AtClearFlush
  <2> QED BY <2>1, <1>3, CohSameCur, Zenon
<1>8. lh = <<>> /\ pending = stable /\ Range(lh) = {} BY <1>2, EmptyLog, Zenon DEF AtClearFlush
<1>9. AtRun' BY <1>1, <1>4, <1>5, <1>7, <1>8, Zenon DEF AtRun, InMemory, HomeSettled
<1>10. StateType' BY <1>1, <1>2, <1>3, Zenon DEF StateType
<1> QED BY <1>1, <1>6, <1>9, <1>10 DEF IInv

\* A crash in write_head leaves the old header or the new one.
LEMMA CrashHeadFlush ==
  ASSUME StateType, AtHeadFlush, NEW f \in CrashOutcomes(disk)
  PROVE  \/ Replayed(f) = pending /\ Safe(Flushed(f), pending)
         \/ Replayed(f) = stable /\ Safe(Flushed(f), stable)
<1> DEFINE n == Flushed(f)
<1>1. DiskType(disk) /\ IsLog(lh) /\ lh \in Seq(Home) /\ stable \in [Home -> Val] /\ pending \in [Home -> Val]
  BY Zenon DEF StateType, IsLog
<1>2. \A s \in Sectors : f[s] \in Merge(disk[s]) /\ n[s] = Settled(f[s]) BY <1>1, CrashForm, Zenon
<1> HIDE DEF n
<1>3. \A v, s : s \in Sectors /\ disk[s] = Settled(v) => f[s] = v /\ n[s] = Settled(v)
  BY <1>2, SettledCur
<1>4. \A h \in Home : f[h] = stable[h] /\ n[h] = Settled(stable[h])
  BY <1>3, Regions, Zenon DEF AtHeadFlush, InMemory, HomeSettled
<1>5. \A k \in 1..Len(lh) : f[LogSector[k]] = pending[lh[k]] /\ n[LogSector[k]] = Settled(pending[lh[k]])
  <2> SUFFICES ASSUME NEW k \in 1..Len(lh)
               PROVE f[LogSector[k]] = pending[lh[k]] /\ n[LogSector[k]] = Settled(pending[lh[k]])
    BY Zenon
  <2>1. k \in 1..Len(LogSector) BY <1>1, LogSet, Constants DEF IsLog
  <2>2. disk[LogSector[k]] = Settled(pending[lh[k]]) BY Zenon DEF AtHeadFlush
  <2> QED BY <2>1, <2>2, <1>3, Regions, Zenon
<1>6. f[HeadSector] \in {lh, <<>>} /\ n[HeadSector] = Settled(f[HeadSector])
  <2>1. disk[HeadSector].cur = lh /\ disk[HeadSector].old = Merge(Settled(<<>>)) BY DEF AtHeadFlush, Overwrite
  <2>2. Merge(disk[HeadSector]) = {lh, <<>>} BY <2>1, SettledCur, Zenon DEF Merge
  <2> QED BY <2>2, <1>2, Regions, Zenon
<1>7. Merge(n[HeadSector]) = {f[HeadSector]} BY <1>6, SettledCur, Zenon
<1>8. CASE f[HeadSector] = lh
  <2>1. \A h \in Home : h \in Range(lh) \/ (f[h] = pending[h] /\ n[h] = Settled(pending[h]))
    BY <1>4, Zenon DEF AtHeadFlush, InMemory
  <2>2. Replayed(f) = pending BY <2>1, <1>1, <1>5, <1>8, ReplayedIs
  <2>3. HeadOK(n, pending) BY <1>1, <1>5, <1>7, <1>8, Zenon DEF HeadOK
  <2>4. HomeOK(n, pending) BY <2>1, <1>7, <1>8, Zenon DEF HomeOK
  <2> QED BY <2>2, <2>3, <2>4, Zenon DEF Safe, n
<1>9. CASE f[HeadSector] = <<>>
  <2>1. Replayed(f) = stable BY <1>1, <1>4, <1>9, EmptyLog, ReplayedIs
  <2>2. n[HeadSector] = Settled(<<>>) BY <1>6, <1>9, Zenon
  <2>3. Safe(n, stable) BY <2>2, <1>4, SafeEmpty, Zenon
  <2> QED BY <2>1, <2>3, Zenon DEF n
<1> QED BY <1>6, <1>8, <1>9, Zenon

\* A crash at any point leaves a disk that recovery can rebuild.
LEMMA CrashIInv == ASSUME IInv, Crash PROVE IInv'
<1>1. PICK f \in CrashOutcomes(disk) : disk' = Flushed(f) BY Zenon DEF Crash
<1>2. /\ bufs' = FreshCache /\ lh' = <<>> /\ pc' = "down" /\ pending' = stable'
      /\ stable' = (IF pc = "headflush" /\ Replayed(Latest(disk')) = pending THEN pending ELSE stable)
  BY Zenon DEF Crash
<1>3. StateType /\ DiskType(disk) /\ stable \in [Home -> Val] /\ pending \in [Home -> Val] BY Zenon DEF IInv, StateType
<1>4. /\ DiskType(disk') /\ Latest(disk') = f /\ \A s \in Sectors : disk'[s] = Settled(f[s])
  BY <1>1, <1>3, CrashForm, Zenon
<1>5. Safe(disk', stable')
  <2>1. CASE pc = "headflush"
    <3>1. \/ Replayed(f) = pending /\ Safe(disk', pending)
          \/ Replayed(f) = stable /\ Safe(disk', stable)
      BY <2>1, <1>1, <1>3, CrashHeadFlush, Zenon DEF IInv
    <3>2. stable' = IF Replayed(f) = pending THEN pending ELSE stable BY <2>1, <1>2, <1>4, Zenon
    <3> QED BY <3>1, <3>2, Zenon
  <2>2. CASE pc # "headflush"
    <3>1. Safe(disk, stable) BY <2>2, Zenon DEF IInv
    <3>2. Safe(disk', stable) BY <3>1, <1>1, <1>3, SafeCrash, Zenon
    <3> QED BY <3>2, <2>2, <1>2, Zenon
  <2> QED BY <2>1, <2>2, Zenon
<1>6. stable' \in [Home -> Val] BY <1>2, <1>3, Zenon
<1>7. StateType' BY <1>2, <1>4, <1>6, EmptyLog, Zenon DEF StateType
<1>8. AtDown' BY <1>2, <1>4, SettledCur DEF AtDown
<1> QED BY <1>2, <1>5, <1>7, <1>8 DEF IInv

\* Every step keeps the invariant.
LEMMA NextIInv == ASSUME IInv, [Next]_vars PROVE IInv'
<1>1. CASE InitLog BY <1>1, InitLogIInv, Zenon
<1>2. CASE BeginOp BY <1>2, BeginOpIInv, Zenon
<1>3. CASE EndOp BY <1>3, EndOpIInv, Zenon
<1>4. ASSUME NEW h \in Home, Read(h) PROVE IInv' BY <1>4, ReadIInv, Zenon
<1>5. ASSUME NEW h \in Home, NEW v \in Val, LogWrite(h, v) PROVE IInv' BY <1>5, LogWriteIInv, Zenon
<1>6. CASE WriteLog BY <1>6, WriteLogIInv, Zenon
<1>7. CASE WriteHead BY <1>7, WriteHeadIInv, Zenon
<1>8. CASE WriteHeadFlush BY <1>8, WriteHeadFlushIInv, Zenon
<1>9. CASE InstallTrans BY <1>9, InstallTransIInv, Zenon
<1>10. CASE ClearHead BY <1>10, ClearHeadIInv, Zenon
<1>11. CASE ClearHeadFlush BY <1>11, ClearHeadFlushIInv, Zenon
<1>12. CASE Crash BY <1>12, CrashIInv, Zenon
<1>13. CASE UNCHANGED vars BY <1>13, StutterIInv, Zenon
<1> QED
  BY <1>1, <1>2, <1>3, <1>4, <1>5, <1>6, <1>7, <1>8, <1>9, <1>10, <1>11, <1>12, <1>13 DEF Next

\* The invariant implies CrashAtomic.
LEMMA IInvCrashAtomic == IInv => CrashAtomic
<1> SUFFICES ASSUME IInv, pc = "down" PROVE Replayed(Latest(disk)) = stable BY Zenon DEF CrashAtomic
<1> DEFINE f == Latest(disk)
<1>1. Safe(disk, stable) /\ DiskType(disk) /\ stable \in [Home -> Val] BY Zenon DEF IInv, StateType
<1>2. f \in CrashOutcomes(disk)
  <2>1. DOMAIN disk = Sectors /\ f = [a \in Sectors |-> disk[a].cur] BY <1>1, Zenon DEF DiskType, Latest
  <2>2. \A a \in Sectors : f[a] \in Merge(disk[a]) BY <2>1, Zenon DEF Merge
  <2> HIDE DEF f
  <2>3. f \in [Sectors -> UNION {Merge(disk[a]) : a \in Sectors}] BY <2>1, <2>2, Zenon
  <2> QED BY <2>1, <2>2, <2>3, Zenon DEF CrashOutcomes
<1> QED BY <1>1, <1>2, SafeCrash, Zenon

\* Between steps the cache is coherent, and what is dirty is listed in lh.
LEMMA IInvCoh == ASSUME IInv PROVE \E L \in SUBSET Range(lh) : Coh(bufs, disk, pending, L, {})
<1>t. /\ IsLog(lh) /\ lh \in Seq(Home)
      /\ pc \in {"down", "idle", "op", "writelog", "head", "headflush", "install", "clear", "clearflush"}
  BY Zenon DEF IInv, StateType, IsLog
<1>1. CASE pc = "down"
  <2>1. Coh(bufs, disk, pending, {}, {}) BY <1>1, FreshCoh, Zenon DEF IInv, AtDown
  <2> QED BY <2>1, Zenon
<1>2. CASE pc \in {"idle", "op", "writelog", "head", "headflush"}
  <2>1. Coh(bufs, disk, pending, Range(lh), {})
    BY <1>2, Zenon DEF IInv, AtWriteLog, AtHead, AtHeadFlush, AtRun, InMemory
  <2> QED BY <2>1, Zenon
<1>3. CASE pc = "install"
  <2>1. tail \in 1..Len(lh) /\ \E L \in SUBSET {lh[k] : k \in tail..Len(lh)} : Coh(bufs, disk, pending, L, {})
    BY <1>3, Zenon DEF IInv, AtInstall
  <2>2. {lh[k] : k \in tail..Len(lh)} \subseteq Range(lh)
    <3>1. Len(lh) \in Nat /\ DOMAIN lh = 1..Len(lh) BY <1>t, LogSet, Zenon
    <3>2. \A k \in tail..Len(lh) : k \in DOMAIN lh BY <3>1, <2>1
    <3> QED BY <3>2, Zenon DEF Range
  <2> QED BY <2>1, <2>2, Zenon
<1>4. CASE pc \in {"clear", "clearflush"}
  <2>1. Coh(bufs, disk, pending, {}, {}) BY <1>4, Zenon DEF IInv, AtClear, AtClearFlush
  <2> QED BY <2>1, Zenon
<1> QED BY <1>t, <1>1, <1>2, <1>3, <1>4, Zenon

\* The invariant implies ReadsOwnWrites.
LEMMA IInvReadsOwnWrites == IInv => ReadsOwnWrites
<1> SUFFICES ASSUME IInv PROVE ReadsOwnWrites BY Zenon
<1>t. /\ IsLog(lh) /\ lh \in Seq(Home)
      /\ pc \in {"down", "idle", "op", "writelog", "head", "headflush", "install", "clear", "clearflush"}
  BY Zenon DEF IInv, StateType, IsLog
<1>1. ASSUME pc \in {"idle", "op"}, NEW h \in Home
      PROVE (IF Slots(bufs, h) # {} /\ bufs[Slot(bufs, h)].valid THEN DataOf(bufs, h) ELSE disk[h].cur) = pending[h]
  <2>1. /\ Coh(bufs, disk, pending, Range(lh), {}) /\ h \in Sectors
        /\ disk[h] = Settled(stable[h]) /\ (h \notin Range(lh) => pending[h] = stable[h])
    BY <1>1, Regions, Zenon DEF IInv, AtRun, InMemory, HomeSettled
  <2>2. disk[h].cur = stable[h] BY <2>1, SettledCur, Zenon
  <2>3. CASE h \in Range(lh)
    <3>1. PICK i \in 1..NBUF : bufs[i].sector = h /\ bufs[i].dirty BY <2>1, <2>3, Zenon DEF Coh
    <3>2. Slots(bufs, h) # {} /\ Slot(bufs, h) = i BY <3>1, <2>1, SlotOf
    <3>3. bufs[i].valid /\ bufs[i].data = pending[h] BY <3>1, <2>1, Zenon DEF Coh
    <3> QED BY <3>2, <3>3, Zenon DEF DataOf
  <2>4. CASE h \notin Range(lh)
    <3>1. CASE Slots(bufs, h) # {} /\ bufs[Slot(bufs, h)].valid
      <4>1. PICK i \in 1..NBUF : bufs[i].sector = h BY <3>1, <2>1, SlotsOf, Zenon
      <4>2. Slot(bufs, h) = i BY <4>1, <2>1, SlotOf, Zenon
      <4>3. bufs[i].valid /\ ~bufs[i].dirty BY <4>1, <4>2, <3>1, <2>1, <2>4, Zenon DEF Coh
      <4>4. bufs[i].data = disk[h].cur BY <4>1, <4>3, <2>1, Zenon DEF Coh
      <4> QED BY <4>2, <4>4, <3>1, <2>1, <2>2, <2>4, Zenon DEF DataOf
    <3>2. CASE ~(Slots(bufs, h) # {} /\ bufs[Slot(bufs, h)].valid) BY <3>2, <2>1, <2>2, <2>4, Zenon
    <3> QED BY <3>1, <3>2, Zenon
  <2> QED BY <2>3, <2>4, Zenon
<1>2. \E L \in SUBSET Range(lh) : Coh(bufs, disk, pending, L, {}) BY IInvCoh, Zenon
<1>3. \A i \in 1..NBUF : bufs[i].valid =>
        IF bufs[i].dirty THEN bufs[i].sector \in Range(lh) ELSE bufs[i].data = disk[bufs[i].sector].cur
  BY <1>2, Zenon DEF Coh
<1> QED BY <1>1, <1>3, Zenon DEF ReadsOwnWrites

-----------------------------------------------------------------------------
(***************************************************************************)
(* No panic.                                                               *)
(***************************************************************************)

\* Of more than Cardinality(S) buffers two have the same element of S.
LEMMA TwoShare ==
  ASSUME NEW n \in Nat, NEW S, IsFiniteSet(S), Cardinality(S) < n, NEW g \in [1..n -> S]
  PROVE  \E i, j \in 1..n : i # j /\ g[i] = g[j]
<1>1. IsFiniteSet(1..n) /\ Cardinality(S) < Cardinality(1..n) BY UpTo, Zenon
<1>2. \A T : IsFiniteSet(T) /\ Cardinality(S) < Cardinality(T) =>
        \A h \in [T -> S] : \E i, j \in T : i # j /\ h[i] = h[j]
  BY FS_PigeonHole, Zenon
<1> QED BY <1>1, <1>2, Zenon

\* bget finds a buffer to recycle when fewer sectors are pinned or held than
\* there are buffers.
LEMMA FreeBuffer ==
  ASSUME NEW c, NEW d, NEW p, NEW L, NEW B \in SUBSET Sectors, Coh(c, d, p, L, B),
         NEW S, L \cup B \subseteq S, IsFiniteSet(S), Cardinality(S) < NBUF
  PROVE  Recyclable(c) # {}
<1> SUFFICES ASSUME Recyclable(c) = {} PROVE FALSE BY Zenon
<1>1. c \in [1..NBUF -> Buf] /\ DOMAIN c = 1..NBUF BY Zenon DEF Coh
<1>2. \A i \in 1..NBUF : c[i].busy \/ c[i].dirty BY <1>1, Zenon DEF Recyclable
<1>3. \A i \in 1..NBUF : c[i].sector \in S /\ c[i].sector # NoSector BY <1>2, Constants, Zenon DEF Coh
<1> DEFINE f == [i \in 1..NBUF |-> c[i].sector]
<1>4. f \in [1..NBUF -> S] BY <1>3, Zenon
<1>6. PICK i, j \in 1..NBUF : i # j /\ f[i] = f[j]
  <2> HIDE DEF f
  <2> QED BY <1>4, Constants, TwoShare
<1>7. c[i].sector = c[j].sector BY <1>6, Zenon
<1> QED BY <1>3, <1>6, <1>7 DEF Coh

\* The variables of log.c that the argument about the disk does not need.
Control ==
  /\ outstanding = (IF pc = "op" THEN 1 ELSE 0)
  /\ committing \in BOOLEAN
  /\ tail \in 0..(LOGSIZE + 1)

\* Every step keeps them in range: a loop index stays within the header.
LEMMA NextControl == ASSUME IInv, Control, [Next]_vars PROVE Control'
<1>1. LOGSIZE \in Nat /\ 0 \in 0..(LOGSIZE + 1) /\ 1 \in 0..(LOGSIZE + 1) BY Constants
<1>2. ASSUME tail \in 1..Len(lh) PROVE tail + 1 \in 0..(LOGSIZE + 1)
  <2>1. Len(lh) \in Nat /\ Len(lh) <= Len(LogSector) BY LogSet, Zenon DEF IInv, StateType, IsLog
  <2> QED BY <2>1, <1>2, Constants
<1>3. CASE InitLog BY <1>1, <1>3, Zenon DEF InitLog, Control
<1>4. CASE BeginOp BY <1>4 DEF BeginOp, Control
<1>5. CASE EndOp
  <2>1. outstanding' = 0 /\ pc' # "op" BY <1>5 DEF EndOp, Control
  <2>2. committing' \in BOOLEAN /\ tail' \in 0..(LOGSIZE + 1) BY <1>1, <1>5, Zenon DEF EndOp, Control
  <2> QED BY <2>1, <2>2, Zenon DEF Control
<1>6. ASSUME NEW h \in Home, Read(h) PROVE Control' BY <1>6 DEF Read, Control
<1>7. ASSUME NEW h \in Home, NEW v \in Val, LogWrite(h, v) PROVE Control' BY <1>7, Zenon DEF LogWrite, Control
<1>8. CASE WriteLog
  <2>1. tail \in 1..Len(lh) BY <1>8, Zenon DEF WriteLog, IInv, AtWriteLog
  <2> QED BY <2>1, <1>2, <1>8 DEF WriteLog, Advance, Control
<1>9. CASE WriteHead BY <1>9, Zenon DEF WriteHead, Control
<1>10. CASE WriteHeadFlush BY <1>1, <1>10, Zenon DEF WriteHeadFlush, Control
<1>11. CASE InstallTrans
  <2>1. tail \in 1..Len(lh) BY <1>11, Zenon DEF InstallTrans, IInv, AtInstall
  <2> QED BY <2>1, <1>2, <1>11 DEF InstallTrans, Advance, Control
<1>12. CASE ClearHead BY <1>12, Zenon DEF ClearHead, Control
<1>13. CASE ClearHeadFlush BY <1>13, Zenon DEF ClearHeadFlush, Control
<1>14. CASE Crash BY <1>1, <1>14, Zenon DEF Crash, Control
<1>15. CASE UNCHANGED vars BY <1>15, Zenon DEF vars, Control
<1> QED
  BY <1>3, <1>4, <1>5, <1>6, <1>7, <1>8, <1>9, <1>10, <1>11, <1>12, <1>13, <1>14, <1>15 DEF Next

\* The types of the state, the cache included.
LEMMA IInvTypeOK == ASSUME IInv, Control PROVE TypeOK
<1>1. /\ DiskType(disk) /\ IsLog(lh) /\ {stable, pending} \subseteq [Home -> Val]
      /\ pc \in {"down", "idle", "op", "writelog", "head", "headflush", "install", "clear", "clearflush"}
  BY Zenon DEF IInv, StateType
<1>2. PICK L \in SUBSET Range(lh) : Coh(bufs, disk, pending, L, {}) BY IInvCoh, Zenon
<1>3. Range(lh) \subseteq Home BY <1>1, LogSet, Zenon DEF IsLog
<1>4. /\ DOMAIN disk = Sectors
      /\ \A s \in Sectors : disk[s].cur \in Contents(s) /\ disk[s].old \subseteq Contents(s)
  BY <1>1, Zenon DEF DiskType, Merge
<1>5. Len(bufs) = NBUF
  <2>1. NBUF \in Nat /\ bufs \in [1..NBUF -> Buf] BY <1>2, Constants DEF Coh
  <2>2. bufs \in Seq(Buf) BY <2>1
  <2> QED BY <2>1, <2>2
<1>6. ASSUME NEW i \in 1..NBUF
      PROVE  /\ bufs[i].sector \in Sectors \cup {NoSector}
             /\ ~bufs[i].busy
             /\ bufs[i].valid => bufs[i].data \in Contents(bufs[i].sector)
  <2>1. bufs[i] \in Buf /\ bufs[i].sector \in Sectors \cup {NoSector} BY <1>2, BufFields DEF Coh
  <2>2. ~bufs[i].busy BY <1>2, Zenon DEF Coh
  <2>3. ASSUME bufs[i].valid, ~bufs[i].dirty PROVE bufs[i].data \in Contents(bufs[i].sector)
    BY <2>1, <2>3, <1>2, <1>4 DEF Coh
  <2>4. ASSUME bufs[i].dirty PROVE bufs[i].data \in Contents(bufs[i].sector)
    <3>1. bufs[i].sector \in Home /\ bufs[i].data = pending[bufs[i].sector] BY <2>4, <1>2, <1>3 DEF Coh
    <3> QED BY <3>1, <1>1, Regions DEF Contents
  <2> QED BY <2>1, <2>2, <2>3, <2>4
<1>7. lh \in Seq(Home) /\ Len(lh) <= Len(LogSector) BY <1>1, Zenon DEF IsLog
<1>8. outstanding \in {0, 1} /\ committing \in BOOLEAN /\ tail \in 0..(LOGSIZE + 1) BY Zenon DEF Control
<1> QED BY <1>1, <1>4, <1>5, <1>6, <1>7, <1>8 DEF TypeOK

\* While one buffer is free bread succeeds, and after it so does the bread of a
\* sector of the log: either it is pinned, or it leaves room for one more.
LEMMA Buffers ==
  ASSUME IInv
  PROVE  /\ \A s \in Sectors : CanGet(bufs, s)
         /\ \A s \in Sectors, h \in Range(lh) : s \notin Home => TwoBuffers(s, h)
<1>1. disk \in [Sectors -> ValuSet(AnyData)] BY Zenon DEF IInv, StateType, DiskType
<1>2. PICK L \in SUBSET Range(lh) : Coh(bufs, disk, pending, L, {}) BY IInvCoh, Zenon
<1>3. lh \in Seq(Home) /\ Len(lh) <= MAXOPBLOCKS /\ \A i, j \in 1..Len(lh) : lh[i] = lh[j] => i = j
  BY Zenon DEF IInv, StateType, IsLog
<1>4. /\ Len(lh) \in Nat /\ Range(lh) \subseteq Home
      /\ IsFiniteSet(Range(lh)) /\ Cardinality(Range(lh)) = Len(lh) BY <1>3, LogCard, LogSet
<1>5. Cardinality(Range(lh)) < NBUF BY <1>3, <1>4, Constants
<1>6. Recyclable(bufs) # {} BY <1>2, <1>4, <1>5, FreeBuffer, Zenon
<1>7. \A s \in Sectors : CanGet(bufs, s) BY <1>6, Zenon DEF CanGet
<1>8. ASSUME NEW s \in Sectors, NEW h \in Range(lh), s \notin Home PROVE TwoBuffers(s, h)
  <2> DEFINE c == BRead(bufs, s)
  <2>1. Coh(c, disk, pending, L, {s})
    <3>1. Coh(c, disk, pending, L, {} \cup {s}) BY <1>1, <1>2, <1>7, BReadCoh
    <3> QED BY <3>1, Zenon
  <2> HIDE DEF c
  <2>2. h \in Sectors /\ h # s BY <1>4, <1>8, Regions
  <2>3. CASE h \in L
    <3>1. \E i \in 1..NBUF : c[i].sector = h BY <2>1, <2>3 DEF Coh
    <3>2. Slots(c, h) # {} BY <3>1, <2>1, <2>2, SlotsOf
    <3> QED BY <3>2, <1>7, Zenon DEF TwoBuffers, CanGet, c
  <2>4. CASE h \notin L
    <3> DEFINE R == Range(lh) \ {h}
               S == R \cup {s}
    <3>1. IsFiniteSet(R) /\ Cardinality(R) = Len(lh) - 1 BY <1>4, FS_RemoveElement, Zenon
    <3>2. s \notin R BY <1>4, <1>8, Zenon
    <3>3. L \subseteq R BY <2>4, Zenon
    <3> HIDE DEF R
    <3>4. IsFiniteSet(S) /\ Cardinality(S) = Cardinality(R) + 1 BY <3>1, <3>2, FS_AddElement
    <3>5. Cardinality(S) < NBUF BY <3>1, <3>4, <1>4, <1>5
    <3>6. L \cup {s} \subseteq S BY <3>3, Zenon
    <3> HIDE DEF S
    <3>7. Recyclable(c) # {} BY <2>1, <3>4, <3>5, <3>6, FreeBuffer
    <3> QED BY <3>7, <1>7, Zenon DEF TwoBuffers, CanGet, c
  <2> QED BY <2>3, <2>4, Zenon
<1> QED BY <1>7, <1>8, Zenon

\* The invariant implies that no panic is near.
LEMMA IInvNoPanic == ASSUME IInv, Control PROVE NoPanic
<1>1. TypeOK BY IInvTypeOK, Zenon
<1>2. /\ Len(lh) \in Nat /\ Len(lh) <= MAXOPBLOCKS
      /\ \A i \in 1..Len(lh) : lh[i] \in Range(lh)
      /\ Len(lh) <= Len(LogSector)
  BY LogSet, Zenon DEF IInv, StateType, IsLog
<1>3. ASSUME pc = "op" PROVE ~LogRefuses
  <2>1. outstanding = 1 BY <1>3, Zenon DEF Control
  <2>2. Len(lh) < LOGSIZE /\ Len(lh) < Len(LogSector) + 1 - 1 BY <1>2, Constants
  <2> QED BY <2>1, <2>2, <1>2, Constants DEF LogRefuses, LogSpace
<1>4. \A s \in Sectors : CanGet(bufs, s) BY Buffers, Zenon
<1>5. ASSUME pc \in {"writelog", "install"} PROVE TwoBuffers(LogSector[tail], lh[tail])
  <2>1. tail \in 1..Len(lh) BY <1>5, Zenon DEF IInv, AtWriteLog, AtInstall
  <2>2. tail \in 1..Len(LogSector) BY <2>1, <1>2, Constants
  <2>3. LogSector[tail] \in Sectors /\ LogSector[tail] \notin Home /\ lh[tail] \in Range(lh)
    BY <2>1, <2>2, <1>2, Regions, Zenon
  <2> QED BY <2>3, Buffers, Zenon
<1> QED BY <1>1, <1>3, <1>4, <1>5, Regions DEF NoPanic

\* The inductive invariant holds in every reachable state.
THEOREM Inductive == Spec => []IInv
BY InitIInv, NextIInv, PTL DEF Spec

\* However the writes of log.c to the disk are reordered or lost by a crash,
\* recovery (initlog) rebuilds exactly the committed transactions.
THEOREM CrashesAreAtomic == Spec => []CrashAtomic
BY Inductive, IInvCrashAtomic, PTL

\* What bget recycles is never the only copy of an update: a system call reads
\* its own writes and those of every call before it.
THEOREM CallsReadTheirWrites == Spec => []ReadsOwnWrites
BY Inductive, IInvReadsOwnWrites, PTL

\* A system call that keeps within MAXOPBLOCKS never meets the panics of bget
\* ("no buffers") and log_write, and neither does a commit or a recovery; the
\* state keeps its types and no buffer stays busy.
THEOREM NeverPanics == Spec => []NoPanic
<1>1. Init => Control
  <2>1. 0 \in 0..(LOGSIZE + 1) BY Constants
  <2> QED BY <2>1, Zenon DEF Init, Control
<1> QED BY <1>1, InitIInv, NextIInv, NextControl, IInvNoPanic, PTL DEF Spec
=============================================================================
