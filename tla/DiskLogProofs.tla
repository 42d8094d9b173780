---------------------------- MODULE DiskLogProofs ----------------------------
(***************************************************************************)
(* Proofs about DiskLog, for every set of addresses and values, every      *)
(* packing of addresses and every size of the log: crashes are atomic, a   *)
(* rollback is final, extend refuses only a full log, and what read        *)
(* decodes behaves as AtomicLog.                                           *)
(***************************************************************************)
EXTENDS DiskLogRefinement, FiniteSetTheorems, TLAPS

\* Multiplication by a natural number is monotonic.
LEMMA TimesMonotonic ==
  ASSUME NEW K \in Nat, NEW a \in Nat, NEW b \in Nat, a <= b
  PROVE  a * K <= b * K
<1>1. PICK d \in Nat : b = a + d
  <2>1. b - a \in Nat
    OBVIOUS
  <2> QED
    BY <2>1
<1>2. b * K = a * K + d * K
  BY <1>1
<1>3. d * K \in Nat /\ a * K \in Nat
  OBVIOUS
<1> QED
  BY <1>2, <1>3

\* divup(c, K) blocks of K items have room for c items.
LEMMA DivupRoom ==
  ASSUME NEW K \in Nat \ {0}, NEW c \in Nat
  PROVE  /\ (c + K - 1) \div K \in Nat
         /\ c <= ((c + K - 1) \div K) * K
<1>1. PICK q : q = (c + K - 1) \div K
  OBVIOUS
<1>2. q \in Nat /\ c + K - 1 < K * q + K
  BY <1>1
<1>3. K * q = q * K /\ q * K \in Nat
  BY <1>2
<1> QED
  BY <1>1, <1>2, <1>3

\* c items that fit into m blocks of K items need no more than m blocks.
LEMMA DivupLeast ==
  ASSUME NEW K \in Nat \ {0}, NEW m \in Nat, NEW c \in Nat, c <= m * K
  PROVE  (c + K - 1) \div K <= m
<1>1. PICK q : q = (c + K - 1) \div K
  OBVIOUS
<1>2. q \in Nat /\ K * q <= c + K - 1
  BY <1>1
<1>3. SUFFICES ASSUME m + 1 <= q PROVE FALSE
  BY <1>1, <1>2
<1>4. (m + 1) * K <= q * K
  BY <1>3, <1>2, TimesMonotonic
<1>5. (m + 1) * K = m * K + K /\ q * K = K * q /\ m * K \in Nat /\ K * q \in Nat
  BY <1>2
<1> QED
  BY <1>4, <1>5, <1>2

\* The blocks of the region d below n have no value but their latest one.
SettledBelow(d, n) == \A i \in 0 .. n - 1 : d[i].old = {}

\* The blocks of the length len hold c, and no crash can change them.
Holds(len, c) ==
  /\ Contents(len) = c
  /\ SettledBelow(desc, len.ndesc)
  /\ SettledBelow(data, len.ndata)

AllSettled == SettledBelow(desc, LogDescLen) /\ SettledBelow(data, LogLen)

ReadyInv ==
  pc \in {"ready", "full"} =>
    /\ hdr.old = {}
    /\ hdr.cur.sum = before
    /\ after = before
    /\ Holds(hdr.cur.len, before)

ExtendInv ==
  pc = "extend" =>
    /\ hdr.cur.sum = after
    /\ Contents(hdr.cur.len) = after
    /\ Holds(hdr.cur.prev, before)
    /\ hdr.cur.len.ndesc = hdr.cur.prev.ndesc + NdescLog(arg)
    /\ hdr.cur.len.ndata = hdr.cur.prev.ndata + NdataLog(arg)
    /\ \A h \in hdr.old : h.len = hdr.cur.prev /\ h.sum = before

TruncInv ==
  pc = "trunc" =>
    /\ hdr.cur.len = Length(0, 0)
    /\ hdr.cur.sum = EmptyContents
    /\ after = EmptyContents
    /\ Holds(hdr.cur.prev, before)
    /\ \A h \in hdr.old : h.len = hdr.cur.prev /\ h.sum = before

DownInv ==
  pc = "down" =>
    /\ hdr.old = {}
    /\ AllSettled
    /\ \/ ChecksumsMatch /\ hdr.cur.sum \in {before, after}
       \/ hdr.cur.sum = after /\ Contents(hdr.cur.prev) = before

RollbackInv ==
  pc = "rollback" =>
    /\ AllSettled
    /\ hdr.cur.sum = before
    /\ Contents(hdr.cur.len) = before
    /\ \A h \in hdr.old : /\ h.sum = after
                          /\ h.prev = hdr.cur.len
                          /\ Contents(h.len) # h.sum

IInv == TypeOK /\ ReadyInv /\ ExtendInv /\ TruncInv /\ DownInv /\ RollbackInv

-----------------------------------------------------------------------------
\* The sizes of the log are natural numbers.
LEMMA LogLenNat == LogLen \in Nat
BY LogAssumption DEF LogLen

\* The number of descriptor blocks of a list of entries is a natural number.
LEMMA NdescNat == \A log \in Seq(Entry) : NdescLog(log) \in Nat
BY LogAssumption DEF NdescLog

\* The elements of a list of entries are entries.
LEMMA EntryOf == \A log \in Seq(Entry) : \A n \in 1 .. Len(log) : log[n] \in Entry
OBVIOUS

\* ipack yields descriptor blocks.
LEMMA IPackType ==
  \A log \in Seq(Entry) : IPack(log) \in [0 .. NdescLog(log) - 1 -> DescBlock]
<1> SUFFICES ASSUME NEW log \in Seq(Entry),
                    NEW i \in 0 .. NdescLog(log) - 1, NEW j \in 0 .. ItemsPerVal - 1
             PROVE  (IF i * ItemsPerVal + j < Len(log)
                     THEN log[i * ItemsPerVal + j + 1].a ELSE 0) \in Addr \cup {0}
  BY Zenon DEF IPack, DescBlock
<1>1. NdescLog(log) \in Nat
  BY NdescNat, Zenon
<1>2. i * ItemsPerVal \in Nat
  BY <1>1, LogAssumption
<1>3. CASE i * ItemsPerVal + j < Len(log)
  <2>1. i * ItemsPerVal + j + 1 \in 1 .. Len(log)
    BY <1>2, <1>3, LogAssumption
  <2>2. log[i * ItemsPerVal + j + 1] \in Entry
    BY <2>1, EntryOf, Zenon
  <2> QED
    BY <1>3, <2>2, Zenon DEF Entry
<1> QED
  BY <1>3, Zenon

\* The values of a list of entries are values of data blocks.
LEMMA EntValsType ==
  \A log \in Seq(Entry) : EntVals(log) \in [0 .. NdataLog(log) - 1 -> Val]
<1> SUFFICES ASSUME NEW log \in Seq(Entry), NEW i \in 0 .. Len(log) - 1
             PROVE  log[i + 1].v \in Val
  BY Zenon DEF EntVals, NdataLog
<1>1. i + 1 \in 1 .. Len(log)
  OBVIOUS
<1>2. log[i + 1] \in Entry
  BY <1>1, EntryOf, Zenon
<1> QED
  BY <1>2, Zenon DEF Entry

-----------------------------------------------------------------------------
\* Reading blocks of a region of type V gives blocks of type V.
LEMMA PrefixType ==
  ASSUME NEW N \in Nat, NEW V, NEW d \in [0 .. N - 1 -> ValuSet(V)], NEW n \in 0 .. N
  PROVE  Prefix(Latest(d), n) \in [0 .. n - 1 -> V]
BY DEF Prefix, Latest, ValuSet

\* Two regions with the same latest values below n read the same.
LEMMA PrefixSame ==
  ASSUME NEW N \in Nat, NEW d, NEW e, DOMAIN d = 0 .. N - 1, DOMAIN e = 0 .. N - 1,
         NEW n \in 0 .. N, \A i \in 0 .. n - 1 : e[i].cur = d[i].cur
  PROVE  Prefix(Latest(e), n) = Prefix(Latest(d), n)
BY DEF Prefix, Latest

\* The blocks of g are the n blocks of p and then the m blocks of q.
IsCat(g, p, n, q, m) ==
  /\ n \in Nat
  /\ m \in Nat
  /\ \A i \in 0 .. n + m - 1 : g[i] = IF i < n THEN p[i] ELSE q[i - n]

\* A region whose blocks are those of p and then those of q reads so.
LEMMA PrefixIsCat ==
  ASSUME NEW g, NEW p, NEW n, NEW q, NEW m, IsCat(g, p, n, q, m)
  PROVE  Prefix(g, n + m) = Cat(p, n, q, m)
BY DEF Prefix, Cat, IsCat

\* e is the region d after q was written behind its first n blocks.
Appends(N, V, d, n, q, m, e) ==
  /\ N \in Nat
  /\ d \in [0 .. N - 1 -> ValuSet(V)]
  /\ n \in Nat /\ m \in Nat /\ n + m <= N
  /\ q \in [0 .. m - 1 -> V]
  /\ e = WriteRange(d, n, q, m)

\* Writing m blocks after the first n leaves these alone, and what is read
\* afterwards is the old blocks followed by the new ones.
LEMMA WriteRangeReads ==
  ASSUME NEW N, NEW V, NEW d, NEW n, NEW q, NEW m, NEW e, Appends(N, V, d, n, q, m, e)
  PROVE  /\ e \in [0 .. N - 1 -> ValuSet(V)]
         /\ \A i \in 0 .. n - 1 : e[i] = d[i]
         /\ Prefix(Latest(e), n + m) = Cat(Prefix(Latest(d), n), n, q, m)
<1> USE DEF Appends
<1>1. DOMAIN e = 0 .. N - 1
  BY Zenon DEF WriteRange, WriteBlocks
<1>2. \A i \in 0 .. N - 1 :
        e[i] = IF i \in n .. n + m - 1 THEN Overwrite(d[i], q[i - n]) ELSE d[i]
  BY Zenon DEF WriteRange, WriteBlocks
<1>3. e = [i \in 0 .. N - 1 |-> e[i]]
  BY Zenon DEF WriteRange, WriteBlocks
<1>4. \A i \in 0 .. N - 1 : e[i] \in ValuSet(V)
  <2> TAKE i \in 0 .. N - 1
  <2>1. d[i] \in ValuSet(V)
    BY Zenon
  <2>2. CASE i \in n .. n + m - 1
    <3>1. i - n \in 0 .. m - 1
      BY <2>2
    <3>2. q[i - n] \in V
      BY <3>1, Zenon
    <3>3. Overwrite(d[i], q[i - n]) \in ValuSet(V)
      BY <2>1, <3>2, Zenon DEF Overwrite, Merge, ValuSet
    <3> QED
      BY <1>2, <2>2, <3>3, Zenon
  <2>3. CASE i \notin n .. n + m - 1
    BY <1>2, <2>1, <2>3, Zenon
  <2> QED
    BY <2>2, <2>3, Zenon
<1>5. e \in [0 .. N - 1 -> ValuSet(V)]
  BY <1>3, <1>4, Zenon
<1>6. \A i \in 0 .. n - 1 : e[i] = d[i]
  BY <1>2
<1>7. Prefix(Latest(e), n + m) = Cat(Prefix(Latest(d), n), n, q, m)
  <2>1. \A i \in 0 .. n + m - 1 : Latest(e)[i] = e[i].cur
    BY <1>1 DEF Latest
  <2>2. \A i \in 0 .. n - 1 : Prefix(Latest(d), n)[i] = d[i].cur
    BY DEF Latest, Prefix
  <2>3. ASSUME NEW i \in 0 .. n + m - 1
        PROVE  Latest(e)[i] = IF i < n THEN Prefix(Latest(d), n)[i] ELSE q[i - n]
    <3>1. CASE i < n
      BY <2>1, <2>2, <1>6, <3>1
    <3>2. CASE ~(i < n)
      <4>1. i \in 0 .. N - 1 /\ i \in n .. n + m - 1
        BY <3>2
      <4>2. e[i] = Overwrite(d[i], q[i - n])
        BY <1>2, <4>1, Zenon
      <4>3. e[i].cur = q[i - n]
        BY <4>2 DEF Overwrite
      <4> QED
        BY <2>1, <3>2, <4>3, Zenon
    <3> QED
      BY <3>1, <3>2, Zenon
  <2>4. IsCat(Latest(e), Prefix(Latest(d), n), n, q, m)
    BY <2>3, Zenon DEF IsCat
  <2> QED
    BY <2>4, PrefixIsCat
<1> QED
  BY <1>5, <1>6, <1>7

\* e is the region d after a flush of the blocks S.
Syncs(N, V, d, S, e) ==
  N \in Nat /\ d \in [0 .. N - 1 -> ValuSet(V)] /\ e = SyncBlocks(d, S)

\* Flushing blocks does not change what is read.
LEMMA SyncReads ==
  ASSUME NEW N, NEW V, NEW d, NEW S, NEW e, Syncs(N, V, d, S, e)
  PROVE  /\ e \in [0 .. N - 1 -> ValuSet(V)]
         /\ Latest(e) = Latest(d)
         /\ \A i \in 0 .. N - 1 : e[i].old = IF i \in S THEN {} ELSE d[i].old
BY Zenon DEF Syncs, SyncBlocks, Settled, Latest, ValuSet

\* e is what a crash leaves of the region d.
Crashes(N, V, d, e) ==
  /\ N \in Nat
  /\ d \in [0 .. N - 1 -> ValuSet(V)]
  /\ \E f \in CrashOutcomes(d) : e = Flushed(f)

\* After a crash every block is settled on one of its values; those that
\* were settled before the crash have not changed.
LEMMA CrashReads ==
  ASSUME NEW N, NEW V, NEW d, NEW e, Crashes(N, V, d, e)
  PROVE  /\ e \in [0 .. N - 1 -> ValuSet(V)]
         /\ \A i \in 0 .. N - 1 : e[i].old = {}
         /\ \A i \in 0 .. N - 1 : d[i].old = {} => e[i].cur = d[i].cur
<1> USE DEF Crashes
<1>0. PICK f \in CrashOutcomes(d) : e = Flushed(f)
  BY Zenon
<1>1. /\ DOMAIN f = 0 .. N - 1
      /\ \A i \in 0 .. N - 1 : f[i] \in Merge(d[i])
  BY Zenon DEF CrashOutcomes
<1>2. \A i \in 0 .. N - 1 : f[i] \in V
  BY <1>1, Zenon DEF Merge, ValuSet
<1>3. e = [i \in 0 .. N - 1 |-> [cur |-> f[i], old |-> {}]]
  BY <1>0, <1>1, Zenon DEF Flushed, Settled
<1>4. \A i \in 0 .. N - 1 : d[i].old = {} => f[i] = d[i].cur
  BY <1>1, Zenon DEF Merge
<1> QED
  BY <1>2, <1>3, <1>4, Zenon DEF ValuSet

-----------------------------------------------------------------------------
\* At most N blocks.
LEMMA BlocksIntro ==
  ASSUME NEW N \in Nat, NEW V, NEW n \in 0 .. N, NEW f \in [0 .. n - 1 -> V]
  PROVE  f \in Blocks(V, N)
BY Zenon DEF Blocks

\* The contents of the log, of a state and of the next one.
LEMMA ContentsTyped ==
  ASSUME NEW d \in [0 .. LogDescLen - 1 -> ValuSet(DescBlock)],
         NEW e \in [0 .. LogLen - 1 -> ValuSet(Val)], NEW len \in LengthType
  PROVE  [addrs |-> Prefix(Latest(d), len.ndesc), vals |-> Prefix(Latest(e), len.ndata)]
           \in ContentsType
<1>1. len.ndesc \in 0 .. LogDescLen /\ len.ndata \in 0 .. LogLen
  BY Zenon DEF LengthType
<1>2. Prefix(Latest(d), len.ndesc) \in [0 .. len.ndesc - 1 -> DescBlock]
  BY <1>1, LogAssumption, PrefixType, Zenon
<1>3. Prefix(Latest(e), len.ndata) \in [0 .. len.ndata - 1 -> Val]
  BY <1>1, LogLenNat, PrefixType
<1>4. Prefix(Latest(d), len.ndesc) \in Blocks(DescBlock, LogDescLen)
  BY <1>1, <1>2, LogAssumption, BlocksIntro
<1>5. Prefix(Latest(e), len.ndata) \in Blocks(Val, LogLen)
  BY <1>1, <1>3, LogLenNat, BlocksIntro, Zenon
<1> QED
  BY <1>4, <1>5, Zenon DEF ContentsType

\* The empty log is a log.
LEMMA EmptyTyped ==
  /\ EmptyContents \in ContentsType
  /\ Length(0, 0) \in LengthType
  /\ \A d, e : [addrs |-> Prefix(d, 0), vals |-> Prefix(e, 0)] = EmptyContents
<1>1. \A d : Prefix(d, 0) = [i \in {} |-> 0]
  BY DEF Prefix
<1>2. 0 \in 0 .. LogDescLen /\ 0 \in 0 .. LogLen
  BY LogAssumption, LogLenNat
<1>3. \A V : [i \in {} |-> 0] \in [0 .. 0 - 1 -> V]
  OBVIOUS
<1>4. /\ [i \in {} |-> 0] \in Blocks(DescBlock, LogDescLen)
      /\ [i \in {} |-> 0] \in Blocks(Val, LogLen)
  BY <1>2, <1>3, LogAssumption, LogLenNat, BlocksIntro
<1>5. EmptyContents \in ContentsType
  BY <1>1, <1>4, Zenon DEF EmptyContents, ContentsType
<1> QED
  BY <1>1, <1>2, <1>5 DEF EmptyContents, LengthType, Length

\* The log that init leaves on a zeroed disk satisfies the invariant.
LEMMA InitInv == Init => IInv
<1> SUFFICES ASSUME Init PROVE IInv
  BY Zenon
<1>1. ZeroBlock \in DescBlock
  BY Zenon DEF ZeroBlock, DescBlock
<1>2. desc \in [0 .. LogDescLen - 1 -> ValuSet(DescBlock)]
  BY <1>1, Zenon DEF Init, Flushed, Settled, ValuSet
<1>3. data \in [0 .. LogLen - 1 -> ValuSet(Val)]
  BY LogAssumption, Zenon DEF Init, Flushed, Settled, ValuSet
<1>4. hdr \in ValuSet(HeaderType)
  BY EmptyTyped, Zenon DEF Init, Settled, ValuSet, HeaderType, Header
<1>5. TypeOK
  <2>1. arg \in Seq(Entry)
    BY DEF Init
  <2>2. before \in ContentsType /\ after \in ContentsType
    BY EmptyTyped, Zenon DEF Init
  <2> QED
    BY <1>2, <1>3, <1>4, <2>1, <2>2 DEF TypeOK, Init
<1>6. /\ hdr.old = {}
      /\ hdr.cur.len = Length(0, 0)
      /\ hdr.cur.sum = EmptyContents
  BY Zenon DEF Init, Settled, Header
<1>7. Contents(Length(0, 0)) = EmptyContents
  BY EmptyTyped, Zenon DEF Contents, Length
<1>8. ReadyInv
  BY <1>6, <1>7 DEF ReadyInv, Init, Holds, SettledBelow, Length
<1> QED
  BY <1>5, <1>8, Zenon DEF IInv, Init, ExtendInv, TruncInv, DownInv, RollbackInv

-----------------------------------------------------------------------------
\* extend writes only behind the log as it is, so that the old contents stay
\* settled, and what it writes is what its checksums say.
LEMMA ExtendStep == ASSUME IInv, NEW log \in Logs, Extend(log) PROVE IInv'
<1>0. PICK h : h = hdr.cur
  BY Zenon
<1> DEFINE nd == NdescLog(log)
           nv == NdataLog(log)
           len == Length(h.len.ndesc + nd, h.len.ndata + nv)
           sum == [addrs |-> Cat(h.sum.addrs, h.len.ndesc, IPack(log), nd),
                   vals  |-> Cat(h.sum.vals, h.len.ndata, EntVals(log), nv)]
<1>1. /\ TypeOK
      /\ ReadyInv
      /\ pc = "ready"
      /\ pc' = "extend"
      /\ arg' = log
      /\ after' = sum
      /\ before' = before
      /\ hdr' = Overwrite(hdr, Header(h.len, len, sum))
      /\ desc' = WriteRange(desc, h.len.ndesc, IPack(log), nd)
      /\ data' = WriteRange(data, h.len.ndata, EntVals(log), nv)
  BY <1>0, Zenon DEF Extend, IInv
<1>2. LoglenValid(h.len.ndesc + nd, h.len.ndata + nv)
  BY <1>0, Zenon DEF Extend
<1>3. log \in Seq(Entry)
  BY LogAssumption, Zenon
<1>4. nd \in Nat /\ nv \in Nat
  BY <1>3, NdescNat DEF NdataLog
<1>5. IPack(log) \in [0 .. nd - 1 -> DescBlock] /\ EntVals(log) \in [0 .. nv - 1 -> Val]
  BY <1>3, IPackType, EntValsType
<1>6. /\ h \in HeaderType
      /\ h.len \in LengthType
      /\ h.len.ndesc \in Nat
      /\ h.len.ndata \in Nat
  BY <1>0, <1>1 DEF TypeOK, ValuSet, HeaderType, LengthType
<1>7. h.len.ndesc + nd <= LogDescLen /\ h.len.ndata + nv <= LogLen
  BY <1>2, Zenon DEF LoglenValid
<1>8. /\ hdr.old = {}
      /\ h.sum = before
      /\ Contents(h.len) = before
      /\ SettledBelow(desc, h.len.ndesc)
      /\ SettledBelow(data, h.len.ndata)
  BY <1>0, <1>1, Zenon DEF ReadyInv, Holds
<1>9. /\ h.sum.addrs = Prefix(Latest(desc), h.len.ndesc)
      /\ h.sum.vals = Prefix(Latest(data), h.len.ndata)
  BY <1>8 DEF Contents
<1> HIDE DEF nd, nv
<1>10. /\ desc' \in [0 .. LogDescLen - 1 -> ValuSet(DescBlock)]
       /\ \A i \in 0 .. h.len.ndesc - 1 : desc'[i] = desc[i]
       /\ Prefix(Latest(desc'), h.len.ndesc + nd) = sum.addrs
  <2>1. desc \in [0 .. LogDescLen - 1 -> ValuSet(DescBlock)]
    BY <1>1, Zenon DEF TypeOK
  <2>2. /\ desc' \in [0 .. LogDescLen - 1 -> ValuSet(DescBlock)]
        /\ \A i \in 0 .. h.len.ndesc - 1 : desc'[i] = desc[i]
        /\ Prefix(Latest(desc'), h.len.ndesc + nd)
             = Cat(Prefix(Latest(desc), h.len.ndesc), h.len.ndesc, IPack(log), nd)
    <3>1. desc' = WriteRange(desc, h.len.ndesc, IPack(log), nd)
      BY <1>1, Zenon
    <3>2. Appends(LogDescLen, DescBlock, desc, h.len.ndesc, IPack(log), nd, desc')
      BY <2>1, <3>1, <1>4, <1>5, <1>6, <1>7, LogAssumption DEF Appends
    <3> QED
      BY <3>2, WriteRangeReads
  <2> QED
    BY <2>2, <1>9, Zenon
<1>11. /\ data' \in [0 .. LogLen - 1 -> ValuSet(Val)]
       /\ \A i \in 0 .. h.len.ndata - 1 : data'[i] = data[i]
       /\ Prefix(Latest(data'), h.len.ndata + nv) = sum.vals
  <2>1. data \in [0 .. LogLen - 1 -> ValuSet(Val)]
    BY <1>1, Zenon DEF TypeOK
  <2>2. /\ data' \in [0 .. LogLen - 1 -> ValuSet(Val)]
        /\ \A i \in 0 .. h.len.ndata - 1 : data'[i] = data[i]
        /\ Prefix(Latest(data'), h.len.ndata + nv)
             = Cat(Prefix(Latest(data), h.len.ndata), h.len.ndata, EntVals(log), nv)
    <3>1. data' = WriteRange(data, h.len.ndata, EntVals(log), nv)
      BY <1>1, Zenon
    <3>2. Appends(LogLen, Val, data, h.len.ndata, EntVals(log), nv, data')
      BY <2>1, <3>1, <1>4, <1>5, <1>6, <1>7, LogLenNat, Zenon DEF Appends
    <3> QED
      BY <3>2, WriteRangeReads
  <2> QED
    BY <2>2, <1>9
<1>12. len \in LengthType
  BY <1>4, <1>6, <1>7, LogAssumption, LogLenNat DEF Length, LengthType
<1>13. len.ndesc = h.len.ndesc + nd /\ len.ndata = h.len.ndata + nv
  BY Zenon DEF Length
<1> HIDE DEF len
<1>14. Contents(len)' = sum
  BY <1>10, <1>11, <1>13 DEF Contents
<1>15. Contents(h.len)' = before
  <2>1. Prefix(Latest(desc'), h.len.ndesc) = Prefix(Latest(desc), h.len.ndesc)
    <3>1. DOMAIN desc = 0 .. LogDescLen - 1 /\ DOMAIN desc' = 0 .. LogDescLen - 1
      BY <1>1, <1>10, Zenon DEF TypeOK
    <3>2. h.len.ndesc \in 0 .. LogDescLen
      BY <1>6, Zenon DEF LengthType
    <3> QED
      BY <3>1, <3>2, <1>10, LogAssumption, PrefixSame
  <2>2. Prefix(Latest(data'), h.len.ndata) = Prefix(Latest(data), h.len.ndata)
    <3>1. DOMAIN data = 0 .. LogLen - 1 /\ DOMAIN data' = 0 .. LogLen - 1
      BY <1>1, <1>11, Zenon DEF TypeOK
    <3>2. h.len.ndata \in 0 .. LogLen
      BY <1>6, Zenon DEF LengthType
    <3> QED
      BY <3>1, <3>2, <1>11, LogLenNat, PrefixSame
  <2> QED
    BY <2>1, <2>2, <1>8 DEF Contents
<1>16. sum \in ContentsType
  <2>1. Contents(len)' \in ContentsType
    BY <1>10, <1>11, <1>12, ContentsTyped DEF Contents
  <2> QED
    BY <2>1, <1>14
<1> HIDE DEF sum
<1>17. /\ hdr'.cur = Header(h.len, len, sum)
       /\ hdr'.old = {h}
  BY <1>0, <1>1, <1>8, Zenon DEF Overwrite, Merge
<1>18. TypeOK'
  <2>1. hdr' \in ValuSet(HeaderType)
    BY <1>0, <1>1, <1>6, <1>8, <1>12, <1>16
    DEF Overwrite, Merge, Header, ValuSet, HeaderType
  <2> QED
    BY <2>1, <1>1, <1>3, <1>10, <1>11, <1>16 DEF TypeOK
<1>19. ExtendInv'
  <2>1. Holds(h.len, before)'
    BY <1>1, <1>8, <1>10, <1>11, <1>15, Zenon DEF Holds, SettledBelow
  <2> QED
    BY <2>1, <1>1, <1>8, <1>13, <1>14, <1>17 DEF ExtendInv, Header, nd, nv
<1> QED
  BY <1>1, <1>18, <1>19 DEF IInv, ReadyInv, TruncInv, DownInv, RollbackInv

\* A block below l is one of the k last ones or below the p first ones.
LEMMA BelowOrWritten ==
  ASSUME NEW N \in Nat, NEW p \in 0 .. N, NEW l \in 0 .. N, NEW k \in Nat, l = p + k,
         NEW i \in 0 .. l - 1
  PROVE  i \in 0 .. N - 1 /\ (i \in p .. p + k - 1 \/ i \in 0 .. p - 1)
OBVIOUS

\* The flush of extend settles all that the new header covers.
LEMMA ExtendSyncStep == ASSUME IInv, ExtendSync PROVE IInv'
<1>0. PICK h : h = hdr.cur
  BY Zenon
<1>1. /\ TypeOK
      /\ ExtendInv
      /\ pc = "extend"
      /\ pc' = "ready"
      /\ arg' = <<>>
      /\ before' = after
      /\ after' = after
      /\ hdr' = Settled(h)
  BY <1>0, Zenon DEF ExtendSync, IInv
<1>2. desc' = SyncBlocks(desc, h.prev.ndesc .. h.prev.ndesc + NdescLog(arg) - 1)
  BY <1>0, Zenon DEF ExtendSync
<1>3. data' = SyncBlocks(data, h.prev.ndata .. h.prev.ndata + NdataLog(arg) - 1)
  BY <1>0, Zenon DEF ExtendSync
<1>4. /\ h.sum = after
      /\ Contents(h.len) = after
      /\ SettledBelow(desc, h.prev.ndesc)
      /\ SettledBelow(data, h.prev.ndata)
      /\ h.len.ndesc = h.prev.ndesc + NdescLog(arg)
      /\ h.len.ndata = h.prev.ndata + NdataLog(arg)
  BY <1>0, <1>1, Zenon DEF ExtendInv, Holds
<1>5. /\ h \in HeaderType
      /\ h.len \in LengthType /\ h.prev \in LengthType
      /\ desc \in [0 .. LogDescLen - 1 -> ValuSet(DescBlock)]
      /\ data \in [0 .. LogLen - 1 -> ValuSet(Val)]
  BY <1>0, <1>1, Zenon DEF TypeOK, ValuSet, HeaderType
<1>6. /\ h.len.ndesc \in 0 .. LogDescLen /\ h.prev.ndesc \in 0 .. LogDescLen
      /\ h.len.ndata \in 0 .. LogLen /\ h.prev.ndata \in 0 .. LogLen
  BY <1>5, Zenon DEF LengthType
<1>13. NdescLog(arg) \in Nat /\ NdataLog(arg) \in Nat
  BY <1>1, NdescNat DEF TypeOK, NdataLog
<1>7. /\ desc' \in [0 .. LogDescLen - 1 -> ValuSet(DescBlock)]
      /\ Latest(desc') = Latest(desc)
      /\ SettledBelow(desc, h.len.ndesc)'
  <2>0. PICK S : S = h.prev.ndesc .. h.prev.ndesc + NdescLog(arg) - 1
    BY Zenon
  <2>1. Syncs(LogDescLen, DescBlock, desc, S, desc')
    BY <2>0, <1>2, <1>5, LogAssumption DEF Syncs
  <2>2. \A i \in 0 .. LogDescLen - 1 : desc'[i].old = IF i \in S THEN {} ELSE desc[i].old
    BY <2>1, SyncReads
  <2>3. SettledBelow(desc, h.len.ndesc)'
    <3> SUFFICES ASSUME NEW i \in 0 .. h.len.ndesc - 1 PROVE desc'[i].old = {}
      BY Zenon DEF SettledBelow
    <3>0. PICK p, l, k : p = h.prev.ndesc /\ l = h.len.ndesc /\ k = NdescLog(arg)
      BY Zenon
    <3>2. l = p + k
      BY <3>0, <1>4, Zenon
    <3>3. p \in 0 .. LogDescLen /\ l \in 0 .. LogDescLen /\ k \in Nat /\ i \in 0 .. l - 1
      BY <3>0, <1>6, <1>13
    <3>1. i \in 0 .. LogDescLen - 1 /\ (i \in S \/ i \in 0 .. h.prev.ndesc - 1)
      BY <2>0, <3>0, <3>2, <3>3, LogAssumption, BelowOrWritten, SMTT(20)
    <3> QED
      BY <3>1, <2>2, <1>4, Zenon DEF SettledBelow
  <2> QED
    BY <2>1, <2>3, SyncReads
<1>8. /\ data' \in [0 .. LogLen - 1 -> ValuSet(Val)]
      /\ Latest(data') = Latest(data)
      /\ SettledBelow(data, h.len.ndata)'
  <2>0. PICK S : S = h.prev.ndata .. h.prev.ndata + NdataLog(arg) - 1
    BY Zenon
  <2>1. Syncs(LogLen, Val, data, S, data')
    BY <2>0, <1>3, <1>5, LogLenNat DEF Syncs
  <2>2. \A i \in 0 .. LogLen - 1 : data'[i].old = IF i \in S THEN {} ELSE data[i].old
    BY <2>1, SyncReads
  <2>3. SettledBelow(data, h.len.ndata)'
    <3> SUFFICES ASSUME NEW i \in 0 .. h.len.ndata - 1 PROVE data'[i].old = {}
      BY Zenon DEF SettledBelow
    <3>0. PICK p, l, k : p = h.prev.ndata /\ l = h.len.ndata /\ k = NdataLog(arg)
      BY Zenon
    <3>2. l = p + k
      BY <3>0, <1>4, Zenon
    <3>3. p \in 0 .. LogLen /\ l \in 0 .. LogLen /\ k \in Nat /\ i \in 0 .. l - 1
      BY <3>0, <1>6, <1>13
    <3>1. i \in 0 .. LogLen - 1 /\ (i \in S \/ i \in 0 .. h.prev.ndata - 1)
      BY <2>0, <3>0, <3>2, <3>3, LogLenNat, BelowOrWritten, SMTT(20)
    <3> QED
      BY <3>1, <2>2, <1>4, Zenon DEF SettledBelow
  <2> QED
    BY <2>1, <2>3, SyncReads
<1>9. Contents(h.len)' = after
  BY <1>4, <1>7, <1>8, Zenon DEF Contents
<1>10. hdr'.cur = h /\ hdr'.old = {}
  BY <1>1, Zenon DEF Settled
<1>11. TypeOK'
  <2>1. hdr' \in ValuSet(HeaderType)
    BY <1>1, <1>5, Zenon DEF Settled, ValuSet
  <2>2. arg' \in Seq(Entry)
    BY <1>1
  <2> QED
    BY <2>1, <2>2, <1>1, <1>7, <1>8 DEF TypeOK
<1>12. ReadyInv'
  BY <1>1, <1>4, <1>7, <1>8, <1>9, <1>10, Zenon DEF ReadyInv, Holds
<1> QED
  BY <1>1, <1>11, <1>12 DEF IInv, ExtendInv, TruncInv, DownInv, RollbackInv

\* trunc writes a header that covers no block.
LEMMA TruncStep == ASSUME IInv, Trunc PROVE IInv'
<1>0. PICK h : h = hdr.cur
  BY Zenon
<1>1. /\ TypeOK
      /\ ReadyInv
      /\ pc = "ready"
      /\ pc' = "trunc"
      /\ UNCHANGED <<desc, data, arg, before>>
      /\ after' = EmptyContents
      /\ hdr' = Overwrite(hdr, Header(h.len, Length(0, 0), EmptyContents))
  BY <1>0, Zenon DEF Trunc, IInv
<1>2. /\ hdr.old = {}
      /\ h.sum = before
      /\ Holds(h.len, before)
  BY <1>0, <1>1, Zenon DEF ReadyInv
<1>3. h \in HeaderType /\ h.len \in LengthType
  BY <1>0, <1>1 DEF TypeOK, ValuSet, HeaderType
<1>4. /\ hdr'.cur = Header(h.len, Length(0, 0), EmptyContents)
      /\ hdr'.old = {h}
  BY <1>0, <1>1, <1>2 DEF Overwrite, Merge
<1>5. TypeOK'
  <2>1. hdr' \in ValuSet(HeaderType)
    BY <1>0, <1>1, <1>2, <1>3, EmptyTyped
    DEF Overwrite, Merge, Header, ValuSet, HeaderType
  <2> QED
    BY <2>1, <1>1, EmptyTyped DEF TypeOK
<1>6. TruncInv'
  <2>1. Holds(h.len, before)'
    BY <1>1, <1>2, Zenon DEF Holds, Contents, SettledBelow
  <2> QED
    BY <2>1, <1>1, <1>2, <1>4 DEF TruncInv, Header
<1> QED
  BY <1>1, <1>5, <1>6 DEF IInv, ReadyInv, ExtendInv, DownInv, RollbackInv

\* The flush of trunc completes it: the empty log is what before becomes.
LEMMA TruncSyncStep == ASSUME IInv, TruncSync PROVE IInv'
<1>0. PICK h : h = hdr.cur
  BY Zenon
<1>1. /\ TypeOK
      /\ TruncInv
      /\ pc = "trunc"
      /\ pc' = "ready"
      /\ UNCHANGED <<desc, data, arg, after>>
      /\ before' = after
      /\ hdr' = Settled(h)
  BY <1>0, Zenon DEF TruncSync, IInv
<1>2. /\ h.len = Length(0, 0)
      /\ h.sum = EmptyContents
      /\ after = EmptyContents
  BY <1>0, <1>1, Zenon DEF TruncInv
<1>3. h \in HeaderType
  BY <1>0, <1>1 DEF TypeOK, ValuSet
<1>4. hdr'.cur = h /\ hdr'.old = {}
  BY <1>1, Zenon DEF Settled
<1>5. TypeOK'
  <2>1. hdr' \in ValuSet(HeaderType)
    BY <1>1, <1>3 DEF Settled, ValuSet
  <2> QED
    BY <2>1, <1>1 DEF TypeOK
<1>6. Holds(Length(0, 0), EmptyContents)'
  BY EmptyTyped DEF Holds, Contents, SettledBelow, Length
<1>7. ReadyInv'
  BY <1>1, <1>2, <1>4, <1>6 DEF ReadyInv
<1> QED
  BY <1>1, <1>5, <1>7 DEF IInv, ExtendInv, TruncInv, DownInv, RollbackInv

-----------------------------------------------------------------------------
\* A crash settles every block, and leaves alone those that were settled.
LEMMA CrashRegions ==
  ASSUME IInv, Crash
  PROVE  /\ desc' \in [0 .. LogDescLen - 1 -> ValuSet(DescBlock)]
         /\ data' \in [0 .. LogLen - 1 -> ValuSet(Val)]
         /\ AllSettled'
         /\ \A len \in LengthType :
              SettledBelow(desc, len.ndesc) /\ SettledBelow(data, len.ndata) =>
                /\ Prefix(Latest(desc'), len.ndesc) = Prefix(Latest(desc), len.ndesc)
                /\ Prefix(Latest(data'), len.ndata) = Prefix(Latest(data), len.ndata)
<1>1. /\ desc \in [0 .. LogDescLen - 1 -> ValuSet(DescBlock)]
      /\ data \in [0 .. LogLen - 1 -> ValuSet(Val)]
  BY Zenon DEF IInv, TypeOK
<1>2. Crashes(LogDescLen, DescBlock, desc, desc') /\ Crashes(LogLen, Val, data, data')
  BY <1>1, LogAssumption, LogLenNat DEF Crash, Crashes
<1>3. /\ desc' \in [0 .. LogDescLen - 1 -> ValuSet(DescBlock)]
      /\ \A i \in 0 .. LogDescLen - 1 : desc'[i].old = {}
      /\ \A i \in 0 .. LogDescLen - 1 : desc[i].old = {} => desc'[i].cur = desc[i].cur
  BY <1>2, CrashReads
<1>4. /\ data' \in [0 .. LogLen - 1 -> ValuSet(Val)]
      /\ \A i \in 0 .. LogLen - 1 : data'[i].old = {}
      /\ \A i \in 0 .. LogLen - 1 : data[i].old = {} => data'[i].cur = data[i].cur
  BY <1>2, CrashReads
<1>5. AllSettled'
  BY <1>3, <1>4 DEF AllSettled, SettledBelow
<1>6. ASSUME NEW len \in LengthType,
             SettledBelow(desc, len.ndesc), SettledBelow(data, len.ndata)
      PROVE  /\ Prefix(Latest(desc'), len.ndesc) = Prefix(Latest(desc), len.ndesc)
             /\ Prefix(Latest(data'), len.ndata) = Prefix(Latest(data), len.ndata)
  <2>1. len.ndesc \in 0 .. LogDescLen /\ len.ndata \in 0 .. LogLen
    BY Zenon DEF LengthType
  <2>2. \A i \in 0 .. len.ndesc - 1 : desc'[i].cur = desc[i].cur
    BY <1>3, <1>6, <2>1, LogAssumption DEF SettledBelow
  <2>3. \A i \in 0 .. len.ndata - 1 : data'[i].cur = data[i].cur
    BY <1>4, <1>6, <2>1, LogLenNat DEF SettledBelow
  <2>4. Prefix(Latest(desc'), len.ndesc) = Prefix(Latest(desc), len.ndesc)
    BY <1>1, <1>3, <2>1, <2>2, LogAssumption DEF Prefix, Latest
  <2>5. Prefix(Latest(data'), len.ndata) = Prefix(Latest(data), len.ndata)
    BY <1>1, <1>4, <2>1, <2>3, LogLenNat DEF Prefix, Latest
  <2> QED
    BY <2>4, <2>5, Zenon
<1> QED
  BY <1>3, <1>4, <1>5, <1>6

\* Whatever the crash keeps, the surviving header either matches its blocks
\* or carries the lengths of the contents before the interrupted call.
LEMMA CrashStep == ASSUME IInv, Crash PROVE IInv'
<1>1. PICK h \in Merge(hdr) : hdr' = Settled(h)
  BY Zenon DEF Crash
<1>2. PICK c : c = hdr.cur
  BY Zenon
<1>3. /\ pc' = "down"
      /\ arg' = <<>>
      /\ before' = before
      /\ after' = after
      /\ hdr'.cur = h
      /\ hdr'.old = {}
  BY <1>1, Zenon DEF Crash, Settled
<1>4. /\ hdr \in ValuSet(HeaderType)
      /\ pc \in {"ready", "full", "extend", "trunc", "rollback"}
  BY Zenon DEF IInv, TypeOK, Crash
<1>5. h \in HeaderType /\ c \in HeaderType
  BY <1>1, <1>2, <1>4 DEF Merge, ValuSet
<1>6. /\ h.len \in LengthType /\ h.prev \in LengthType
      /\ c.len \in LengthType /\ c.prev \in LengthType
  BY <1>5, Zenon DEF HeaderType
<1>7. TypeOK'
  <2>1. hdr' \in ValuSet(HeaderType)
    BY <1>1, <1>5, Zenon DEF Settled, ValuSet
  <2>2. arg' \in Seq(Entry)
    BY <1>3
  <2> QED
    BY <2>1, <2>2, <1>3, CrashRegions DEF TypeOK, IInv
<1>8. ASSUME NEW len \in LengthType, NEW x, Holds(len, x)
      PROVE  Contents(len)' = x
  BY <1>8, CrashRegions, Zenon DEF Holds, Contents
<1>9. \/ Contents(h.len)' = h.sum /\ h.sum \in {before, after}
      \/ h.sum = after /\ Contents(h.prev)' = before
  <2>1. CASE pc \in {"ready", "full"}
    <3>1. h = c /\ h.sum = before /\ Holds(h.len, before)
      BY <2>1, <1>1, <1>2, Zenon DEF IInv, ReadyInv, Merge
    <3> QED
      BY <3>1, <1>6, <1>8, Zenon
  <2>2. CASE pc = "extend"
    <3>1. /\ Holds(c.prev, before)
          /\ c.sum = after
          /\ h # c => h.len = c.prev /\ h.sum = before
      BY <2>2, <1>1, <1>2, Zenon DEF IInv, ExtendInv, Merge
    <3>2. Contents(c.prev)' = before
      BY <3>1, <1>6, <1>8, Zenon
    <3>3. CASE h = c
      BY <3>1, <3>2, <3>3, Zenon
    <3>4. CASE h # c
      BY <3>1, <3>2, <3>4
    <3> QED
      BY <3>3, <3>4, Zenon
  <2>3. CASE pc = "trunc"
    <3>1. /\ Holds(c.prev, before)
          /\ c.len = Length(0, 0) /\ c.sum = EmptyContents /\ after = EmptyContents
          /\ h # c => h.len = c.prev /\ h.sum = before
      BY <2>3, <1>1, <1>2, Zenon DEF IInv, TruncInv, Merge
    <3>2. Contents(c.prev)' = before
      BY <3>1, <1>6, <1>8, Zenon
    <3>3. Contents(Length(0, 0))' = EmptyContents
      BY EmptyTyped, Zenon DEF Contents, Length
    <3>4. CASE h = c
      BY <3>1, <3>3, <3>4, Zenon
    <3>5. CASE h # c
      BY <3>1, <3>2, <3>5, Zenon
    <3> QED
      BY <3>4, <3>5, Zenon
  <2>4. CASE pc = "rollback"
    <3>1. /\ AllSettled
          /\ c.sum = before /\ Contents(c.len) = before
          /\ h # c => h.sum = after /\ h.prev = c.len
      BY <2>4, <1>1, <1>2 DEF IInv, RollbackInv, Merge
    <3>2. c.len.ndesc \in 0 .. LogDescLen /\ c.len.ndata \in 0 .. LogLen
      BY <1>6, Zenon DEF LengthType
    <3>3. SettledBelow(desc, c.len.ndesc) /\ SettledBelow(data, c.len.ndata)
      BY <3>1, <3>2, LogAssumption, LogLenNat DEF AllSettled, SettledBelow
    <3>4. Contents(c.len)' = before
      BY <3>1, <3>3, <1>6, <1>8 DEF Holds
    <3>5. CASE h = c
      BY <3>1, <3>4, <3>5
    <3>6. CASE h # c
      BY <3>1, <3>4, <3>6, Zenon
    <3> QED
      BY <3>5, <3>6, Zenon
  <2> QED
    BY <1>4, <2>1, <2>2, <2>3, <2>4
<1>10. Contents(hdr.cur.len)' = Contents(h.len)' /\ Contents(hdr.cur.prev)' = Contents(h.prev)'
  BY <1>3, Zenon DEF Contents
<1>11. DownInv'
  BY <1>3, <1>9, <1>10, CrashRegions, Zenon DEF DownInv, ChecksumsMatch
<1> QED
  BY <1>3, <1>7, <1>11, Zenon DEF IInv, ReadyInv, ExtendInv, TruncInv, RollbackInv

\* A log that is settled everywhere holds its contents.
LEMMA SettledHolds ==
  ASSUME AllSettled, NEW len \in LengthType
  PROVE  Holds(len, Contents(len))
<1>1. len.ndesc \in 0 .. LogDescLen /\ len.ndata \in 0 .. LogLen
  BY Zenon DEF LengthType
<1> QED
  BY <1>1, LogAssumption, LogLenNat DEF AllSettled, SettledBelow, Holds

\* recover keeps a log whose checksums match.
LEMMA RecoverKeepStep == ASSUME IInv, RecoverKeep PROVE IInv'
<1>1. /\ TypeOK
      /\ DownInv
      /\ pc = "down"
      /\ pc' = "ready"
      /\ UNCHANGED <<hdr, desc, data, arg>>
      /\ before' = Contents(hdr.cur.len)
      /\ after' = Contents(hdr.cur.len)
      /\ Contents(hdr.cur.len) = hdr.cur.sum
  BY Zenon DEF RecoverKeep, IInv, ChecksumsMatch
<1>2. hdr.cur.len \in LengthType /\ hdr.cur.sum \in ContentsType
  BY <1>1, Zenon DEF TypeOK, ValuSet, HeaderType
<1>3. hdr.old = {} /\ Holds(hdr.cur.len, Contents(hdr.cur.len))
  BY <1>1, <1>2, SettledHolds, Zenon DEF DownInv
<1>4. TypeOK'
  BY <1>1, <1>2, Zenon DEF TypeOK
<1>5. ReadyInv'
  BY <1>1, <1>3, Zenon DEF ReadyInv, Holds, Contents, SettledBelow
<1> QED
  BY <1>1, <1>4, <1>5, Zenon DEF IInv, ExtendInv, TruncInv, DownInv, RollbackInv

\* recover goes back to the previous lengths, whose blocks a crash cannot have
\* changed; the header that it overwrites still does not match the blocks.
LEMMA RecoverRollbackStep == ASSUME IInv, RecoverRollback PROVE IInv'
<1>0. PICK h : h = hdr.cur
  BY Zenon
<1>1. /\ TypeOK
      /\ DownInv
      /\ pc = "down"
      /\ pc' = "rollback"
      /\ UNCHANGED <<desc, data, arg, before, after>>
      /\ hdr' = Overwrite(hdr, Header(h.prev, h.prev, Contents(h.prev)))
      /\ Contents(h.len) # h.sum
  BY <1>0, Zenon DEF RecoverRollback, IInv, ChecksumsMatch
<1>2. /\ hdr.old = {}
      /\ AllSettled
      /\ h.sum = after
      /\ Contents(h.prev) = before
  BY <1>0, <1>1, Zenon DEF DownInv, ChecksumsMatch
<1>3. h \in HeaderType /\ h.prev \in LengthType
  BY <1>0, <1>1, Zenon DEF TypeOK, ValuSet, HeaderType
<1>4. hdr'.cur = Header(h.prev, h.prev, before) /\ hdr'.old = {h}
  BY <1>0, <1>1, <1>2, Zenon DEF Overwrite, Merge
<1>5. TypeOK'
  <2>1. Contents(h.prev) \in ContentsType
    BY <1>1, <1>2, Zenon DEF TypeOK
  <2>2. hdr' \in ValuSet(HeaderType)
    BY <2>1, <1>0, <1>1, <1>2, <1>3 DEF Overwrite, Merge, Header, ValuSet, HeaderType
  <2> QED
    BY <2>2, <1>1, Zenon DEF TypeOK
<1>6. AllSettled' /\ Contents(h.prev)' = before /\ Contents(h.len)' # h.sum
  BY <1>1, <1>2, Zenon DEF AllSettled, SettledBelow, Contents
<1>7. RollbackInv'
  BY <1>1, <1>2, <1>4, <1>6 DEF RollbackInv, Header
<1> QED
  BY <1>1, <1>5, <1>7 DEF IInv, ReadyInv, ExtendInv, TruncInv, DownInv

\* The flush of recover completes the rollback.
LEMMA RollbackSyncStep == ASSUME IInv, RollbackSync PROVE IInv'
<1>1. /\ TypeOK
      /\ RollbackInv
      /\ pc = "rollback"
      /\ pc' = "ready"
      /\ UNCHANGED <<desc, data, arg>>
      /\ before' = Contents(hdr.cur.len)
      /\ after' = Contents(hdr.cur.len)
      /\ hdr' = Settled(hdr.cur)
  BY Zenon DEF RollbackSync, IInv
<1>2. /\ AllSettled
      /\ hdr.cur.sum = before
      /\ Contents(hdr.cur.len) = before
  BY <1>1, Zenon DEF RollbackInv
<1>3. hdr.cur \in HeaderType /\ hdr.cur.len \in LengthType
  BY <1>1, Zenon DEF TypeOK, ValuSet, HeaderType
<1>4. Holds(hdr.cur.len, before)
  BY <1>2, <1>3, SettledHolds, Zenon DEF Holds
<1>5. hdr'.cur = hdr.cur /\ hdr'.old = {} /\ before' = before /\ after' = before
  BY <1>1, <1>2, Zenon DEF Settled
<1>6. TypeOK'
  <2>1. hdr' \in ValuSet(HeaderType)
    BY <1>1, <1>3, Zenon DEF Settled, ValuSet
  <2> QED
    BY <2>1, <1>1, <1>5, Zenon DEF TypeOK
<1>7. ReadyInv'
  BY <1>1, <1>2, <1>4, <1>5 DEF ReadyInv, Holds, Contents, SettledBelow
<1> QED
  BY <1>1, <1>6, <1>7 DEF IInv, ExtendInv, TruncInv, DownInv, RollbackInv

\* A refused extend, its return and a stuttering step change no block.
LEMMA QuietStep ==
  ASSUME IInv, (\E log \in Logs : ExtendFull(log)) \/ ReturnFull \/ UNCHANGED vars
  PROVE  IInv'
<1>1. UNCHANGED <<hdr, desc, data, before, after>>
  BY Zenon DEF ExtendFull, ReturnFull, vars
<1>2. \/ pc' \in {"ready", "full"} /\ pc \in {"ready", "full"}
      \/ pc' = pc /\ arg' = arg
  BY Zenon DEF ExtendFull, ReturnFull, vars
<1>3. arg' \in Seq(Entry)
  <2>1. CASE \E log \in Logs : ExtendFull(log)
    BY <2>1, LogAssumption, Zenon DEF ExtendFull
  <2>2. CASE ReturnFull
    <3>1. arg' = <<>>
      BY <2>2, Zenon DEF ReturnFull
    <3> QED
      BY <3>1
  <2>3. CASE UNCHANGED vars
    BY <2>3, Zenon DEF vars, IInv, TypeOK
  <2> QED
    BY <2>1, <2>2, <2>3, Zenon
<1>4. TypeOK'
  BY <1>1, <1>2, <1>3 DEF IInv, TypeOK
<1>5. ReadyInv'
  BY <1>1, <1>2, Zenon DEF IInv, ReadyInv, Holds, Contents, SettledBelow
<1>6. ExtendInv' /\ TruncInv'
  BY <1>1, <1>2, Zenon DEF IInv, ExtendInv, TruncInv, Holds, Contents, SettledBelow
<1>7. DownInv' /\ RollbackInv'
  BY <1>1, <1>2, Zenon
  DEF IInv, DownInv, RollbackInv, AllSettled, ChecksumsMatch, Contents, SettledBelow
<1> QED
  BY <1>4, <1>5, <1>6, <1>7, Zenon DEF IInv

\* The inductive invariant is preserved by every action.
LEMMA NextInv == IInv /\ [Next]_vars => IInv'
<1> SUFFICES ASSUME IInv, [Next]_vars PROVE IInv'
  BY Zenon
<1>1. CASE \E log \in Logs : Extend(log)
  BY <1>1, ExtendStep, Zenon
<1>2. CASE (\E log \in Logs : ExtendFull(log)) \/ ReturnFull \/ UNCHANGED vars
  BY <1>2, QuietStep, Zenon
<1>3. CASE ExtendSync
  BY <1>3, ExtendSyncStep, Zenon
<1>4. CASE Trunc \/ TruncSync
  BY <1>4, TruncStep, TruncSyncStep
<1>5. CASE Crash
  BY <1>5, CrashStep, Zenon
<1>6. CASE Recover \/ RollbackSync
  BY <1>6, RecoverKeepStep, RecoverRollbackStep, RollbackSyncStep, Zenon DEF Recover
<1> QED
  BY <1>1, <1>2, <1>3, <1>4, <1>5, <1>6 DEF Next

\* The relation of header and blocks that IInv states for each point of extend,
\* trunc and recover holds throughout, crashes included.
THEOREM Inductive == Spec => []IInv
BY InitInv, NextInv, PTL DEF Spec

-----------------------------------------------------------------------------
\* The log never reads or writes outside its regions, whatever crashes and
\* recoveries happen.
THEOREM TypeCorrect == Spec => []TypeOK
<1>1. IInv => TypeOK
  BY Zenon DEF IInv
<1> QED
  BY <1>1, Inductive, PTL

\* extend and trunc are atomic with respect to crashes: what recover finds
\* is the log before or after the interrupted call.
THEOREM CrashIsAtomic == Spec => []CrashAtomic
<1>1. IInv => CrashAtomic
  BY Zenon DEF IInv, DownInv, CrashAtomic, Survivor, ChecksumsMatch
<1> QED
  BY <1>1, Inductive, PTL

\* Between calls the log is exactly what the last call or recovery
\* established, and it is entirely on the medium.
THEOREM ReadyIsExact == Spec => []ReadyExact
<1>1. IInv => ReadyExact
  BY Zenon DEF IInv, ReadyInv, ReadyExact, Holds, ChecksumsMatch
<1> QED
  BY <1>1, Inductive, PTL

\* Once recover has decided for the previous lengths, a crash finds them.
LEMMA RollbackStep ==
  ASSUME IInv, [Next]_vars PROVE [pc = "rollback" => Survivor' = Contents(hdr.cur.len)]_vars
<1> SUFFICES ASSUME pc = "rollback", Next PROVE Survivor' = Contents(hdr.cur.len)
  BY Zenon
<1>1. /\ AllSettled
      /\ hdr.cur.sum = before
      /\ Contents(hdr.cur.len) = before
      /\ \A h \in hdr.old : /\ h.sum = after
                            /\ h.prev = hdr.cur.len
                            /\ Contents(h.len) # h.sum
  BY Zenon DEF IInv, RollbackInv
<1>2. hdr \in ValuSet(HeaderType)
  BY Zenon DEF IInv, TypeOK
<1>3. CASE RollbackSync
  <2>1. hdr'.cur = hdr.cur /\ UNCHANGED <<desc, data>>
    BY <1>3, Zenon DEF RollbackSync, Settled
  <2> QED
    BY <2>1, <1>1, Zenon DEF Survivor, ChecksumsMatch, Contents
<1>4. CASE Crash
  <2>1. PICK h \in Merge(hdr) : hdr' = Settled(h)
    BY <1>4, Zenon DEF Crash
  <2>2. PICK c : c = hdr.cur
    BY Zenon
  <2>3. h \in HeaderType /\ c \in HeaderType
    BY <1>2, <2>1, <2>2, Zenon DEF Merge, ValuSet
  <2>4. h.len \in LengthType /\ h.prev \in LengthType /\ c.len \in LengthType
    BY <2>3, Zenon DEF HeaderType
  <2>5. ASSUME NEW len \in LengthType PROVE Contents(len)' = Contents(len)
    <3>1. SettledBelow(desc, len.ndesc) /\ SettledBelow(data, len.ndata)
      BY <1>1, SettledHolds, Zenon DEF Holds
    <3> QED
      BY <3>1, <1>4, CrashRegions, Zenon DEF Contents
  <2>6. hdr'.cur = h
    BY <2>1, Zenon DEF Settled
  <2>7. CASE h = c
    <3>1. Contents(c.len)' = Contents(c.len)
      BY <2>4, <2>5
    <3> QED
      BY <3>1, <2>2, <2>6, <2>7, <1>1 DEF Survivor, ChecksumsMatch, Contents
  <2>8. CASE h # c
    <3>1. h \in hdr.old
      BY <2>1, <2>2, <2>8 DEF Merge
    <3>2. Contents(h.len)' # h.sum
      BY <3>1, <2>4, <2>5, <1>1
    <3>3. Contents(h.prev)' = Contents(hdr.cur.len)
      BY <3>1, <2>2, <2>4, <2>5, <1>1
    <3> QED
      BY <3>2, <3>3, <2>6 DEF Survivor, ChecksumsMatch, Contents
  <2> QED
    BY <2>7, <2>8, Zenon
<1> QED
  BY <1>3, <1>4, Zenon
  DEF Next, Extend, ExtendFull, ReturnFull, ExtendSync, Trunc, TruncSync, Recover,
      RecoverKeep, RecoverRollback

\* A rollback, once decided, is not undone by a crash before its flush.
THEOREM RollbackStaysFinal == Spec => RollbackIsFinal
BY RollbackStep, Inductive, PTL DEF Spec, RollbackIsFinal

-----------------------------------------------------------------------------
\* Every descriptor block of the lengths that a header carries has room for
\* ItemsPerVal entries, so no more data blocks than that are in use.
Packed(len) == len.ndata <= len.ndesc * ItemsPerVal

PackInv ==
  /\ \A h \in Merge(hdr) : Packed(h.len) /\ Packed(h.prev)
  /\ pc = "full" => ~LoglenValid(hdr.cur.len.ndesc + NdescLog(arg), hdr.cur.len.ndata + NdataLog(arg))

\* An extend adds the descriptor blocks that its entries need.
LEMMA ExtendPacked ==
  ASSUME NEW len, len.ndesc \in Nat, len.ndata \in Nat, Packed(len), NEW log \in Seq(Entry)
  PROVE  Packed(Length(len.ndesc + NdescLog(log), len.ndata + NdataLog(log)))
<1>1. PICK c \in Nat : c = Len(log)
  OBVIOUS
<1>2. PICK q : q = (c + ItemsPerVal - 1) \div ItemsPerVal
  BY Zenon
<1>3. q \in Nat /\ c <= q * ItemsPerVal
  BY <1>2, LogAssumption, DivupRoom, Zenon
<1>4. PICK nd \in Nat, nv \in Nat : nd = len.ndesc /\ nv = len.ndata
  BY Zenon
<1>5. /\ (nd + q) * ItemsPerVal = nd * ItemsPerVal + q * ItemsPerVal
      /\ nd * ItemsPerVal \in Nat /\ q * ItemsPerVal \in Nat
  BY <1>3, LogAssumption
<1>6. nv <= nd * ItemsPerVal
  BY <1>4, Zenon DEF Packed
<1>7. nv + c <= (nd + q) * ItemsPerVal
  BY <1>3, <1>5, <1>6
<1> QED
  BY <1>1, <1>2, <1>4, <1>7, Zenon DEF Packed, Length, NdescLog, NdataLog

\* The lengths stay packed through extend, trunc, crashes and rollbacks.
LEMMA PackStep == IInv /\ PackInv /\ [Next]_vars => PackInv'
<1> SUFFICES ASSUME IInv, PackInv, [Next]_vars PROVE PackInv'
  BY Zenon
<1>0. /\ \A h \in Merge(hdr) : Packed(h.len) /\ Packed(h.prev)
      /\ hdr \in ValuSet(HeaderType)
      /\ hdr.cur \in Merge(hdr)
  BY Zenon DEF PackInv, IInv, TypeOK, Merge
<1>1. PICK h : h = hdr.cur
  BY Zenon
<1>2. /\ Packed(h.len) /\ Packed(h.prev)
      /\ h.len.ndesc \in Nat /\ h.len.ndata \in Nat
  BY <1>0, <1>1, LogAssumption, LogLenNat DEF ValuSet, HeaderType, LengthType
<1>3. ASSUME NEW g, Packed(g.len), Packed(g.prev), hdr' = Overwrite(hdr, g), pc' # "full"
      PROVE  PackInv'
  <2>1. Merge(hdr') = {g} \cup Merge(hdr)
    BY <1>3, Zenon DEF Overwrite, Merge
  <2> QED
    BY <2>1, <1>0, <1>3, Zenon DEF PackInv, Packed
<1>4. ASSUME NEW g \in Merge(hdr), hdr' = Settled(g), pc' # "full"
      PROVE  PackInv'
  <2>1. Merge(hdr') = {g}
    BY <1>4, Zenon DEF Settled, Merge
  <2> QED
    BY <2>1, <1>0, <1>4, Zenon DEF PackInv, Packed
<1>5. ASSUME UNCHANGED hdr, pc' # "full"
      PROVE  PackInv'
  BY <1>0, <1>5, Zenon DEF PackInv, Packed
<1>6. ASSUME NEW log \in Logs, Extend(log) PROVE PackInv'
  <2>1. PICK len : len = Length(h.len.ndesc + NdescLog(log), h.len.ndata + NdataLog(log))
    BY Zenon
  <2>2. log \in Seq(Entry)
    BY LogAssumption, Zenon
  <2>3. Packed(len)
    BY <2>1, <2>2, <1>2, ExtendPacked
  <2>4. PICK sum : hdr' = Overwrite(hdr, Header(h.len, len, sum))
    BY <1>6, <1>1, <2>1 DEF Extend
  <2>5. pc' = "extend"
    BY <1>6, Zenon DEF Extend
  <2>6. PICK g : g = Header(h.len, len, sum)
    BY Zenon
  <2>7. g.len = len /\ g.prev = h.len
    BY <2>6, Zenon DEF Header
  <2> QED
    BY <2>3, <2>4, <2>5, <2>6, <2>7, <1>2, <1>3
<1>7. ASSUME NEW log \in Logs, ExtendFull(log) PROVE PackInv'
  BY <1>7, <1>0, Zenon DEF PackInv, ExtendFull, Packed, LoglenValid, NdescLog, NdataLog
<1>8. CASE ReturnFull \/ RecoverKeep
  BY <1>8, <1>5, Zenon DEF ReturnFull, RecoverKeep
<1>9. CASE ExtendSync \/ TruncSync \/ RollbackSync
  BY <1>9, <1>0, <1>4 DEF ExtendSync, TruncSync, RollbackSync
<1>10. CASE Trunc
  <2>1. PICK g : g = Header(h.len, Length(0, 0), EmptyContents)
    BY Zenon
  <2>2. hdr' = Overwrite(hdr, g) /\ pc' = "trunc"
    BY <1>10, <1>1, <2>1 DEF Trunc
  <2>3. Packed(Length(0, 0))
    BY LogAssumption DEF Packed, Length
  <2>4. g.len = Length(0, 0) /\ g.prev = h.len
    BY <2>1, Zenon DEF Header
  <2> QED
    BY <2>2, <2>3, <2>4, <1>2, <1>3
<1>11. CASE Crash
  <2>1. PICK g \in Merge(hdr) : hdr' = Settled(g)
    BY <1>11, Zenon DEF Crash
  <2> QED
    BY <2>1, <1>11, <1>4 DEF Crash
<1>12. CASE RecoverRollback
  <2>1. PICK g : g = Header(h.prev, h.prev, Contents(h.prev))
    BY Zenon
  <2>2. hdr' = Overwrite(hdr, g) /\ pc' = "rollback"
    BY <1>12, <1>1, <2>1 DEF RecoverRollback
  <2>3. g.len = h.prev /\ g.prev = h.prev
    BY <2>1, Zenon DEF Header
  <2> QED
    BY <2>2, <2>3, <1>2, <1>3
<1>13. CASE UNCHANGED vars
  BY <1>13, <1>0, Zenon DEF PackInv, vars, Packed, LoglenValid, NdescLog, NdataLog
<1> QED
  BY <1>6, <1>7, <1>8, <1>9, <1>10, <1>11, <1>12, <1>13 DEF Next, Recover

\* extend refuses only what avail does not promise room for: entries that
\* avail has room for fit in both regions.
THEOREM RefusalIsFull == Spec => []RefusedOnlyWhenFull
<1>1. Init => PackInv
  <2> SUFFICES ASSUME Init PROVE PackInv
    BY Zenon
  <2>1. Merge(hdr) = {Header(Length(0, 0), Length(0, 0), EmptyContents)}
    BY Zenon DEF Init, Settled, Merge
  <2>2. Packed(Length(0, 0))
    BY LogAssumption DEF Packed, Length
  <2> QED
    BY <2>1, <2>2 DEF PackInv, Init, Header
<1>2. IInv /\ PackInv => RefusedOnlyWhenFull
  <2> SUFFICES ASSUME IInv, PackInv, pc = "full" PROVE Len(arg) > Avail
    BY Zenon DEF RefusedOnlyWhenFull
  <2>1. PICK h : h = hdr.cur
    BY Zenon
  <2>2. /\ h.len.ndesc \in 0 .. LogDescLen /\ h.len.ndata \in 0 .. LogLen
        /\ arg \in Seq(Entry)
    BY <2>1, Zenon DEF IInv, TypeOK, ValuSet, HeaderType, LengthType
  <2>3. Packed(h.len) /\ ~LoglenValid(h.len.ndesc + NdescLog(arg), h.len.ndata + NdataLog(arg))
    BY <2>1, Zenon DEF PackInv, Merge
  <2>4. PICK nd \in 0 .. LogDescLen, nv \in 0 .. LogLen, c \in Nat :
          nd = h.len.ndesc /\ nv = h.len.ndata /\ c = Len(arg)
    BY <2>2
  <2>5. PICK m \in Nat : m = LogDescLen - nd
    BY <2>4, LogAssumption
  <2>6. /\ LogLen = nd * ItemsPerVal + m * ItemsPerVal
        /\ nd * ItemsPerVal \in Nat /\ m * ItemsPerVal \in Nat
    <3>1. LogDescLen = nd + m /\ nd \in Nat
      BY <2>4, <2>5, LogAssumption
    <3> QED
      BY <3>1, LogAssumption DEF LogLen
  <2>7. SUFFICES ASSUME c <= m * ItemsPerVal PROVE FALSE
    BY <2>1, <2>4, <2>6 DEF Avail
  <2>8. PICK q : q = (c + ItemsPerVal - 1) \div ItemsPerVal
    BY Zenon
  <2>9. q <= m /\ q \in Nat
    BY <2>7, <2>8, LogAssumption, DivupLeast, DivupRoom
  <2>10. nv <= nd * ItemsPerVal
    BY <2>3, <2>4, Zenon DEF Packed
  <2>11. nd + q <= LogDescLen
    BY <2>5, <2>9, LogAssumption
  <2>12. nv + c <= LogLen
    BY <2>6, <2>7, <2>10
  <2> QED
    BY <2>3, <2>4, <2>8, <2>11, <2>12 DEF LoglenValid, NdescLog, NdataLog
<1> QED
  BY <1>1, <1>2, Inductive, PackStep, PTL DEF Spec

-----------------------------------------------------------------------------
(***************************************************************************)
(* The log implements AtomicLog.  An extend adds its addresses behind all  *)
(* those that the descriptors hold, so that the n-th address stays the     *)
(* n-th one, and every value keeps its address (Exact).                    *)
(***************************************************************************)

\* A number has one quotient and one remainder.
LEMMA DivMod ==
  ASSUME NEW K \in Nat \ {0}, NEW n \in Nat
  PROVE  n \div K \in Nat /\ n % K \in 0 .. K - 1 /\ n = (n \div K) * K + (n % K)
<1>1. PICK q, r : q = n \div K /\ r = n % K BY Zenon
<1>2. q \in Nat /\ r \in 0 .. K - 1 /\ n = K * q + r BY <1>1
<1> QED BY <1>1, <1>2

\* A number below K behind q times K is the remainder, and q the quotient.
LEMMA DivModUnique ==
  ASSUME NEW K \in Nat \ {0}, NEW q \in Nat, NEW r \in 0 .. K - 1
  PROVE  (q * K + r) \div K = q /\ (q * K + r) % K = r
<1>0. q * K \in Nat OBVIOUS
<1>1. PICK n \in Nat : n = q * K + r BY <1>0
<1>2. PICK p, s : p = n \div K /\ s = n % K BY Zenon
<1>3. p \in Nat /\ s \in 0 .. K - 1 /\ n = p * K + s BY <1>2, DivMod
<1>4. p = q
  <2>1. ASSUME p + 1 <= q PROVE FALSE
    <3>1. (p + 1) * K <= q * K BY <2>1, <1>3, TimesMonotonic
    <3>2. (p + 1) * K = p * K + K /\ p * K \in Nat BY <1>3
    <3> QED BY <3>1, <3>2, <1>0, <1>1, <1>3
  <2>2. ASSUME q + 1 <= p PROVE FALSE
    <3>1. (q + 1) * K <= p * K BY <2>2, <1>3, TimesMonotonic
    <3>2. (q + 1) * K = q * K + K /\ p * K \in Nat BY <1>3
    <3> QED BY <3>1, <3>2, <1>0, <1>1, <1>3
  <2> QED BY <2>1, <2>2, <1>3
<1>5. s = r BY <1>0, <1>1, <1>3, <1>4
<1> QED BY <1>1, <1>2, <1>4, <1>5

\* The numbers from b on, c of them.
LEMMA IntervalCard ==
  ASSUME NEW b \in Nat, NEW c \in Nat
  PROVE  IsFiniteSet(b .. b + c - 1) /\ Cardinality(b .. b + c - 1) = c
<1>1. b \in Int /\ b + c - 1 \in Int OBVIOUS
<1>2. PICK e : e = b + c - 1 BY Zenon
<1>3. IsFiniteSet(b .. e) /\ Cardinality(b .. e) = IF b > e THEN 0 ELSE e - b + 1 BY <1>1, <1>2, FS_Interval, Zenon
<1> QED BY <1>2, <1>3

\* T is the finite set S and the c numbers from b on behind it: the ranks of S
\* stay, and the new numbers have the next ones.
Behind(S, b, c, T) ==
  /\ S \in SUBSET Nat /\ IsFiniteSet(S) /\ b \in Nat /\ c \in Nat
  /\ \A n \in S : n < b
  /\ T = S \cup (b .. b + c - 1)
NextRanks(S, b, c, T) ==
  /\ Cardinality(S) \in Nat /\ Cardinality(T) = Cardinality(S) + c
  /\ \A k \in 1 .. Cardinality(S) : Ranked(T, k) = Ranked(S, k)
  /\ \A j \in 0 .. c - 1 : Ranked(T, Cardinality(S) + j + 1) = {b + j}

\* Putting c numbers behind those of S leaves the ranks of S alone and gives the
\* new ones the next c ranks.
LEMMA RankedAppend ==
  ASSUME NEW S, NEW b, NEW c, NEW T, Behind(S, b, c, T)
  PROVE  NextRanks(S, b, c, T)
<1> USE DEF Behind
<1>0. Cardinality(S) \in Nat BY FS_CardinalityType, Zenon
<1>1. ASSUME NEW e \in Nat
      PROVE  IsFiniteSet(S \cup (b .. b + e - 1)) /\ Cardinality(S \cup (b .. b + e - 1)) = Cardinality(S) + e
  <2> DEFINE I == b .. b + e - 1
  <2>1. IsFiniteSet(I) /\ Cardinality(I) = e BY IntervalCard, Zenon
  <2>2. S \cap I = {} OBVIOUS
  <2> HIDE DEF I
  <2>3. IsFiniteSet(S \cup I) /\ Cardinality(S \cup I) = Cardinality(S) + Cardinality(I) - Cardinality(S \cap I)
    BY <2>1, FS_Union
  <2>4. Cardinality(S \cap I) = 0 BY <2>2, FS_EmptySet
  <2> QED BY <2>1, <2>3, <2>4, <1>0 DEF I
<1>2. IsFiniteSet(T) /\ Cardinality(T) = Cardinality(S) + c BY <1>1, Zenon
<1>3. ASSUME NEW n \in S
      PROVE  /\ {m \in T : m <= n} = {m \in S : m <= n}
             /\ Cardinality({m \in S : m <= n}) \in 0 .. Cardinality(S)
  <2>1. {m \in T : m <= n} = {m \in S : m <= n} OBVIOUS
  <2>2. {m \in S : m <= n} \in SUBSET S BY Zenon
  <2>3. PICK U \in SUBSET S : U = {m \in S : m <= n} BY <2>2, Zenon
  <2>4. Cardinality(U) <= Cardinality(S) /\ Cardinality(U) \in Nat BY FS_Subset, FS_CardinalityType, Zenon
  <2> QED BY <2>1, <2>3, <2>4, <1>0
<1>4. ASSUME NEW j \in 0 .. c - 1
      PROVE  b + j \in T /\ b + j \notin S /\ Cardinality({m \in T : m <= b + j}) = Cardinality(S) + j + 1
  <2>1. b + j \in T /\ b + j \notin S OBVIOUS
  <2>2. {m \in T : m <= b + j} = S \cup (b .. b + (j + 1) - 1)
    <3>1. \A m : m \in b .. b + (j + 1) - 1 <=> m \in b .. b + c - 1 /\ m <= b + j OBVIOUS
    <3>2. \A m \in S : m <= b + j OBVIOUS
    <3> QED BY <3>1, <3>2
  <2>3. j + 1 \in Nat OBVIOUS
  <2>4. Cardinality(S \cup (b .. b + (j + 1) - 1)) = Cardinality(S) + (j + 1) BY <1>1, <2>3, Zenon
  <2> QED BY <2>1, <2>2, <2>4, <1>0
<1>5. ASSUME NEW n \in T PROVE n \in S \/ \E j \in 0 .. c - 1 : n = b + j
  <2>1. CASE n \in b .. b + c - 1
    <3>1. n - b \in 0 .. c - 1 /\ n = b + (n - b) BY <2>1
    <3> QED BY <3>1, Zenon
  <2> QED BY <2>1, Zenon
<1>6. ASSUME NEW k \in 1 .. Cardinality(S) PROVE Ranked(T, k) = Ranked(S, k)
  <2>1. ASSUME NEW n \in Ranked(T, k) PROVE n \in Ranked(S, k)
    <3>1. n \in T /\ Cardinality({m \in T : m <= n}) = k BY Zenon DEF Ranked
    <3>2. n \in S
      <4>1. ASSUME NEW j \in 0 .. c - 1, n = b + j PROVE FALSE
        <5>1. Cardinality({m \in T : m <= n}) = Cardinality(S) + j + 1 BY <4>1, <1>4
        <5> QED BY <5>1, <3>1, <1>0
      <4> QED BY <4>1, <3>1, <1>5
    <3> QED BY <3>1, <3>2, <1>3 DEF Ranked
  <2>2. ASSUME NEW n \in Ranked(S, k) PROVE n \in Ranked(T, k)
    <3>1. n \in S /\ n \in T /\ Cardinality({m \in S : m <= n}) = k BY Zenon DEF Ranked
    <3> QED BY <3>1, <1>3, Zenon DEF Ranked
  <2> QED BY <2>1, <2>2
<1>7. ASSUME NEW j \in 0 .. c - 1 PROVE Ranked(T, Cardinality(S) + j + 1) = {b + j}
  <2>1. b + j \in Ranked(T, Cardinality(S) + j + 1) BY <1>4, Zenon DEF Ranked
  <2>2. ASSUME NEW n \in Ranked(T, Cardinality(S) + j + 1) PROVE n = b + j
    <3>1. n \in T /\ Cardinality({m \in T : m <= n}) = Cardinality(S) + j + 1 BY Zenon DEF Ranked
    <3>2. n \notin S
      <4> SUFFICES ASSUME n \in S PROVE FALSE BY Zenon
      <4>1. Cardinality({m \in T : m <= n}) \in 0 .. Cardinality(S) BY <1>3, Zenon
      <4> QED BY <4>1, <3>1, <1>0
    <3>3. PICK i \in 0 .. c - 1 : n = b + i BY <3>1, <3>2, <1>5
    <3>4. Cardinality({m \in T : m <= n}) = Cardinality(S) + i + 1 BY <3>3, <1>4, Zenon
    <3> QED BY <3>1, <3>3, <3>4, <1>0
  <2> QED BY <2>1, <2>2
<1> QED BY <1>0, <1>2, <1>6, <1>7 DEF NextRanks

-----------------------------------------------------------------------------
\* The contents of a log that read decodes in full: every rank is taken by an
\* address, and there are as many values as addresses.
Exact(c) ==
  /\ DOMAIN c.vals = 0 .. Cardinality(Nonzero(c.addrs)) - 1
  /\ \A k \in 1 .. Cardinality(Nonzero(c.addrs)) : Ranked(Nonzero(c.addrs), k) # {}

\* The descriptor blocks p of a log and those of the entries behind them.
Packs(p, nd, log, g) ==
  /\ nd \in Nat /\ p \in [0 .. nd - 1 -> DescBlock]
  /\ log \in Seq(Entry)
  /\ nd + NdescLog(log) <= LogDescLen
  /\ g = Cat(p, nd, IPack(log), NdescLog(log))

\* The set of positions is finite.
LEMMA NonzeroFinite ==
  ASSUME NEW p
  PROVE  Nonzero(p) \in SUBSET Nat /\ IsFiniteSet(Nonzero(p)) /\ Cardinality(Nonzero(p)) \in Nat
<1>1. LogLen \in Nat BY LogAssumption DEF LogLen
<1>2. Nonzero(p) \in SUBSET Nat /\ \A n \in Nonzero(p) : n <= LogLen BY <1>1 DEF Nonzero
<1>3. IsFiniteSet(Nonzero(p)) BY <1>1, <1>2, FS_BoundedSetOfNaturals
<1> QED BY <1>2, <1>3, FS_CardinalityType

\* Packing entries behind nd descriptor blocks adds one position per entry,
\* behind all the others, that holds its address.
LEMMA NonzeroAppend ==
  ASSUME NEW p, NEW nd, NEW log, NEW g, Packs(p, nd, log, g)
  PROVE  /\ nd * ItemsPerVal \in Nat
         /\ \A n \in Nonzero(p) : n < nd * ItemsPerVal /\ AddrAt(g, n) = AddrAt(p, n)
         /\ \A j \in 0 .. Len(log) - 1 : AddrAt(g, nd * ItemsPerVal + j) = log[j + 1].a
         /\ Nonzero(g) = Nonzero(p) \cup (nd * ItemsPerVal .. nd * ItemsPerVal + Len(log) - 1)
<1> DEFINE K == ItemsPerVal
<1>1. PICK nl : nl = NdescLog(log) BY Zenon
<1>2. /\ K \in Nat \ {0} /\ nd \in Nat /\ log \in Seq(Entry) /\ Len(log) \in Nat /\ LogDescLen \in Nat
      /\ p \in [0 .. nd - 1 -> DescBlock]
      /\ nd + nl <= LogDescLen /\ LogLen \in Nat
  BY <1>1, LogAssumption DEF Packs, LogLen
<1>3. nl \in Nat /\ Len(log) <= nl * K /\ nl * K \in Nat /\ nd * K \in Nat
  <2>1. nl \in Nat /\ Len(log) <= nl * K BY <1>1, <1>2, DivupRoom DEF NdescLog
  <2> QED BY <2>1, <1>2
<1>4. nd * K + nl * K <= LogLen
  <2>1. (nd + nl) * K <= LogDescLen * K BY <1>2, <1>3, TimesMonotonic
  <2>2. (nd + nl) * K = nd * K + nl * K /\ LogDescLen * K = LogLen BY <1>2, <1>3 DEF LogLen
  <2> QED BY <2>1, <2>2
<1>5. /\ DOMAIN g = 0 .. nd + nl - 1 /\ DOMAIN p = 0 .. nd - 1
      /\ \A i \in 0 .. nd - 1 : g[i] = p[i]
  BY <1>1, <1>2, <1>3 DEF Packs, Cat
<1>6. ASSUME NEW i \in 0 .. nl - 1, NEW j \in 0 .. K - 1
      PROVE  g[nd + i][j] = IF i * K + j < Len(log) THEN log[i * K + j + 1].a ELSE 0
  <2>1. nd + i \in 0 .. nd + nl - 1 /\ ~(nd + i < nd) /\ (nd + i) - nd = i BY <1>2, <1>3
  <2>2. g[nd + i] = IPack(log)[i] BY <2>1, <1>1, Zenon DEF Packs, Cat
  <2> QED BY <2>2, <1>1 DEF IPack
<1> HIDE DEF K
<1>7. ASSUME NEW n \in Nat
      PROVE  /\ n \div K \in Nat /\ n % K \in 0 .. K - 1
             /\ n < nd * K => n \div K \in 0 .. nd - 1
             /\ n >= nd * K => (n - nd * K) \div K \in Nat /\ n \div K = nd + ((n - nd * K) \div K) /\ n % K = (n - nd * K) % K
  <2>1. n \div K \in Nat /\ n % K \in 0 .. K - 1 /\ n = (n \div K) * K + (n % K) BY <1>2, DivMod, Zenon
  <2>2. ASSUME n < nd * K PROVE n \div K \in 0 .. nd - 1
    <3>1. PICK q \in Nat : q = n \div K BY <2>1, Zenon
    <3>2. ASSUME nd <= q PROVE FALSE
      <4>1. nd * K <= q * K BY <3>2, <1>2, TimesMonotonic
      <4>2. q * K \in Nat BY <1>2
      <4> QED BY <4>1, <4>2, <3>1, <2>1, <2>2, <1>3
    <3> QED BY <3>1, <3>2, <1>2
  <2>3. ASSUME n >= nd * K
        PROVE  (n - nd * K) \div K \in Nat /\ n \div K = nd + ((n - nd * K) \div K) /\ n % K = (n - nd * K) % K
    <3>1. PICK m \in Nat : m = n - nd * K BY <2>3, <1>3
    <3>2. PICK q, r : q = m \div K /\ r = m % K BY Zenon
    <3>3. q \in Nat /\ r \in 0 .. K - 1 /\ m = q * K + r BY <3>2, <1>2, DivMod
    <3>4. (nd + q) * K = nd * K + q * K /\ q * K \in Nat /\ nd + q \in Nat BY <3>3, <1>2
    <3>5. n = (nd + q) * K + r
      <4>1. PICK x \in Nat, y \in Nat : x = nd * K /\ y = q * K BY <3>4, <1>3, Zenon
      <4>2. n = x + m /\ m = y + r /\ (nd + q) * K = x + y BY <4>1, <3>1, <3>3, <3>4
      <4> QED BY <4>2, <3>3
    <3>6. n \div K = nd + q /\ n % K = r BY <3>3, <3>4, <3>5, <1>2, DivModUnique
    <3> QED BY <3>1, <3>2, <3>3, <3>6, Zenon
  <2> QED BY <2>1, <2>2, <2>3, Zenon
<1>8. ASSUME NEW n \in Nat, n < nd * K
      PROVE  /\ n \in 0 .. LogLen - 1 /\ n \div K \in DOMAIN p /\ n \div K \in DOMAIN g
             /\ AddrAt(g, n) = AddrAt(p, n)
  <2>1. n \div K \in 0 .. nd - 1 /\ n % K \in 0 .. K - 1 BY <1>7, <1>8, Zenon
  <2> QED BY <2>1, <1>2, <1>3, <1>4, <1>5, <1>8 DEF AddrAt, K
<1>9. ASSUME NEW j \in 0 .. Len(log) - 1
      PROVE  /\ nd * K + j \in 0 .. LogLen - 1
             /\ (nd * K + j) \div K \in DOMAIN g
             /\ AddrAt(g, nd * K + j) = log[j + 1].a /\ log[j + 1].a # 0
  <2>1. PICK n \in Nat : n = nd * K + j BY <1>2, <1>3
  <2>2. PICK q, r : q = j \div K /\ r = j % K BY Zenon
  <2>3. q \in Nat /\ r \in 0 .. K - 1 /\ j = q * K + r
    <3>1. j \in Nat BY <1>2
    <3> QED BY <3>1, <2>2, <1>2, DivMod, Zenon
  <2>4. n - nd * K = j /\ n >= nd * K BY <2>1, <1>2, <1>3
  <2>5. n \div K = nd + q /\ n % K = r BY <2>2, <2>4, <1>7
  <2>6. q < nl
    <3>1. ASSUME nl <= q PROVE FALSE
      <4>1. nl * K <= q * K BY <3>1, <1>2, <1>3, <2>3, TimesMonotonic, Zenon
      <4> QED BY <4>1, <1>2, <1>3, <2>3
    <3> QED BY <3>1, <1>3, <2>3
  <2>7. g[nd + q][r] = log[j + 1].a
    <3>1. q \in 0 .. nl - 1 /\ q * K + r < Len(log) BY <2>3, <2>6, <1>2, <1>3
    <3>2. g[nd + q][r] = log[q * K + r + 1].a BY <3>1, <2>3, <1>6, Zenon
    <3> QED BY <3>2, <2>3
  <2>8. AddrAt(g, n) = log[j + 1].a BY <2>5, <2>7 DEF AddrAt, K
  <2>9. log[j + 1].a # 0
    <3>1. j + 1 \in 1 .. Len(log) BY <1>2
    <3>2. log[j + 1] \in Entry BY <3>1, <1>2
    <3>3. log[j + 1].a \in Addr BY <3>2, Zenon DEF Entry
    <3> QED BY <3>3, LogAssumption
  <2>10. n \in 0 .. LogLen - 1 BY <2>1, <1>2, <1>3, <1>4
  <2>11. n \div K \in DOMAIN g BY <2>5, <2>6, <2>3, <1>2, <1>3, <1>5
  <2> QED BY <2>1, <2>8, <2>9, <2>10, <2>11
<1>10. ASSUME NEW n \in Nonzero(p) PROVE n \in Nat /\ n < nd * K
  <2>1. n \in Nat /\ n \div K \in DOMAIN p BY <1>2 DEF Nonzero, K
  <2>2. PICK q \in 0 .. nd - 1 : q = n \div K BY <2>1, <1>5, Zenon
  <2>3. n = q * K + (n % K) /\ n % K \in 0 .. K - 1 BY <2>1, <2>2, <1>2, DivMod
  <2>4. (q + 1) * K <= nd * K
    <3>1. K \in Nat /\ q + 1 \in Nat /\ q + 1 <= nd BY <2>2, <1>2
    <3> QED BY <3>1, <1>2, TimesMonotonic
  <2>5. (q + 1) * K = q * K + K /\ q * K \in Nat BY <2>2, <1>2
  <2>6. PICK x \in Nat, y \in Nat, r \in 0 .. K - 1 : x = nd * K /\ y = q * K /\ r = n % K
    BY <2>3, <2>5, <1>3, Zenon
  <2>7. n = y + r /\ y + K <= x BY <2>3, <2>4, <2>5, <2>6, Zenon
  <2>8. n < x
    <3>1. K \in Nat /\ r < K BY <1>2
    <3> QED BY <3>1, <2>7
  <2>9. x = nd * K BY <2>6, Zenon
  <2> QED BY <2>1, <2>8, <2>9
<1>11. ASSUME NEW n \in Nonzero(g), n >= nd * K PROVE n \in nd * K .. nd * K + Len(log) - 1
  <2>1. n \in Nat /\ n \div K \in DOMAIN g /\ AddrAt(g, n) # 0 BY <1>2 DEF Nonzero, K
  <2>2. PICK j \in Nat : j = n - nd * K BY <2>1, <1>11, <1>3
  <2>3. PICK q, r : q = j \div K /\ r = j % K BY Zenon
  <2>4. q \in Nat /\ r \in 0 .. K - 1 /\ j = q * K + r BY <2>2, <2>3, <1>2, DivMod
  <2>5. n \div K = nd + q /\ n % K = r BY <2>1, <2>2, <2>3, <1>7, <1>11
  <2>6. q \in 0 .. nl - 1 BY <2>1, <2>4, <2>5, <1>2, <1>3, <1>5
  <2>7. g[nd + q][r] # 0 BY <2>1, <2>5, Zenon DEF AddrAt, K
  <2>8. q * K + r < Len(log) BY <2>4, <2>6, <2>7, <1>6
  <2> QED BY <2>1, <2>2, <2>4, <2>8, <1>2, <1>3, <1>11
<1>12. Nonzero(g) = Nonzero(p) \cup (nd * K .. nd * K + Len(log) - 1)
  <2>1. ASSUME NEW n \in Nonzero(g), n < nd * K PROVE n \in Nonzero(p)
    <3>1. n \in Nat /\ AddrAt(g, n) # 0 BY <1>2 DEF Nonzero
    <3> QED BY <3>1, <2>1, <1>8 DEF Nonzero, K
  <2>2. \A n \in Nonzero(g) : n \in Nat BY <1>2 DEF Nonzero
  <2>3. ASSUME NEW n \in Nonzero(p) PROVE n \in Nonzero(g)
    <3>1. n \in Nat /\ n < nd * K BY <1>10, Zenon
    <3>2. AddrAt(p, n) # 0 BY Zenon DEF Nonzero
    <3> QED BY <3>1, <3>2, <1>8 DEF Nonzero, K
  <2>4. ASSUME NEW n \in nd * K .. nd * K + Len(log) - 1 PROVE n \in Nonzero(g)
    <3>1. PICK j \in 0 .. Len(log) - 1 : n = nd * K + j
      <4>1. n - nd * K \in 0 .. Len(log) - 1 /\ n = nd * K + (n - nd * K) BY <1>2, <1>3
      <4> QED BY <4>1, Zenon
    <3> QED BY <3>1, <1>9 DEF Nonzero, K
  <2>5. \A n \in Nonzero(g) : n < nd * K \/ n >= nd * K BY <2>2, <1>3
  <2> QED BY <2>1, <2>3, <2>4, <2>5, <1>11
<1> QED BY <1>3, <1>8, <1>9, <1>10, <1>12 DEF K

\* The numbers below n determine n.
LEMMA BelowInjective ==
  ASSUME NEW m \in Nat, NEW n \in Nat, 0 .. m - 1 = 0 .. n - 1 PROVE m = n
<1>1. m \notin 0 .. n - 1 /\ n \notin 0 .. m - 1 OBVIOUS
<1> QED BY <1>1

\* Contents that read decodes in full give a list with one entry per value.
LEMMA CombineExact ==
  ASSUME NEW c, NEW nd \in Nat, NEW nv \in Nat, c.addrs \in [0 .. nd - 1 -> DescBlock],
         c.vals \in [0 .. nv - 1 -> Val], Exact(c)
  PROVE  /\ Cardinality(Nonzero(c.addrs)) = nv
         /\ CombineNonzero(c) \in Seq(Entry) /\ Len(CombineNonzero(c)) = nv
         /\ \A i \in 1 .. nv : CombineNonzero(c)[i] = [a |-> AddrAt(c.addrs, Nth(Nonzero(c.addrs), i)), v |-> c.vals[i - 1]]
         /\ \A i \in 1 .. nv : Nth(Nonzero(c.addrs), i) \in Nonzero(c.addrs)
<1> DEFINE S == Nonzero(c.addrs)
           l == CombineNonzero(c)
<1>1. Cardinality(S) = nv
  <2>1. Cardinality(S) \in Nat BY NonzeroFinite
  <2>2. 0 .. Cardinality(S) - 1 = 0 .. nv - 1 BY Zenon DEF Exact
  <2> HIDE DEF S
  <2> QED BY <2>1, <2>2, BelowInjective
<1>2. {k \in 1 .. Cardinality(S) : k - 1 \in DOMAIN c.vals} = 1 .. nv
  <2> HIDE DEF S
  <2> QED BY <1>1
<1>3. l = [i \in 1 .. nv |-> [a |-> AddrAt(c.addrs, Nth(S, i)), v |-> c.vals[i - 1]]]
  BY <1>2, Zenon DEF CombineNonzero
<1>4. ASSUME NEW i \in 1 .. nv PROVE Nth(S, i) \in S
  <2>1. Ranked(S, i) # {} BY <1>1 DEF Exact
  <2>2. Nth(S, i) \in Ranked(S, i) BY <2>1 DEF Nth
  <2> QED BY <2>2, Zenon DEF Ranked
<1>5. ASSUME NEW i \in 1 .. nv
      PROVE [a |-> AddrAt(c.addrs, Nth(S, i)), v |-> c.vals[i - 1]] \in Entry
  <2>1. PICK n \in S : n = Nth(S, i) BY <1>4, Zenon
  <2>2. n \in Nat /\ n \div ItemsPerVal \in 0 .. nd - 1 /\ AddrAt(c.addrs, n) # 0
    <3>1. LogLen \in Nat BY LogAssumption DEF LogLen
    <3> QED BY <3>1 DEF Nonzero
  <2>3. n % ItemsPerVal \in 0 .. ItemsPerVal - 1 BY <2>2, LogAssumption, DivMod
  <2>4. AddrAt(c.addrs, n) \in Addr \cup {0}
    <3>1. c.addrs[n \div ItemsPerVal] \in DescBlock BY <2>2
    <3> QED BY <3>1, <2>3 DEF AddrAt, DescBlock
  <2>5. c.vals[i - 1] \in Val
    <3>1. i - 1 \in 0 .. nv - 1 OBVIOUS
    <3> QED BY <3>1, Zenon
  <2> QED BY <2>1, <2>2, <2>4, <2>5 DEF Entry
<1> HIDE DEF S, l
<1>6. l \in [1 .. nv -> Entry] /\ \A i \in 1 .. nv : l[i] = [a |-> AddrAt(c.addrs, Nth(S, i)), v |-> c.vals[i - 1]]
  BY <1>3, <1>5, Zenon
<1>7. l \in Seq(Entry) /\ Len(l) = nv
  <2>1. l \in Seq(Entry) BY <1>6
  <2> QED BY <2>1, <1>6
<1> QED BY <1>1, <1>4, <1>6, <1>7 DEF S, l

\* Blocks of type V behind blocks of type V.
LEMMA CatType ==
  ASSUME NEW V, NEW n \in Nat, NEW m \in Nat, NEW p \in [0 .. n - 1 -> V], NEW q \in [0 .. m - 1 -> V]
  PROVE  Cat(p, n, q, m) \in [0 .. n + m - 1 -> V]
<1>1. ASSUME NEW i \in 0 .. n + m - 1 PROVE (IF i < n THEN p[i] ELSE q[i - n]) \in V
  <2>1. CASE i < n BY <2>1
  <2>2. CASE ~(i < n)
    <3>1. i - n \in 0 .. m - 1 BY <2>2
    <3> QED BY <3>1, <2>2, Zenon
  <2> QED BY <2>1, <2>2
<1> QED BY <1>1 DEF Cat

\* The contents d are c, of nd and nv blocks, and the entries log behind it.
Grown(c, nd, nv, log, d) ==
  /\ nd \in Nat /\ c.addrs \in [0 .. nd - 1 -> DescBlock]
  /\ nv \in Nat /\ c.vals \in [0 .. nv - 1 -> Val]
  /\ log \in Seq(Entry) /\ nd + NdescLog(log) <= LogDescLen
  /\ d = [addrs |-> Cat(c.addrs, nd, IPack(log), NdescLog(log)),
          vals |-> Cat(c.vals, nv, EntVals(log), NdataLog(log))]

\* The entries of a concatenation.
LEMMA Concatenation ==
  ASSUME NEW S, NEW s \in Seq(S), NEW t \in Seq(S)
  PROVE  /\ s \o t \in Seq(S) /\ Len(s \o t) = Len(s) + Len(t)
         /\ \A i \in 1 .. Len(s) + Len(t) : (s \o t)[i] = IF i <= Len(s) THEN s[i] ELSE t[i - Len(s)]
OBVIOUS

\* Sequences with the same entries are equal.
LEMMA SameSequence ==
  ASSUME NEW S, NEW s \in Seq(S), NEW t \in Seq(S), Len(s) = Len(t), \A i \in 1 .. Len(s) : s[i] = t[i]
  PROVE  s = t
<1>1. s = [i \in 1 .. Len(s) |-> s[i]] /\ t = [i \in 1 .. Len(t) |-> t[i]] OBVIOUS
<1> QED BY <1>1

\* What read decodes after an extend: the entries before it and then its own.
LEMMA CombineAppend ==
  ASSUME NEW c, NEW nd, NEW nv, NEW log, NEW d, Grown(c, nd, nv, log, d), Exact(c)
  PROVE  Exact(d) /\ CombineNonzero(d) = CombineNonzero(c) \o log
<1> DEFINE S == Nonzero(c.addrs)
           T == Nonzero(d.addrs)
           b == nd * ItemsPerVal
           L == Len(log)
<1>a. nd \in Nat /\ nv \in Nat /\ log \in Seq(Entry) BY Zenon DEF Grown
<1>b. c.addrs \in [0 .. nd - 1 -> DescBlock] /\ c.vals \in [0 .. nv - 1 -> Val] BY Zenon DEF Grown
<1>c. /\ d.addrs = Cat(c.addrs, nd, IPack(log), NdescLog(log))
      /\ d.vals = Cat(c.vals, nv, EntVals(log), NdataLog(log))
  BY Zenon DEF Grown
<1>1. Packs(c.addrs, nd, log, d.addrs) BY Zenon DEF Packs, Grown
<1>2. /\ b \in Nat /\ L \in Nat /\ T = S \cup (b .. b + L - 1)
      /\ \A n \in S : n < b /\ AddrAt(d.addrs, n) = AddrAt(c.addrs, n)
      /\ \A j \in 0 .. L - 1 : AddrAt(d.addrs, b + j) = log[j + 1].a
  BY <1>1, NonzeroAppend
<1>3. /\ Cardinality(S) = nv
      /\ CombineNonzero(c) \in Seq(Entry) /\ Len(CombineNonzero(c)) = nv
      /\ \A i \in 1 .. nv : CombineNonzero(c)[i] = [a |-> AddrAt(c.addrs, Nth(S, i)), v |-> c.vals[i - 1]]
      /\ \A i \in 1 .. nv : Nth(S, i) \in S
  BY <1>a, <1>b, CombineExact, Zenon
<1>4. S \in SUBSET Nat /\ IsFiniteSet(S) BY NonzeroFinite, Zenon
<1>s. \A k \in 1 .. nv : Ranked(S, k) # {} BY <1>3, Zenon DEF Exact
<1> HIDE DEF S, T, b, L
<1>5. /\ Cardinality(T) = nv + L
      /\ \A k \in 1 .. nv : Ranked(T, k) = Ranked(S, k)
      /\ \A j \in 0 .. L - 1 : Ranked(T, nv + j + 1) = {b + j}
  <2>1. \A n \in S : n < b BY <1>2, Zenon
  <2>2. b \in Nat /\ L \in Nat /\ T = S \cup (b .. b + L - 1) BY <1>2, Zenon
  <2>3. NextRanks(S, b, L, T)
    <3>1. Behind(S, b, L, T) BY <2>1, <2>2, <1>4, Zenon DEF Behind
    <3> QED BY <3>1, RankedAppend
  <2>4. Cardinality(S) = nv BY <1>3
  <2> QED BY <2>3, <2>4, Zenon DEF NextRanks
<1>6. ASSUME NEW i \in 1 .. nv + L, ~(i <= nv)
      PROVE  /\ i - nv - 1 \in 0 .. L - 1 /\ i = nv + (i - nv - 1) + 1 /\ i - nv \in 1 .. L
             /\ Ranked(T, i) = {b + (i - nv - 1)}
  <2>0. L \in Nat BY <1>2, Zenon
  <2>1. i - nv - 1 \in 0 .. L - 1 /\ i = nv + (i - nv - 1) + 1 /\ i - nv \in 1 .. L BY <2>0, <1>6, <1>a
  <2>2. PICK j \in 0 .. L - 1 : j = i - nv - 1 BY <2>1
  <2>3. i = nv + j + 1 BY <2>1, <2>2
  <2> QED BY <2>1, <2>2, <2>3, <1>5
<1>7. DOMAIN d.vals = 0 .. nv + L - 1
  BY <1>c, Zenon DEF Cat, NdataLog, L
<1>8. Exact(d)
  <2>1. ASSUME NEW k \in 1 .. nv + L PROVE Ranked(T, k) # {}
    <3>1. CASE k <= nv
      <4>1. k \in 1 .. nv BY <3>1, <1>2, <1>a
      <4> QED BY <4>1, <1>5, <1>s
    <3>2. CASE ~(k <= nv) BY <3>2, <1>6
    <3> QED BY <3>1, <3>2, Zenon
  <2>2. DOMAIN d.vals = 0 .. Cardinality(T) - 1 BY <1>2, <1>5, <1>7, <1>a
  <2>3. \A k \in 1 .. Cardinality(T) : Ranked(T, k) # {} BY <2>1, <1>5
  <2> QED BY <2>2, <2>3, Zenon DEF Exact, T
<1>9. /\ d.addrs \in [0 .. nd + NdescLog(log) - 1 -> DescBlock]
      /\ d.vals \in [0 .. nv + L - 1 -> Val]
  <2>1. NdescLog(log) \in Nat BY <1>a, NdescNat
  <2>2. IPack(log) \in [0 .. NdescLog(log) - 1 -> DescBlock] BY <1>a, IPackType
  <2>3. EntVals(log) \in [0 .. L - 1 -> Val] BY <1>a, EntValsType DEF NdataLog, L
  <2>4. d.addrs \in [0 .. nd + NdescLog(log) - 1 -> DescBlock] 
    <3>0. PICK m \in Nat : m = NdescLog(log) BY <2>1
    <3>1. PICK p \in [0 .. nd - 1 -> DescBlock], q \in [0 .. m - 1 -> DescBlock] : p = c.addrs /\ q = IPack(log)
      BY <1>b, <2>2, <3>0
    <3>2. Cat(p, nd, q, m) \in [0 .. nd + m - 1 -> DescBlock] BY <1>a, CatType
    <3> QED BY <3>0, <3>1, <3>2, <1>c, Zenon
  <2>5. d.vals \in [0 .. nv + L - 1 -> Val]
    <3>1. L \in Nat /\ NdataLog(log) = L BY <1>2 DEF NdataLog, L
    <3>2. PICK p \in [0 .. nv - 1 -> Val], q \in [0 .. L - 1 -> Val] : p = c.vals /\ q = EntVals(log)
      BY <1>b, <2>3
    <3>3. Cat(p, nv, q, L) \in [0 .. nv + L - 1 -> Val] BY <3>1, <1>a, CatType
    <3> QED BY <3>1, <3>2, <3>3, <1>c, Zenon
  <2> QED BY <2>4, <2>5
<1>10. /\ CombineNonzero(d) \in Seq(Entry) /\ Len(CombineNonzero(d)) = nv + L
       /\ \A i \in 1 .. nv + L : CombineNonzero(d)[i] = [a |-> AddrAt(d.addrs, Nth(T, i)), v |-> d.vals[i - 1]]
  <2>1. nd + NdescLog(log) \in Nat /\ nv + L \in Nat BY <1>2, <1>a, NdescNat
  <2>2. PICK n \in Nat, m \in Nat : n = nd + NdescLog(log) /\ m = nv + L BY <2>1
  <2>3. d.addrs \in [0 .. n - 1 -> DescBlock] /\ d.vals \in [0 .. m - 1 -> Val] BY <2>2, <1>2, <1>9, <1>a, NdescNat
  <2>4. /\ CombineNonzero(d) \in Seq(Entry) /\ Len(CombineNonzero(d)) = m
        /\ \A i \in 1 .. m : CombineNonzero(d)[i] = [a |-> AddrAt(d.addrs, Nth(T, i)), v |-> d.vals[i - 1]]
    BY <2>3, <1>8, CombineExact, Zenon DEF T
  <2> QED BY <2>2, <2>4, Zenon
<1>11. ASSUME NEW i \in 1 .. nv + L
       PROVE  CombineNonzero(d)[i] = IF i <= nv THEN CombineNonzero(c)[i] ELSE log[i - nv]
  <2>v. d.vals[i - 1] = IF i - 1 < nv THEN c.vals[i - 1] ELSE EntVals(log)[(i - 1) - nv]
    <3>1. i - 1 \in 0 .. nv + NdataLog(log) - 1 BY <1>2, <1>a DEF NdataLog, L
    <3> QED BY <3>1, <1>c DEF Cat
  <2>1. CASE i <= nv
    <3>1. i \in 1 .. nv /\ i - 1 < nv BY <2>1, <1>2, <1>a
    <3>2. Nth(T, i) = Nth(S, i) BY <3>1, <1>5 DEF Nth
    <3>3. AddrAt(d.addrs, Nth(S, i)) = AddrAt(c.addrs, Nth(S, i)) BY <3>1, <1>2, <1>3
    <3> QED BY <3>1, <3>2, <3>3, <2>v, <2>1, <1>3, <1>10
  <2>2. CASE ~(i <= nv)
    <3>1. PICK j \in 0 .. L - 1 : j = i - nv - 1 BY <2>2, <1>6, Zenon
    <3>2. Nth(T, i) = b + j BY <2>2, <3>1, <1>6 DEF Nth
    <3>3. AddrAt(d.addrs, b + j) = log[j + 1].a BY <1>2, Zenon
    <3>4. ~(i - 1 < nv) /\ (i - 1) - nv = j /\ j + 1 = i - nv /\ j + 1 \in 1 .. L BY <2>2, <3>1, <1>2, <1>a
    <3>5. EntVals(log)[j] = log[j + 1].v BY <1>a, Zenon DEF EntVals, NdataLog, L
    <3>6. d.vals[i - 1] = log[j + 1].v BY <2>v, <3>4, <3>5
    <3>7. CombineNonzero(d)[i] = [a |-> log[j + 1].a, v |-> log[j + 1].v] BY <1>10, <3>2, <3>3, <3>6
    <3>8. log[j + 1] \in Entry BY <3>4, <1>a DEF L
    <3>9. [a |-> log[j + 1].a, v |-> log[j + 1].v] = log[j + 1] BY <3>8 DEF Entry
    <3> QED BY <2>2, <3>4, <3>7, <3>9
  <2> QED BY <2>1, <2>2
<1>12. /\ CombineNonzero(c) \o log \in Seq(Entry) /\ Len(CombineNonzero(c) \o log) = nv + L
       /\ \A i \in 1 .. nv + L : (CombineNonzero(c) \o log)[i] = IF i <= nv THEN CombineNonzero(c)[i] ELSE log[i - nv]
  <2>1. PICK s \in Seq(Entry) : s = CombineNonzero(c) BY <1>3, Zenon
  <2>2. Len(s) = nv BY <2>1, <1>3, Zenon
  <2>3. /\ s \o log \in Seq(Entry) /\ Len(s \o log) = Len(s) + Len(log)
        /\ \A i \in 1 .. Len(s) + Len(log) : (s \o log)[i] = IF i <= Len(s) THEN s[i] ELSE log[i - Len(s)]
    BY <1>a, Concatenation, Zenon
  <2> QED BY <2>1, <2>2, <2>3, Zenon DEF L
<1>13. CombineNonzero(d) = CombineNonzero(c) \o log
  <2>1. PICK s \in Seq(Entry), t \in Seq(Entry) : s = CombineNonzero(d) /\ t = CombineNonzero(c) \o log
    BY <1>10, <1>12
  <2>2. Len(s) = Len(t) /\ \A i \in 1 .. Len(s) : s[i] = t[i] BY <2>1, <1>10, <1>11, <1>12
  <2> QED BY <2>1, <2>2, SameSequence
<1> QED BY <1>8, <1>13, Zenon

-----------------------------------------------------------------------------
\* The empty log.
LEMMA EmptyExact == Exact(EmptyContents) /\ CombineNonzero(EmptyContents) = <<>>
<1>1. DOMAIN EmptyContents.addrs = {} /\ DOMAIN EmptyContents.vals = {} BY DEF EmptyContents, Prefix
<1>2. Nonzero(EmptyContents.addrs) = {} BY <1>1, Zenon DEF Nonzero
<1>3. Cardinality(Nonzero(EmptyContents.addrs)) = 0 BY <1>2, FS_EmptySet
<1>4. 0 .. 0 - 1 = {} /\ 1 .. 0 = {} OBVIOUS
<1>5. Exact(EmptyContents) BY <1>1, <1>3, <1>4 DEF Exact
<1>6. {k \in 1 .. Cardinality(Nonzero(EmptyContents.addrs)) : k - 1 \in DOMAIN EmptyContents.vals} = {}
  BY <1>3, <1>4
<1>7. CombineNonzero(EmptyContents) =
        [i \in {} |-> [a |-> AddrAt(EmptyContents.addrs, Nth(Nonzero(EmptyContents.addrs), i)),
                      v |-> EmptyContents.vals[i - 1]]]
  BY <1>6, Zenon DEF CombineNonzero
<1> QED BY <1>5, <1>7

\* What a call finds and what it leaves is decoded in full.
ExactInv == Exact(before) /\ Exact(after)

\* An extend that is accepted grows the contents by its entries.
LEMMA ExtendGrows ==
  ASSUME IInv, NEW log \in Logs, Extend(log)
  PROVE  Grown(before, hdr.cur.len.ndesc, hdr.cur.len.ndata, log, after')
<1>1. PICK h : h = hdr.cur BY Zenon
<1>2. h.len \in LengthType /\ h.sum = before /\ Contents(h.len) = before
  BY <1>1, Zenon DEF IInv, TypeOK, ValuSet, HeaderType, ReadyInv, Holds, Extend
<1>3. PICK nd \in 0 .. LogDescLen, nv \in 0 .. LogLen : nd = h.len.ndesc /\ nv = h.len.ndata
  BY <1>2, Zenon DEF LengthType
<1>4. /\ desc \in [0 .. LogDescLen - 1 -> ValuSet(DescBlock)]
      /\ data \in [0 .. LogLen - 1 -> ValuSet(Val)]
  BY Zenon DEF IInv, TypeOK
<1>5. Prefix(Latest(desc), nd) \in [0 .. nd - 1 -> DescBlock] BY <1>4, LogAssumption, PrefixType
<1>6. Prefix(Latest(data), nv) \in [0 .. nv - 1 -> Val] BY <1>4, LogLenNat, PrefixType
<1>7. before.addrs = Prefix(Latest(desc), nd) /\ before.vals = Prefix(Latest(data), nv)
  BY <1>2, <1>3 DEF Contents
<1>8. nd + NdescLog(log) <= LogDescLen BY <1>1, <1>3 DEF Extend, LoglenValid
<1>9. after' = [addrs |-> Cat(before.addrs, nd, IPack(log), NdescLog(log)),
                vals |-> Cat(before.vals, nv, EntVals(log), NdataLog(log))]
  BY <1>1, <1>2, <1>3 DEF Extend
<1>10. nd \in Nat /\ nv \in Nat /\ log \in Seq(Entry) BY LogAssumption, LogLenNat
<1>11. Grown(before, nd, nv, log, after') BY <1>5, <1>6, <1>7, <1>8, <1>9, <1>10, Zenon DEF Grown
<1> QED BY <1>1, <1>3, <1>11

\* After a recovery the log is what the interrupted call found or what it leaves.
LEMMA RecoveredIs ==
  ASSUME IInv
  PROVE  /\ RecoverKeep => Contents(hdr.cur.len) \in {before, after}
         /\ RecoverRollback => Contents(hdr.cur.prev) = before
         /\ RollbackSync => Contents(hdr.cur.len) = before
BY Zenon DEF IInv, DownInv, RollbackInv, RecoverKeep, RecoverRollback, RollbackSync, ChecksumsMatch

\* No step leaves contents that read does not decode in full.
LEMMA ExactStep == ASSUME IInv, ExactInv, [Next]_vars PROVE ExactInv'
<1>1. ASSUME NEW log \in Logs, Extend(log) PROVE ExactInv'
  <2>1. Exact(after') BY <1>1, ExtendGrows, CombineAppend DEF ExactInv
  <2>2. before' = before BY <1>1 DEF Extend
  <2> QED BY <2>1, <2>2 DEF ExactInv
<1>2. CASE Trunc BY <1>2, EmptyExact DEF Trunc, ExactInv
<1>3. CASE ExtendSync \/ TruncSync BY <1>3 DEF ExtendSync, TruncSync, ExactInv
<1>4. CASE RecoverKeep BY <1>4, RecoveredIs DEF RecoverKeep, ExactInv
<1>5. CASE RollbackSync BY <1>5, RecoveredIs DEF RollbackSync, ExactInv
<1>6. CASE UNCHANGED <<before, after>> BY <1>6, Zenon DEF ExactInv
<1>7. CASE \E log \in Logs : ExtendFull(log) BY <1>6, <1>7 DEF ExtendFull
<1>8. CASE ReturnFull \/ Crash \/ RecoverRollback BY <1>6, <1>8 DEF ReturnFull, Crash, RecoverRollback
<1>9. CASE UNCHANGED vars BY <1>6, <1>9, Zenon DEF vars
<1> QED BY <1>1, <1>2, <1>3, <1>4, <1>5, <1>7, <1>8, <1>9 DEF Next, Recover

\* The list of entries and the one that the running call makes of it, in terms of
\* the contents before and after the call.
View ==
  /\ pc \in {"ready", "full", "rollback"} =>
       AbstractLog = CombineNonzero(before) /\ AbstractNext = CombineNonzero(before)
  /\ pc \in {"extend", "trunc"} =>
       AbstractLog = CombineNonzero(before) /\ AbstractNext = CombineNonzero(after)
  /\ pc = "down" =>
       AbstractLog = CombineNonzero(Survivor) /\ AbstractNext = CombineNonzero(Survivor)
  /\ Running <=> pc \in {"extend", "trunc"}

\* The invariant implies that view of the state,
LEMMA ViewNow == ASSUME IInv PROVE View
<1>1. ASSUME pc \in {"ready", "full", "rollback"} PROVE Contents(hdr.cur.len) = before
  BY <1>1, Zenon DEF IInv, ReadyInv, RollbackInv, Holds
<1>2. ASSUME pc = "extend" PROVE Contents(hdr.cur.prev) = before /\ Contents(hdr.cur.len) = after
  BY <1>2 DEF IInv, ExtendInv, Holds
<1>3. ASSUME pc = "trunc" PROVE Contents(hdr.cur.prev) = before /\ Contents(hdr.cur.len) = after
  <2>1. Contents(Length(0, 0)) = EmptyContents BY EmptyTyped, Zenon DEF Contents, Length
  <2> QED BY <1>3, <2>1 DEF IInv, TruncInv, Holds
<1> QED BY <1>1, <1>2, <1>3 DEF View, AbstractLog, AbstractNext, Running, ReadLog, Survivor

\* and of the next state.
LEMMA ViewNext == ASSUME IInv' PROVE View'
<1>1. ASSUME pc' \in {"ready", "full", "rollback"} PROVE Contents(hdr.cur.len)' = before'
  BY <1>1 DEF IInv, ReadyInv, RollbackInv, Holds
<1>2. ASSUME pc' = "extend" PROVE Contents(hdr.cur.prev)' = before' /\ Contents(hdr.cur.len)' = after'
  BY <1>2 DEF IInv, ExtendInv, Holds
<1>3. ASSUME pc' = "trunc" PROVE Contents(hdr.cur.prev)' = before' /\ Contents(hdr.cur.len)' = after'
  <2>1. Contents(Length(0, 0))' = EmptyContents BY EmptyTyped, Zenon DEF Contents, Length
  <2> QED BY <1>3, <2>1 DEF IInv, TruncInv, Holds
<1> QED BY <1>1, <1>2, <1>3 DEF View, AbstractLog, AbstractNext, Running, ReadLog, Survivor

\* Every step of the log is a step of the atomic list, or leaves it alone.
LEMMA AtomicStep ==
  ASSUME IInv, IInv', ExactInv, [Next]_vars
  PROVE  [Atomic!ANext]_(Atomic!avars)
<1>v. View /\ View' BY ViewNow, ViewNext
<1>s. ASSUME AbstractLog' = AbstractLog, AbstractNext' = AbstractNext, Running' <=> Running
      PROVE  [Atomic!ANext]_(Atomic!avars)
  BY <1>s DEF Atomic!avars, Running
<1>1. ASSUME NEW log \in Logs, Extend(log) PROVE Atomic!ANext
  <2>1. pc = "ready" /\ pc' = "extend" /\ before' = before BY <1>1 DEF Extend
  <2>2. CombineNonzero(after') = CombineNonzero(before) \o log
    BY <1>1, ExtendGrows, CombineAppend DEF ExactInv
  <2>3. AbstractLog = CombineNonzero(before) /\ ~Running BY <2>1, <1>v, Zenon DEF View
  <2>4. AbstractLog' = CombineNonzero(before) /\ AbstractNext' = CombineNonzero(after') /\ Running'
    BY <2>1, <1>v DEF View
  <2>5. Running' = TRUE BY <2>1 DEF Running
  <2>6. Atomic!AExtend(log) BY <2>2, <2>3, <2>4, <2>5 DEF Atomic!AExtend, Atomic!ABegin
  <2> QED BY <2>6 DEF Atomic!ANext
<1>2. CASE Trunc
  <2>1. pc = "ready" /\ pc' = "trunc" /\ before' = before /\ after' = EmptyContents BY <1>2, Zenon DEF Trunc
  <2>2. AbstractLog = CombineNonzero(before) /\ ~Running BY <2>1, <1>v, Zenon DEF View
  <2>3. AbstractLog' = CombineNonzero(before) /\ AbstractNext' = <<>>
    BY <2>1, <1>v, EmptyExact DEF View
  <2>4. Running' = TRUE BY <2>1, Zenon DEF Running
  <2>5. Atomic!ATrunc BY <2>2, <2>3, <2>4 DEF Atomic!ATrunc, Atomic!ABegin
  <2> QED BY <2>5 DEF Atomic!ANext
<1>3. CASE ExtendSync \/ TruncSync
  <2>1. pc \in {"extend", "trunc"} /\ pc' = "ready" /\ before' = after
    BY <1>3, Zenon DEF ExtendSync, TruncSync
  <2>2. AbstractNext = CombineNonzero(after) /\ Running BY <2>1, <1>v, Zenon DEF View
  <2>3. AbstractLog' = CombineNonzero(after) /\ AbstractNext' = CombineNonzero(after)
    BY <2>1, <1>v, Zenon DEF View
  <2>4. Running' = FALSE BY <2>1 DEF Running
  <2>5. Atomic!AFinish BY <2>2, <2>3, <2>4 DEF Atomic!AFinish
  <2> QED BY <2>5, Zenon DEF Atomic!ANext
<1>4. CASE Crash
  <2>1. pc' = "down" /\ pc # "down" /\ before' = before /\ after' = after BY <1>4 DEF Crash
  <2>2. Survivor' \in {before, after}
    BY <2>1 DEF IInv, DownInv, Survivor, ChecksumsMatch
  <2>3. AbstractLog' = CombineNonzero(Survivor') /\ AbstractNext' = AbstractLog'
    BY <2>1, <1>v DEF View
  <2>4. Running' = FALSE BY <2>1 DEF Running
  <2>5. AbstractLog' \in {AbstractLog, AbstractNext}
    <3>1. CASE pc \in {"ready", "full"}
      <4>1. after = before BY <3>1 DEF IInv, ReadyInv
      <4> QED BY <4>1, <3>1, <2>2, <2>3, <1>v DEF View
    <3>2. CASE pc \in {"extend", "trunc"} BY <3>2, <2>2, <2>3, <1>v DEF View
    <3>3. CASE pc = "rollback"
      <4>1. Survivor' = Contents(hdr.cur.len) BY <3>3, <2>1, RollbackStep DEF vars
      <4>2. Contents(hdr.cur.len) = before BY <3>3, Zenon DEF IInv, RollbackInv
      <4> QED BY <4>1, <4>2, <3>3, <2>3, <1>v DEF View
    <3>4. pc \in {"ready", "full", "extend", "trunc", "rollback", "down"} BY Zenon DEF IInv, TypeOK
    <3> QED BY <3>1, <3>2, <3>3, <3>4, <2>1
  <2>6. Atomic!ACrash BY <2>3, <2>4, <2>5 DEF Atomic!ACrash
  <2> QED BY <2>6 DEF Atomic!ANext
<1>5. CASE RecoverKeep
  <2>1. /\ pc = "down" /\ pc' = "ready" /\ before' = Contents(hdr.cur.len)
        /\ Survivor = Contents(hdr.cur.len)
    BY <1>5, Zenon DEF RecoverKeep, Survivor
  <2> QED BY <2>1, <1>v, <1>s DEF View
<1>6. CASE RecoverRollback
  <2>1. /\ pc = "down" /\ pc' = "rollback" /\ before' = before
        /\ Survivor = Contents(hdr.cur.prev)
    BY <1>6, Zenon DEF RecoverRollback, Survivor
  <2>2. Survivor = before BY <2>1, <1>6, RecoveredIs
  <2> QED BY <2>1, <2>2, <1>v, <1>s DEF View
<1>7. CASE RollbackSync
  <2>1. pc = "rollback" /\ pc' = "ready" /\ before' = before BY <1>7, RecoveredIs DEF RollbackSync
  <2> QED BY <2>1, <1>v, <1>s DEF View
<1>8. CASE ReturnFull \/ \E log \in Logs : ExtendFull(log)
  <2>1. pc \in {"ready", "full"} /\ pc' \in {"ready", "full"} /\ before' = before
    BY <1>8, Zenon DEF ReturnFull, ExtendFull
  <2> QED BY <2>1, <1>v, <1>s DEF View
<1>9. CASE UNCHANGED vars
  <2>1. pc' = pc /\ before' = before /\ after' = after BY <1>9, Zenon DEF vars
  <2>2. Survivor' = Survivor BY <1>9, Zenon DEF vars, Survivor, ChecksumsMatch, Contents
  <2>3. pc \in {"ready", "full", "extend", "trunc", "rollback", "down"} BY Zenon DEF IInv, TypeOK
  <2> QED BY <2>1, <2>2, <2>3, <1>v, <1>s DEF View
<1> QED BY <1>1, <1>2, <1>3, <1>4, <1>5, <1>6, <1>7, <1>8, <1>9 DEF Next, Recover

\* The entries that DLog.read decodes behave as one list that extend and trunc
\* change atomically, for every packing, size, entry set and series of crashes.
THEOREM LogIsAtomic == Spec => ImplementsAtomicLog
<1>1. Init => ExactInv BY EmptyExact, Zenon DEF Init, ExactInv
<1>2. Init => Atomic!AInit
  <2> SUFFICES ASSUME Init PROVE Atomic!AInit BY Zenon
  <2>1. View BY InitInv, ViewNow
  <2>2. pc = "ready" /\ before = EmptyContents BY Zenon DEF Init
  <2>3. AbstractLog = <<>> /\ AbstractNext = <<>> BY <2>1, <2>2, EmptyExact DEF View
  <2>4. Running = FALSE BY <2>2 DEF Running
  <2> QED BY <2>3, <2>4 DEF Atomic!AInit
<1> QED BY <1>1, <1>2, InitInv, NextInv, ExactStep, AtomicStep, PTL DEF Spec, ImplementsAtomicLog, Atomic!ASpec
=============================================================================
