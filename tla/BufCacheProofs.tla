---------------------------- MODULE BufCacheProofs ----------------------------
(***************************************************************************)
(* Proofs about BufCache, for any number of blocks, any values and any     *)
(* size of the cache.                                                      *)
(***************************************************************************)
EXTENDS BufCache, FiniteSetTheorems, TLAPS

\* The disk is what the exported disk says of block a, unless it is dirty.
Clean(a) == a \in DOMAIN csmap => ~csmap[a].dirty

\* cachepred of Cache.v: every value that block a may have on the disk is one
\* that the callers expect.
Agrees(a) ==
  /\ Merge(disk[a]) \subseteq Merge(mem[a])
  /\ Visible(a) = mem[a].cur
  /\ Clean(a) => disk[a].cur = mem[a].cur

Agree == \A a \in Addr : Agrees(a)

\* There is room for the block of the call in progress.
RoomInv == call.op \in {"read", "write"} => count < MaxCount

\* What a sync has been through is clean.
SyncInv == call.op = "sync" => \A a \in call.l \ call.rest : Clean(a)

IInv == TypeOK /\ SizeValid /\ Agree /\ RoomInv /\ SyncInv

-----------------------------------------------------------------------------
\* Value sets.

\* What a write to a block leaves.
LEMMA OverwriteFact ==
  ASSUME NEW vs \in ValuSet(Val), NEW v \in Val
  PROVE  /\ Overwrite(vs, v) \in ValuSet(Val)
         /\ Overwrite(vs, v).cur = v
         /\ Merge(Overwrite(vs, v)) = {v} \cup Merge(vs)
BY Zenon DEF Overwrite, ValuSet, Merge

\* What a flush leaves.
LEMMA SettledFact ==
  ASSUME NEW v \in Val
  PROVE  Settled(v) \in ValuSet(Val) /\ Settled(v).cur = v /\ Merge(Settled(v)) = {v}
BY Zenon DEF Settled, ValuSet, Merge

\* The latest value is one of those a crash may leave, and all are values.
LEMMA MergeFact ==
  ASSUME NEW vs \in ValuSet(Val)
  PROVE  vs.cur \in Val /\ vs.cur \in Merge(vs) /\ Merge(vs) \subseteq Val
BY Zenon DEF ValuSet, Merge

\* A flushed disk.
LEMMA FlushedFact ==
  ASSUME NEW f \in [Addr -> Val]
  PROVE  /\ Flushed(f) \in [Addr -> ValuSet(Val)]
         /\ \A a \in Addr : Flushed(f)[a].cur = f[a] /\ Merge(Flushed(f)[a]) = {f[a]}
BY SettledFact, Zenon DEF Flushed

\* A disk some blocks of which are synced.
LEMMA SyncBlocksFact ==
  ASSUME NEW d \in [Addr -> ValuSet(Val)], NEW S \in SUBSET Addr
  PROVE  /\ SyncBlocks(d, S) \in [Addr -> ValuSet(Val)]
         /\ \A a \in Addr : SyncBlocks(d, S)[a].cur = d[a].cur
         /\ \A a \in S : Merge(SyncBlocks(d, S)[a]) = {d[a].cur}
         /\ \A a \in Addr \ S : SyncBlocks(d, S)[a] = d[a]
BY SettledFact, MergeFact, Zenon DEF SyncBlocks

\* What a crash may leave of a disk it may leave of one with more values.
LEMMA CrashFact ==
  ASSUME NEW d \in [Addr -> ValuSet(Val)], NEW m \in [Addr -> ValuSet(Val)],
         \A a \in Addr : Merge(d[a]) \subseteq Merge(m[a]),
         NEW f \in CrashOutcomes(d)
  PROVE  f \in CrashOutcomes(m) /\ f \in [Addr -> Val]
<1>1. DOMAIN f = Addr /\ f = [a \in Addr |-> f[a]] /\ \A a \in Addr : f[a] \in Merge(d[a])
  BY Zenon DEF CrashOutcomes
<1>2. \A a \in Addr : f[a] \in Merge(m[a])
  BY <1>1, Zenon
<1>3. f \in [Addr -> UNION {Merge(m[a]) : a \in Addr}]
  BY <1>1, <1>2
<1>4. f \in CrashOutcomes(m)
  BY <1>2, <1>3, Zenon DEF CrashOutcomes
<1>5. f \in [Addr -> Val]
  BY <1>1, <1>2, MergeFact, Zenon
<1> QED
  BY <1>4, <1>5, Zenon

-----------------------------------------------------------------------------
\* Writing back.

\* The cached blocks are a finite set of addresses, each with a value.
LEMMA CachedFact ==
  ASSUME TypeOK
  PROVE  /\ IsFiniteSet(DOMAIN csmap)
         /\ \A a \in DOMAIN csmap : a \in Addr /\ csmap[a] \in Cached
<1>1. IsFiniteSet(DOMAIN csmap)
  BY AddrAssumption, FS_Subset, Zenon DEF TypeOK
<1>2. \A a \in DOMAIN csmap : a \in Addr /\ csmap[a] \in Cached
  BY Zenon DEF TypeOK
<1> QED
  BY <1>1, <1>2, Zenon

\* After writeback or evict the disk has the latest value of block a, the other
\* blocks are as they were, and no block has a value the callers do not expect.
LEMMA WrittenFact ==
  ASSUME TypeOK, Agree, NEW a \in Addr
  PROVE  /\ Written(a) \in [Addr -> ValuSet(Val)]
         /\ Written(a)[a].cur = mem[a].cur
         /\ \A b \in Addr : Merge(Written(a)[b]) \subseteq Merge(mem[b])
         /\ \A b \in Addr \ {a} : Written(a)[b] = disk[b]
<1>0. /\ disk \in [Addr -> ValuSet(Val)] /\ mem \in [Addr -> ValuSet(Val)]
      /\ \A b \in Addr : Merge(disk[b]) \subseteq Merge(mem[b])
      /\ Visible(a) = mem[a].cur
      /\ Clean(a) => disk[a].cur = mem[a].cur
  BY Zenon DEF TypeOK, Agree, Agrees
<1>1. CASE Clean(a)
  <2>1. Written(a) = disk
    BY <1>1, Zenon DEF Written, Clean
  <2> QED
    BY <1>0, <1>1, <2>1, Zenon
<1>2. CASE ~Clean(a)
  <2> DEFINE v == csmap[a].val
  <2>1. a \in DOMAIN csmap /\ csmap[a].dirty
    BY <1>2, Zenon DEF Clean
  <2>2. v \in Val
    <3>1. csmap[a] \in Cached
      BY <2>1, CachedFact, Zenon
    <3> QED
      BY <3>1, Zenon DEF Cached
  <2>3. v = mem[a].cur
    BY <1>0, <2>1, Zenon DEF Visible
  <2>4. Written(a) = [disk EXCEPT ![a] = Overwrite(disk[a], v)]
    BY <2>1, Zenon DEF Written
  <2>5. /\ Overwrite(disk[a], v) \in ValuSet(Val)
        /\ Overwrite(disk[a], v).cur = v
        /\ Merge(Overwrite(disk[a], v)) = {v} \cup Merge(disk[a])
    BY <1>0, <2>2, OverwriteFact, Zenon
  <2>6. v \in Merge(mem[a])
    BY <1>0, <2>3, MergeFact, Zenon
  <2> HIDE DEF v
  <2>7. \A b \in Addr : Merge(Written(a)[b]) \subseteq Merge(mem[b])
    BY <1>0, <2>4, <2>5, <2>6, Zenon
  <2> QED
    BY <1>0, <2>3, <2>4, <2>5, <2>7, Zenon
<1> QED
  BY <1>1, <1>2, Zenon

\* The number of cached blocks after caching and dropping one.
LEMMA CountFact ==
  ASSUME TypeOK, SizeValid, NEW a \in Addr
  PROVE  /\ a \in DOMAIN csmap => Cardinality((DOMAIN csmap) \ {a}) = count - 1 /\ count > 0
         /\ a \notin DOMAIN csmap => Cardinality((DOMAIN csmap) \cup {a}) = count + 1
<1>1. IsFiniteSet(DOMAIN csmap)
  BY CachedFact, Zenon
<1>2. Cardinality((DOMAIN csmap) \ {a}) = IF a \in DOMAIN csmap THEN count - 1 ELSE count
  BY <1>1, FS_RemoveElement, Zenon DEF SizeValid
<1>3. Cardinality((DOMAIN csmap) \cup {a}) = IF a \in DOMAIN csmap THEN count ELSE count + 1
  BY <1>1, FS_AddElement, Zenon DEF SizeValid
<1>4. IsFiniteSet((DOMAIN csmap) \ {a}) /\ Cardinality((DOMAIN csmap) \ {a}) \in Nat
  BY <1>1, FS_RemoveElement, FS_CardinalityType, Zenon
<1>5. count \in Nat
  BY CountAssumption DEF TypeOK
<1> QED
  BY <1>2, <1>3, <1>4, <1>5

-----------------------------------------------------------------------------
\* The first half of read and write.

\* Making room keeps the types, the count and the agreement, dirties no block,
\* and leaves room.
LEMMA MaybeEvictFact ==
  ASSUME IInv, MaybeEvict
  PROVE  /\ disk' \in [Addr -> ValuSet(Val)]
         /\ DOMAIN csmap' \subseteq Addr /\ csmap' \in [DOMAIN csmap' -> Cached]
         /\ count' \in 0 .. MaxCount /\ count' < MaxCount
         /\ SizeValid'
         /\ mem' = mem => Agree'
<1> USE DEF IInv
<1>1. CASE (count < MaxCount \/ DOMAIN csmap = {}) /\ UNCHANGED <<disk, csmap, count>>
  <2>1. count < MaxCount
    BY <1>1, FS_EmptySet, CountAssumption DEF SizeValid
  <2>2. mem' = mem => Agree'
    BY <1>1, Zenon DEF Agree, Agrees, Visible, Clean
  <2> QED
    BY <1>1, <2>1, <2>2, Zenon DEF TypeOK, SizeValid
<1>2. CASE \E a \in DOMAIN csmap : Evict(a)
  <2>1. PICK a \in DOMAIN csmap : Evict(a)
    BY <1>2, Zenon
  <2>2. a \in Addr
    BY CachedFact, Zenon
  <2>3. disk' = Written(a) /\ csmap' = Remove(csmap, a) /\ count' = count - 1
    BY <2>1, Zenon DEF Evict
  <2>4. /\ Written(a) \in [Addr -> ValuSet(Val)]
        /\ Written(a)[a].cur = mem[a].cur
        /\ \A b \in Addr : Merge(Written(a)[b]) \subseteq Merge(mem[b])
        /\ \A b \in Addr \ {a} : Written(a)[b] = disk[b]
    BY <2>2, WrittenFact, Zenon
  <2>5. /\ DOMAIN csmap' = (DOMAIN csmap) \ {a}
        /\ \A b \in DOMAIN csmap' : csmap'[b] = csmap[b]
        /\ csmap' = [b \in DOMAIN csmap' |-> csmap'[b]]
    BY <2>3, Zenon DEF Remove
  <2>6. DOMAIN csmap' \subseteq Addr /\ csmap' \in [DOMAIN csmap' -> Cached]
    BY <2>5, CachedFact, Zenon
  <2>7. Cardinality(DOMAIN csmap') = count - 1 /\ count > 0
    BY <2>2, <2>5, CountFact, Zenon
  <2>8. count' \in 0 .. MaxCount /\ count' < MaxCount /\ SizeValid'
    BY <2>3, <2>7, CountAssumption DEF TypeOK, SizeValid
  <2>9. ASSUME mem' = mem PROVE Agree'
    <3> SUFFICES ASSUME NEW b \in Addr PROVE Agrees(b)'
      BY Zenon DEF Agree
    <3>1. Agrees(b)
      BY Zenon DEF Agree
    <3>2. CASE b = a
      BY <2>3, <2>4, <2>5, <2>9, <3>2, Zenon DEF Agrees, Visible
    <3>3. CASE b # a
      BY <2>3, <2>4, <2>5, <2>9, <3>1, <3>3, Zenon DEF Agrees, Visible, Clean
    <3> QED
      BY <3>2, <3>3, Zenon
  <2> QED
    BY <2>3, <2>4, <2>6, <2>8, <2>9, Zenon
<1> QED
  BY <1>1, <1>2, Zenon DEF MaybeEvict
\* The steps of the cache.

\* The first half of read or write.
LEMMA StartFact ==
  ASSUME IInv, MaybeEvict, UNCHANGED mem,
         call' \in [op : {"read"}, a : Addr] \/ call' \in [op : {"write"}, a : Addr, v : Val]
  PROVE  IInv'
<1>1. call' \in Calls /\ call'.op # "sync"
  BY Zenon DEF Calls
<1>2. mem' \in [Addr -> ValuSet(Val)]
  BY Zenon DEF IInv, TypeOK
<1> QED
  BY <1>1, <1>2, MaybeEvictFact, Zenon DEF IInv, TypeOK, RoomInv, SyncInv

\* A call that is not a sync ends with the block cached: the value v is in the
\* cache and, unless it is dirty, on the disk.
LEMMA InsertFact ==
  ASSUME IInv, NEW a \in Addr, NEW v \in Val, NEW d \in BOOLEAN,
         count < MaxCount, call' = NoCall, UNCHANGED disk,
         csmap' = Put(csmap, a, [val |-> v, dirty |-> d]),
         count' = IF a \in DOMAIN csmap THEN count ELSE count + 1,
         mem' \in [Addr -> ValuSet(Val)],
         \A b \in Addr \ {a} : mem'[b] = mem[b],
         mem'[a].cur = v,
         Merge(disk[a]) \subseteq Merge(mem'[a]),
         ~d => disk[a].cur = v
  PROVE  IInv'
<1> USE DEF IInv
<1>1. /\ DOMAIN csmap' = (DOMAIN csmap) \cup {a}
      /\ csmap'[a] = [val |-> v, dirty |-> d]
      /\ \A b \in DOMAIN csmap : b # a => csmap'[b] = csmap[b]
      /\ csmap' = [b \in DOMAIN csmap' |-> csmap'[b]]
  BY Zenon DEF Put
<1>2. [val |-> v, dirty |-> d] \in Cached
  BY Zenon DEF Cached
<1>3. DOMAIN csmap' \subseteq Addr /\ csmap' \in [DOMAIN csmap' -> Cached]
  BY <1>1, <1>2, CachedFact
<1>4. SizeValid'
  <2>1. CASE a \in DOMAIN csmap
    <3>1. DOMAIN csmap' = DOMAIN csmap
      BY <1>1, <2>1, Zenon
    <3> QED
      BY <2>1, <3>1, Zenon DEF SizeValid
  <2>2. CASE a \notin DOMAIN csmap
    BY <1>1, <2>2, CountFact, Zenon DEF SizeValid
  <2> QED
    BY <2>1, <2>2, Zenon
<1>5. count' \in 0 .. MaxCount
  BY CountAssumption DEF TypeOK
<1>6. TypeOK'
  BY <1>3, <1>5, Zenon DEF TypeOK, Calls
<1>7. Agree'
  <2> SUFFICES ASSUME NEW b \in Addr PROVE Agrees(b)'
    BY Zenon DEF Agree
  <2>1. Agrees(b)
    BY Zenon DEF Agree
  <2>2. CASE b = a
    <3>1. Visible(a)' = v
      BY <1>1 DEF Visible
    <3>2. Clean(a)' => ~d
      BY <1>1 DEF Clean
    <3> QED
      BY <2>2, <3>1, <3>2, Zenon DEF Agrees
  <2>3. CASE b # a
    BY <1>1, <2>1, <2>3, Zenon DEF Agrees, Visible, Clean
  <2> QED
    BY <2>2, <2>3, Zenon
<1>8. RoomInv' /\ SyncInv'
  BY Zenon DEF RoomInv, SyncInv, NoCall
<1> QED
  BY <1>4, <1>6, <1>7, <1>8, Zenon

\* The block and the value of a call in progress.
LEMMA CallFact ==
  ASSUME TypeOK
  PROVE  /\ call.op = "read" => call.a \in Addr
         /\ call.op = "write" => call.a \in Addr /\ call.v \in Val
         /\ call.op = "sync" => /\ call.l \in SUBSET Addr /\ call.rest \in SUBSET Addr
                                /\ call = [op |-> "sync", l |-> call.l, rest |-> call.rest]
BY DEF TypeOK, Calls, NoCall

\* What is in the cache stays what it was.
LEMMA SameFact ==
  ASSUME IInv, UNCHANGED <<disk, csmap, count, mem>>, call' \in Calls, RoomInv', SyncInv'
  PROVE  IInv'
BY Zenon DEF IInv, TypeOK, SizeValid, Agree, Agrees, Visible, Clean

\* The end of read and write.
LEMMA FinishFact ==
  ASSUME IInv, ReadHit \/ ReadMiss \/ FinishWrite
  PROVE  IInv'
<1> USE DEF IInv
<1>1. CASE ReadHit
  <2>1. call' = NoCall /\ UNCHANGED <<disk, csmap, count, mem>>
    BY <1>1, Zenon DEF ReadHit
  <2>2. call' \in Calls /\ RoomInv' /\ SyncInv'
    BY <2>1, Zenon DEF Calls, RoomInv, SyncInv, NoCall
  <2> QED
    BY <2>1, <2>2, SameFact, Zenon
<1>2. CASE ReadMiss
  <2>1. PICK a \in Addr : a = call.a /\ a \notin DOMAIN csmap
    BY <1>2, CallFact, Zenon DEF ReadMiss
  <2>2. disk[a] \in ValuSet(Val) /\ disk[a].cur \in Val /\ Agrees(a)
    BY MergeFact, Zenon DEF TypeOK, Agree
  <2>3. /\ csmap' = Put(csmap, a, [val |-> disk[a].cur, dirty |-> FALSE])
        /\ count' = IF a \in DOMAIN csmap THEN count ELSE count + 1
        /\ call' = NoCall /\ UNCHANGED disk /\ UNCHANGED mem
    BY <1>2, <2>1, Zenon DEF ReadMiss
  <2>4. count < MaxCount
    BY <1>2, Zenon DEF ReadMiss, RoomInv
  <2>5. mem'[a].cur = disk[a].cur /\ Merge(disk[a]) \subseteq Merge(mem'[a])
    BY <2>1, <2>2, <2>3, Zenon DEF Agrees, Visible
  <2>6. mem' \in [Addr -> ValuSet(Val)] /\ \A b \in Addr \ {a} : mem'[b] = mem[b]
    BY <2>3, Zenon DEF TypeOK
  <2> QED
    BY <2>2, <2>3, <2>4, <2>5, <2>6, InsertFact, Zenon
<1>3. CASE FinishWrite
  <2>1. PICK a \in Addr, v \in Val : a = call.a /\ v = call.v
    BY <1>3, CallFact, Zenon DEF FinishWrite
  <2>2. /\ csmap' = Put(csmap, a, [val |-> v, dirty |-> TRUE])
        /\ count' = IF a \in DOMAIN csmap THEN count ELSE count + 1
        /\ mem' = [mem EXCEPT ![a] = Overwrite(mem[a], v)]
        /\ call' = NoCall /\ UNCHANGED disk
    BY <1>3, <2>1, Zenon DEF FinishWrite
  <2>3. count < MaxCount
    BY <1>3, Zenon DEF FinishWrite, RoomInv
  <2>4. mem \in [Addr -> ValuSet(Val)] /\ Agrees(a)
    BY Zenon DEF TypeOK, Agree
  <2>5. /\ Overwrite(mem[a], v) \in ValuSet(Val) /\ Overwrite(mem[a], v).cur = v
        /\ Merge(Overwrite(mem[a], v)) = {v} \cup Merge(mem[a])
    BY <2>4, OverwriteFact, Zenon
  <2>6. mem'[a].cur = v /\ Merge(disk[a]) \subseteq Merge(mem'[a])
    BY <2>2, <2>4, <2>5, Zenon DEF Agrees
  <2>7. mem' \in [Addr -> ValuSet(Val)] /\ \A b \in Addr \ {a} : mem'[b] = mem[b]
    BY <2>2, <2>4, <2>5, Zenon
  <2> QED
    BY <2>2, <2>3, <2>6, <2>7, InsertFact, Zenon
<1> QED
  BY <1>1, <1>2, <1>3, Zenon

\* One block of a sync: it is written back and clean, the others do not change.
LEMMA SyncOneFact ==
  ASSUME IInv, NEW a \in Addr, SyncOne(a)
  PROVE  IInv'
<1> USE DEF IInv
<1>1. /\ call.op = "sync" /\ call' = [call EXCEPT !.rest = @ \ {a}] /\ UNCHANGED mem
      /\ disk' = Written(a) /\ UNCHANGED count
      /\ csmap' = IF a \in DOMAIN csmap THEN Put(csmap, a, [csmap[a] EXCEPT !.dirty = FALSE])
                                        ELSE csmap
  BY Zenon DEF SyncOne, Writeback
<1>2. /\ Written(a) \in [Addr -> ValuSet(Val)]
      /\ Written(a)[a].cur = mem[a].cur
      /\ \A b \in Addr : Merge(Written(a)[b]) \subseteq Merge(mem[b])
      /\ \A b \in Addr \ {a} : Written(a)[b] = disk[b]
  BY WrittenFact, Zenon
<1>3. /\ DOMAIN csmap' = DOMAIN csmap
      /\ \A b \in DOMAIN csmap : b # a => csmap'[b] = csmap[b]
      /\ csmap' = [b \in DOMAIN csmap' |-> csmap'[b]]
      /\ a \in DOMAIN csmap => csmap'[a] = [csmap[a] EXCEPT !.dirty = FALSE]
  BY <1>1, Zenon DEF Put, TypeOK
<1>4. a \in DOMAIN csmap => csmap'[a] \in Cached /\ ~csmap'[a].dirty /\ csmap'[a].val = csmap[a].val
  <2> SUFFICES ASSUME a \in DOMAIN csmap
               PROVE  csmap'[a] \in Cached /\ ~csmap'[a].dirty /\ csmap'[a].val = csmap[a].val
    BY Zenon
  <2>1. csmap[a] \in Cached
    BY CachedFact, Zenon
  <2> QED
    BY <1>3, <2>1, Zenon DEF Cached
<1>5. csmap' \in [DOMAIN csmap' -> Cached] /\ DOMAIN csmap' \subseteq Addr
  BY <1>3, <1>4, CachedFact, Zenon
<1>6. /\ call.l \in SUBSET Addr /\ call.rest \in SUBSET Addr
      /\ call = [op |-> "sync", l |-> call.l, rest |-> call.rest]
  BY <1>1, CallFact, Zenon
<1>7. call' = [op |-> "sync", l |-> call.l, rest |-> call.rest \ {a}]
  BY <1>1, <1>6, Zenon
<1>8. call' \in Calls
  BY <1>6, <1>7, Zenon DEF Calls
<1>9. TypeOK' /\ SizeValid' /\ RoomInv'
  BY <1>1, <1>2, <1>3, <1>5, <1>7, <1>8 DEF TypeOK, SizeValid, RoomInv
<1>10. Agree'
  <2> SUFFICES ASSUME NEW b \in Addr PROVE Agrees(b)'
    BY Zenon DEF Agree
  <2>1. Agrees(b)
    BY Zenon DEF Agree
  <2>2. CASE b = a
    <3>1. Visible(a)' = mem[a].cur
      BY <1>1, <1>2, <1>3, <1>4, <2>1, <2>2, Zenon DEF Agrees, Visible
    <3> QED
      BY <1>1, <1>2, <2>2, <3>1, Zenon DEF Agrees
  <2>3. CASE b # a
    BY <1>1, <1>2, <1>3, <2>1, <2>3, Zenon DEF Agrees, Visible, Clean
  <2> QED
    BY <2>2, <2>3, Zenon
<1>11. SyncInv'
  <2> SUFFICES ASSUME NEW b \in call'.l \ call'.rest PROVE Clean(b)'
    BY Zenon DEF SyncInv
  <2>1. b = a \/ (b # a /\ b \in call.l \ call.rest)
    BY <1>6, <1>7, Zenon
  <2>2. CASE b = a
    BY <1>3, <1>4, <2>2, Zenon DEF Clean
  <2>3. CASE b # a /\ b \in call.l \ call.rest
    BY <1>1, <1>3, <2>3, Zenon DEF Clean, SyncInv
  <2> QED
    BY <2>1, <2>2, <2>3, Zenon
<1> QED
  BY <1>9, <1>10, <1>11, Zenon

\* The end of a sync: its blocks are clean, so that the flush makes the values
\* durable that the callers expect.
LEMMA EndSyncFact ==
  ASSUME IInv, EndSync
  PROVE  IInv' /\ call.l \in SUBSET Addr
<1> USE DEF IInv
<1>1. /\ call.op = "sync" /\ call.rest = {} /\ call' = NoCall
      /\ disk' = SyncBlocks(disk, Addr) /\ mem' = SyncBlocks(mem, call.l)
      /\ UNCHANGED <<csmap, count>>
  BY Zenon DEF EndSync
<1>2. disk \in [Addr -> ValuSet(Val)] /\ mem \in [Addr -> ValuSet(Val)]
  BY Zenon DEF TypeOK
<1>3. PICK l \in SUBSET Addr : l = call.l
  BY <1>1, CallFact, Zenon
<1>4. /\ disk' \in [Addr -> ValuSet(Val)]
      /\ \A a \in Addr : disk'[a].cur = disk[a].cur /\ Merge(disk'[a]) = {disk[a].cur}
  <2>1. PICK S \in SUBSET Addr : S = Addr
    BY Zenon
  <2> QED
    BY <1>1, <1>2, <2>1, SyncBlocksFact
<1>5. /\ mem' \in [Addr -> ValuSet(Val)]
      /\ \A a \in Addr : mem'[a].cur = mem[a].cur
      /\ \A a \in l : Merge(mem'[a]) = {mem[a].cur}
      /\ \A a \in Addr \ l : mem'[a] = mem[a]
  <2>1. mem' = SyncBlocks(mem, l)
    BY <1>1, <1>3, Zenon
  <2>2. /\ SyncBlocks(mem, l) \in [Addr -> ValuSet(Val)]
        /\ \A a \in Addr : SyncBlocks(mem, l)[a].cur = mem[a].cur
        /\ \A a \in l : Merge(SyncBlocks(mem, l)[a]) = {mem[a].cur}
        /\ \A a \in Addr \ l : SyncBlocks(mem, l)[a] = mem[a]
    BY <1>2, <1>3, SyncBlocksFact, Zenon
  <2> QED
    BY <2>1, <2>2, Zenon
<1>6. TypeOK' /\ SizeValid' /\ RoomInv' /\ SyncInv'
  BY <1>1, <1>4, <1>5, Zenon DEF TypeOK, SizeValid, RoomInv, SyncInv, Calls, NoCall
<1>7. Agree'
  <2> SUFFICES ASSUME NEW a \in Addr PROVE Agrees(a)'
    BY Zenon DEF Agree
  <2>1. Agrees(a)
    BY Zenon DEF Agree
  <2>2. Visible(a)' = mem'[a].cur
    BY <1>1, <1>4, <1>5, <2>1, Zenon DEF Agrees, Visible
  <2>3. Clean(a)' => disk'[a].cur = mem'[a].cur
    BY <1>1, <1>4, <1>5, <2>1, Zenon DEF Agrees, Clean
  <2>4. Merge(disk'[a]) \subseteq Merge(mem'[a])
    <3>1. CASE a \in l
      <4>1. Clean(a)
        BY <1>1, <1>3, <3>1, Zenon DEF SyncInv
      <4> QED
        BY <1>4, <1>5, <2>1, <3>1, <4>1, Zenon DEF Agrees
    <3>2. CASE a \notin l
      <4>1. disk[a].cur \in Merge(disk[a])
        BY <1>2, MergeFact, Zenon
      <4> QED
        BY <1>4, <1>5, <2>1, <3>2, <4>1 DEF Agrees
    <3> QED
      BY <3>1, <3>2, Zenon
  <2> QED
    BY <2>2, <2>3, <2>4, Zenon DEF Agrees
<1> QED
  BY <1>3, <1>6, <1>7, Zenon

\* An empty cache on a flushed disk, which is the disk that is exported.
LEMMA EmptyFact ==
  ASSUME NEW f \in [Addr -> Val],
         disk = Flushed(f), mem = Flushed(f), csmap = EmptyMap, count = 0, call = NoCall
  PROVE  IInv
<1>1. DOMAIN csmap = {} /\ csmap \in [DOMAIN csmap -> Cached]
  BY Zenon DEF EmptyMap
<1>2. SizeValid
  BY <1>1, FS_EmptySet, Zenon DEF SizeValid
<1>3. TypeOK
  BY <1>1, FlushedFact, CountAssumption DEF TypeOK, Calls
<1>4. Agree
  BY <1>1, Zenon DEF Agree, Agrees, Visible
<1>5. RoomInv /\ SyncInv
  BY Zenon DEF RoomInv, SyncInv, NoCall
<1> QED
  BY <1>2, <1>3, <1>4, <1>5, Zenon DEF IInv

\* A crash: what it leaves could be left of the exported disk too.
LEMMA CrashStep ==
  ASSUME IInv, Crash
  PROVE  IInv' /\ \E f \in CrashOutcomes(mem) : mem' = Flushed(f)
<1>1. PICK f \in CrashOutcomes(disk) :
        /\ disk' = Flushed(f) /\ csmap' = EmptyMap /\ count' = 0 /\ call' = NoCall
        /\ mem' = Flushed(f)
  BY Zenon DEF Crash
<1>2. f \in CrashOutcomes(mem) /\ f \in [Addr -> Val]
  <2>1. disk \in [Addr -> ValuSet(Val)] /\ mem \in [Addr -> ValuSet(Val)]
    BY Zenon DEF IInv, TypeOK
  <2>2. \A a \in Addr : Merge(disk[a]) \subseteq Merge(mem[a])
    BY Zenon DEF IInv, Agree, Agrees
  <2> QED
    BY <2>1, <2>2, CrashFact, Zenon
<1>3. IInv'
  <2>1. DOMAIN csmap' = {} /\ csmap' \in [DOMAIN csmap' -> Cached]
    BY <1>1, Zenon DEF EmptyMap
  <2>2. SizeValid'
    BY <1>1, <2>1, FS_EmptySet, Zenon DEF SizeValid
  <2>3. TypeOK'
    BY <1>1, <1>2, <2>1, FlushedFact, CountAssumption DEF TypeOK, Calls
  <2>4. Agree'
    BY <1>1, <2>1, Zenon DEF Agree, Agrees, Visible
  <2>5. RoomInv' /\ SyncInv'
    BY <1>1, Zenon DEF RoomInv, SyncInv, NoCall
  <2> QED
    BY <2>2, <2>3, <2>4, <2>5, Zenon DEF IInv
<1> QED
  BY <1>1, <1>2, <1>3, Zenon

-----------------------------------------------------------------------------
\* Every step of the cache keeps the invariant.
LEMMA NextKeepsIInv == IInv /\ [Next]_vars => IInv'
<1> SUFFICES ASSUME IInv, [Next]_vars PROVE IInv'
  BY Zenon
<1>1. CASE \E a \in Addr : StartRead(a)
  BY <1>1, StartFact DEF StartRead
<1>2. CASE \E a \in Addr : SyncOne(a)
  BY <1>2, SyncOneFact, Zenon
<1>3. CASE \E a \in Addr, v \in Val : StartWrite(a, v)
  BY <1>3, StartFact DEF StartWrite
<1>4. CASE ReadHit \/ ReadMiss \/ FinishWrite
  BY <1>4, FinishFact, Zenon
<1>5. CASE \E S \in SUBSET Addr : StartSync(S)
  <2>1. PICK S \in SUBSET Addr : StartSync(S)
    BY <1>5, Zenon
  <2>2. call' = [op |-> "sync", l |-> S, rest |-> S] /\ UNCHANGED <<disk, csmap, count, mem>>
    BY <2>1, Zenon DEF StartSync
  <2>3. call' \in Calls /\ RoomInv' /\ SyncInv'
    BY <2>2, Zenon DEF Calls, RoomInv, SyncInv
  <2> QED
    BY <2>2, <2>3, SameFact, Zenon
<1>6. CASE EndSync
  BY <1>6, EndSyncFact, Zenon
<1>7. CASE Crash
  BY <1>7, CrashStep, Zenon
<1>8. CASE UNCHANGED vars
  <2>1. call' \in Calls /\ RoomInv' /\ SyncInv'
    BY <1>8, Zenon DEF IInv, TypeOK, RoomInv, SyncInv, Clean, vars
  <2> QED
    BY <1>8, <2>1, SameFact, Zenon DEF vars
<1> QED
  BY <1>1, <1>2, <1>3, <1>4, <1>5, <1>6, <1>7, <1>8, Zenon DEF Next

\* So it holds in every state.
LEMMA Invariance == Spec => []IInv
<1>1. Init => IInv
  <2> SUFFICES ASSUME Init PROVE IInv
    BY Zenon
  <2>1. PICK f \in [Addr -> Val] : disk = Flushed(f)
    BY Zenon DEF Init
  <2> QED
    BY <2>1, EmptyFact, Zenon DEF Init
<1> QED
  BY <1>1, NextKeepsIInv, PTL DEF Spec

\* The abstract disk is built from the same operators on disk blocks.
LEMMA SameDisk ==
  /\ D!ValuSet(Val) = ValuSet(Val)
  /\ \A vs, v : D!Overwrite(vs, v) = Overwrite(vs, v)
  /\ \A d, S : D!SyncBlocks(d, S) = SyncBlocks(d, S)
  /\ \A d : D!CrashOutcomes(d) = CrashOutcomes(d)
  /\ \A f : D!Flushed(f) = Flushed(f)
BY Zenon DEF D!ValuSet, ValuSet, D!Overwrite, Overwrite, D!Merge, Merge, D!SyncBlocks, SyncBlocks,
       D!CrashOutcomes, CrashOutcomes, D!Flushed, Flushed, D!Settled, Settled

\* The types of the cache, for every address range, value set and capacity
\* (Cache.v: cachestate).
THEOREM CacheTyped == Spec => []TypeOK
BY Invariance, PTL DEF IInv

\* CSCount is the number of cached blocks and never passes CSMaxCount, whatever
\* the order of reads, writes, syncs, evictions and crashes (Cache.v: size_valid).
THEOREM CacheBounded == Spec => []SizeValid
BY Invariance, PTL DEF IInv

\* A read returns the value last written, whether the block is cached, was
\* evicted, or is being synced (Cache.v: cachepred).
THEOREM CacheReads == Spec => []ReadsLatest
<1>1. IInv => ReadsLatest
  BY Zenon DEF IInv, Agree, Agrees, ReadsLatest
<1> QED
  BY <1>1, Invariance, PTL

\* The cache on its disk behaves as one disk whose blocks are synced by name:
\* a crash leaves nothing that a crash of that disk could not leave (Cache.v: rep).
THEOREM CacheImplementsDisk == Spec => ImplementsSyncDisk
<1>1. Init => D!DInit
  <2> SUFFICES ASSUME Init PROVE D!DInit
    BY Zenon
  <2>1. PICK f \in [Addr -> Val] : mem = Flushed(f)
    BY Zenon DEF Init
  <2> QED
    BY <2>1, FlushedFact, SameDisk, Zenon DEF D!DInit
<1>2. IInv /\ [Next]_vars => [D!DNext]_mem
  <2> SUFFICES ASSUME IInv, [Next]_vars PROVE [D!DNext]_mem
    BY Zenon
  <2>1. CASE FinishWrite
    <3>1. call.a \in Addr /\ call.v \in Val
      BY <2>1, CallFact, Zenon DEF FinishWrite, IInv
    <3>2. D!DWrite(call.a, call.v)
      BY <2>1, SameDisk, Zenon DEF FinishWrite, D!DWrite
    <3> QED
      BY <3>1, <3>2, Zenon DEF D!DNext
  <2>2. CASE EndSync
    <3>1. call.l \in SUBSET Addr
      BY <2>2, EndSyncFact, Zenon
    <3>2. D!DSync(call.l)
      BY <2>2, SameDisk, Zenon DEF EndSync, D!DSync
    <3> QED
      BY <3>1, <3>2, Zenon DEF D!DNext
  <2>3. CASE Crash
    <3>1. D!DCrash
      BY <2>3, CrashStep, SameDisk, Zenon DEF D!DCrash
    <3> QED
      BY <3>1, Zenon DEF D!DNext
  <2>4. CASE UNCHANGED mem
    BY <2>4, Zenon
  <2>5. CASE \E a \in Addr : StartRead(a) \/ SyncOne(a) \/ \E v \in Val : StartWrite(a, v)
    BY <2>4, <2>5, Zenon DEF StartRead, SyncOne, StartWrite
  <2>6. CASE ReadHit \/ ReadMiss \/ \E S \in SUBSET Addr : StartSync(S)
    BY <2>4, <2>6, Zenon DEF ReadHit, ReadMiss, StartSync
  <2> QED
    BY <2>1, <2>2, <2>3, <2>4, <2>5, <2>6, Zenon DEF Next, vars
<1> QED
  BY <1>1, <1>2, Invariance, PTL DEF Spec, ImplementsSyncDisk, D!DSpec
=============================================================================
