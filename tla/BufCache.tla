------------------------------ MODULE BufCache -------------------------------
(***************************************************************************)
(* FSCQ's write-back buffer cache (Cache.v).  Dirty blocks reach the disk  *)
(* when they are evicted or synced, in an order the callers do not see;    *)
(* only end_sync makes the disk flush.  The module is sequential, as the   *)
(* program is, but a crash may fall between any two of its disk accesses.  *)
(*                                                                         *)
(* mem is the disk that the representation invariant (rep) exports: what   *)
(* the cache's callers believe they are writing.                           *)
(***************************************************************************)
EXTENDS AsyncDisk, Integers, FiniteSets

CONSTANTS Addr,         \* block addresses
          Val,          \* block contents
          MaxCount      \* CSMaxCount

ASSUME AddrAssumption == Addr \subseteq Nat /\ IsFiniteSet(Addr)
ASSUME CountAssumption == MaxCount \in Nat \ {0}

VARIABLES disk,         \* the disk
          csmap,        \* CSMap: a map from addresses to a value and a dirty flag
          count,        \* CSCount
          call,         \* the call in progress, and what is left of it
          mem           \* the exported disk

vars == <<disk, csmap, count, call, mem>>

Cached == [val : Val, dirty : BOOLEAN]
NoCall == [op |-> "none"]
Calls ==
  {NoCall} \cup [op : {"read"}, a : Addr] \cup [op : {"write"}, a : Addr, v : Val]
    \cup [op : {"sync"}, l : SUBSET Addr, rest : SUBSET Addr]

Put(m, a, e) == [b \in (DOMAIN m) \cup {a} |-> IF b = a THEN e ELSE m[b]]
Remove(m, a) == [b \in (DOMAIN m) \ {a} |-> m[b]]

\* The address that maybe_evict gives up: eviction_choose always says 0, and
\* when 0 is not cached the first element of the map, which is ordered, goes.
IsVictim(a) == a \in DOMAIN csmap /\ \A b \in DOMAIN csmap : a <= b

\* Faulty variant of Written: the block is dropped without being written.
WrittenNever(a) == disk

\* The disk after writeback: a dirty block is written, and not flushed.
Written(a) ==
  IF a \in DOMAIN csmap /\ csmap[a].dirty
    THEN [disk EXCEPT ![a] = Overwrite(disk[a], csmap[a].val)]
    ELSE disk

Writeback(a) ==
  /\ disk' = Written(a)
  /\ csmap' = IF a \in DOMAIN csmap THEN Put(csmap, a, [csmap[a] EXCEPT !.dirty = FALSE])
                                    ELSE csmap
  /\ UNCHANGED count

Evict(a) ==
  /\ disk' = Written(a)
  /\ csmap' = Remove(csmap, a)
  /\ count' = IF a \in DOMAIN csmap THEN count - 1 ELSE count

MaybeEvict ==
  \/ (count < MaxCount \/ DOMAIN csmap = {}) /\ UNCHANGED <<disk, csmap, count>>
  \/ count >= MaxCount /\ \E a \in DOMAIN csmap : IsVictim(a) /\ Evict(a)

\* The state the server starts in: init flushes the disk and empties the cache.
Init ==
  /\ \E f \in [Addr -> Val] : disk = Flushed(f)
  /\ csmap = EmptyMap
  /\ count = 0
  /\ call = NoCall
  /\ mem = disk

\* read and write make room first, even when the block is cached already; the
\* victim can be that very block.
StartRead(a) ==
  /\ call = NoCall
  /\ MaybeEvict
  /\ call' = [op |-> "read", a |-> a]
  /\ UNCHANGED mem

StartWrite(a, v) ==
  /\ call = NoCall
  /\ MaybeEvict
  /\ call' = [op |-> "write", a |-> a, v |-> v]
  /\ UNCHANGED mem

ReadHit ==
  /\ call.op = "read" /\ call.a \in DOMAIN csmap
  /\ call' = NoCall
  /\ UNCHANGED <<disk, csmap, count, mem>>

ReadMiss ==
  /\ call.op = "read" /\ call.a \notin DOMAIN csmap
  /\ csmap' = Put(csmap, call.a, [val |-> disk[call.a].cur, dirty |-> FALSE])
  /\ count' = count + 1
  /\ call' = NoCall
  /\ UNCHANGED <<disk, mem>>

FinishWrite ==
  /\ call.op = "write"
  /\ csmap' = Put(csmap, call.a, [val |-> call.v, dirty |-> TRUE])
  /\ count' = IF call.a \in DOMAIN csmap THEN count ELSE count + 1
  /\ mem' = [mem EXCEPT ![call.a] = Overwrite(mem[call.a], call.v)]
  /\ call' = NoCall
  /\ UNCHANGED disk

\* sync_vecs_now (sync_one and sync_two with one and two addresses, sync_range
\* with a range, sync_all with every cached block): begin_sync does nothing.
StartSync(S) ==
  /\ call = NoCall
  /\ call' = [op |-> "sync", l |-> S, rest |-> S]
  /\ UNCHANGED <<disk, csmap, count, mem>>

SyncOne(a) ==
  /\ call.op = "sync" /\ a \in call.rest
  /\ Writeback(a)
  /\ call' = [call EXCEPT !.rest = @ \ {a}]
  /\ UNCHANGED mem

\* Faulty variant of EndSync: the call returns without the flush.
EndSyncUnflushed ==
  /\ call.op = "sync" /\ call.rest = {}
  /\ mem' = SyncBlocks(mem, call.l)
  /\ call' = NoCall
  /\ UNCHANGED <<disk, csmap, count>>

\* end_sync: the one flush of the disk; the blocks of the call are durable.
EndSync ==
  /\ call.op = "sync" /\ call.rest = {}
  /\ disk' = SyncBlocks(disk, Addr)
  /\ mem' = SyncBlocks(mem, call.l)
  /\ call' = NoCall
  /\ UNCHANGED <<csmap, count>>

\* A crash, and init_recover: the cache is lost, the disk keeps some value of
\* every block, and this is the disk that is exported from then on.
Crash ==
  \E f \in CrashOutcomes(disk) :
    /\ disk' = Flushed(f)
    /\ csmap' = EmptyMap
    /\ count' = 0
    /\ call' = NoCall
    /\ mem' = Flushed(f)

Next ==
  \/ \E a \in Addr : StartRead(a) \/ SyncOne(a)
  \/ \E a \in Addr, v \in Val : StartWrite(a, v)
  \/ ReadHit \/ ReadMiss \/ FinishWrite
  \/ \E S \in SUBSET Addr : StartSync(S)
  \/ EndSync
  \/ Crash

Spec == Init /\ [][Next]_vars

---------------------------------------------------------------------------
\* Types; the cache never exceeds the size it was given, although an insertion
\* follows the eviction that makes room for it by a step.
TypeOK ==
  /\ disk \in [Addr -> ValuSet(Val)]
  /\ DOMAIN csmap \subseteq Addr
  /\ csmap \in [DOMAIN csmap -> Cached]
  /\ count \in 0 .. MaxCount
  /\ call \in Calls
  /\ mem \in [Addr -> ValuSet(Val)]

\* size_valid of Cache.v: the counter, which is kept by hand over read, write
\* and evict, is the number of cached blocks.
SizeValid == count = Cardinality(DOMAIN csmap)

\* What read returns for block a.
Visible(a) == IF a \in DOMAIN csmap THEN csmap[a].val ELSE disk[a].cur

\* Whatever has been evicted, written back or synced, and whichever block was
\* given up to make room, a read returns the last value written.
ReadsLatest == \A a \in Addr : Visible(a) = mem[a].cur

\* The cache implements a disk without a cache: no crash leaves a value that
\* the callers could not expect, and what they have synced is never lost.
D == INSTANCE SyncDisk
ImplementsSyncDisk == D!DSpec
=============================================================================
