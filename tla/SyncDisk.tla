------------------------------ MODULE SyncDisk -------------------------------
(***************************************************************************)
(* What the buffer cache promises to the log above it (the POST and CRASH  *)
(* conditions of read_ok, write_ok and sync_vecs_now_ok in Cache.v): an    *)
(* asynchronous disk without a cache.  A write is visible at once and may  *)
(* be lost until its block is synced; a crash keeps one of the values of   *)
(* every block.                                                            *)
(***************************************************************************)
EXTENDS AsyncDisk

CONSTANTS Addr, Val

VARIABLE mem

DInit == mem \in [Addr -> ValuSet(Val)]

DWrite(a, v) == mem' = [mem EXCEPT ![a] = Overwrite(mem[a], v)]

DSync(S) == mem' = SyncBlocks(mem, S)

DCrash == \E f \in CrashOutcomes(mem) : mem' = Flushed(f)

DNext ==
  \/ \E a \in Addr, v \in Val : DWrite(a, v)
  \/ \E S \in SUBSET Addr : DSync(S)
  \/ DCrash

DSpec == DInit /\ [][DNext]_mem
=============================================================================
