------------------------------ MODULE AsyncDisk ------------------------------
(***************************************************************************)
(* The asynchronous disk that every component sits on: AsyncDisk.v with    *)
(* the semantics of Prog.v and the crash relation of PredCrash.v.  The     *)
(* same disk serves xv6, whose ide.c writes a host file with pwrite and    *)
(* flushes it with fdatasync.                                              *)
(*                                                                         *)
(* A block is a value set: the value a read returns, and the older values  *)
(* that a crash may still leave on the medium because no flush has         *)
(* completed since they were overwritten.                                  *)
(***************************************************************************)
\* valuset: the latest value and the older ones that a crash may expose.
ValuSet(V) == [cur : V, old : SUBSET V]

\* vsmerge: the values that a block may have after a crash.
Merge(vs) == {vs.cur} \cup vs.old

\* A block whose only possible value is v.
Settled(v) == [cur |-> v, old |-> {}]

\* The step of Write: the value overwritten stays possible after a crash.
Overwrite(vs, v) == [cur |-> v, old |-> Merge(vs)]

\* Write of every block of the partial function m.
WriteBlocks(d, m) ==
  [a \in DOMAIN d |-> IF a \in DOMAIN m THEN Overwrite(d[a], m[a]) ELSE d[a]]

\* sync_addr on the blocks of S: only their latest value is left.
SyncBlocks(d, S) == [a \in DOMAIN d |-> IF a \in S THEN Settled(d[a].cur) ELSE d[a]]

\* What reads return.
Latest(d) == [a \in DOMAIN d |-> d[a].cur]

\* A disk that has been flushed.
Flushed(f) == [a \in DOMAIN f |-> Settled(f[a])]

\* possible_crash: every block independently keeps one of its values, so
\* unflushed writes are lost and reordered at the grain of a block.
CrashOutcomes(d) ==
  {f \in [DOMAIN d -> UNION {Merge(d[a]) : a \in DOMAIN d}] :
     \A a \in DOMAIN d : f[a] \in Merge(d[a])}

\* f overlaid by the partial function m: what replaying m over f gives.
Overlay(m, f) == [a \in DOMAIN f |-> IF a \in DOMAIN m THEN m[a] ELSE f[a]]

\* The partial functions from A to V (maps keyed by address: valumap).
Maps(A, V) == UNION {[S -> V] : S \in SUBSET A}

\* Updates of the map n added to the map m (Map.add for every pair of n).
AddAll(m, n) ==
  [a \in (DOMAIN m) \cup (DOMAIN n) |-> IF a \in DOMAIN n THEN n[a] ELSE m[a]]

EmptyMap == [a \in {} |-> 0]
=============================================================================
