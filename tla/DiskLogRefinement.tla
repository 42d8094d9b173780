-------------------------- MODULE DiskLogRefinement --------------------------
(***************************************************************************)
(* DiskLog implements AtomicLog: the entries that DLog.read decodes from   *)
(* the blocks behave as one atomic list, through padding, torn extends,    *)
(* crashes and repeated recoveries.                                        *)
(***************************************************************************)
EXTENDS DiskLog, FiniteSets

\* iunpack of the descriptor blocks: the n-th of their addresses, from 0 on.
AddrAt(addrs, n) == addrs[n \div ItemsPerVal][n % ItemsPerVal]

\* Where the descriptors hold an address and not padding.
Nonzero(addrs) ==
  {n \in 0 .. LogLen - 1 : n \div ItemsPerVal \in DOMAIN addrs /\ AddrAt(addrs, n) # 0}

\* The k-th smallest number of S is the one that k of its numbers reach up to.
Ranked(S, k) == {n \in S : Cardinality({m \in S : m <= n}) = k}
Nth(S, k) == CHOOSE n \in Ranked(S, k) : TRUE

\* combine_nonzero pairs the nonzero addresses with the values in order and
\* stops at the shorter list.
CombineNonzero(c) ==
  LET at == Nonzero(c.addrs)
  IN [i \in {k \in 1 .. Cardinality(at) : k - 1 \in DOMAIN c.vals} |->
        [a |-> AddrAt(c.addrs, Nth(at, i)), v |-> c.vals[i - 1]]]

\* read
ReadLog(len) == CombineNonzero(Contents(len))

Running == pc \in {"extend", "trunc"}

\* While a call runs, the header that it wrote carries the old lengths as
\* its previous lengths; after a crash the survivor is what counts.
AbstractLog ==
  IF Running \/ (pc = "down" /\ ~ChecksumsMatch)
  THEN ReadLog(hdr.cur.prev)
  ELSE ReadLog(hdr.cur.len)

AbstractNext == IF Running THEN ReadLog(hdr.cur.len) ELSE AbstractLog

Atomic == INSTANCE AtomicLog WITH log <- AbstractLog, next <- AbstractNext, busy <- Running

\* The list of entries that DLog.read returns changes only by whole calls:
\* extend appends exactly its entries, trunc empties the list, and a crash
\* keeps the list as it was before or after the call that it interrupts.
ImplementsAtomicLog == Atomic!ASpec
=============================================================================
