------------------------------- MODULE GroupLog -------------------------------
(***************************************************************************)
(* The group log (GroupLog.v, module GLog): committed transactions that    *)
(* are not in the on-disk log yet, kept as a list (MSTxns) and merged into *)
(* one map (MSVMap) for reads.  flushall writes them out, as one merged    *)
(* transaction when the merge fits into the log and one by one otherwise.  *)
(* MSTxns is kept here with the oldest transaction first.                  *)
(***************************************************************************)
EXTENDS MemLog

VARIABLES vm, \* MSVMap: the merged updates of the unflushed transactions
          ts  \* MSTxns: the unflushed transactions

gvars == <<mvars, vm, ts>>

GInit == MInit /\ vm = EmptyMap /\ ts = <<>>

\* submit takes a transaction that fits into an empty log.
Accepts(ents) == Cardinality(DOMAIN ents) <= LogLen

\* Faulty variant of ToFlush: the newest transaction first, as MSTxns has them.
ToFlushNewestFirst(merged, txns) ==
  IF Cardinality(DOMAIN merged) <= LogLen THEN <<merged>>
  ELSE [i \in DOMAIN txns |-> txns[Len(txns) + 1 - i]]

\* flushall: what is handed to MLog.flush, in order.
ToFlush(merged, txns) == IF Cardinality(DOMAIN merged) <= LogLen THEN <<merged>> ELSE txns

\* flushall after the last flush; flushsync applies the log, dwrite writes.
FlushDone ==
  /\ pc = "flush"
  /\ queue = <<>>
  /\ vm' = EmptyMap
  /\ ts' = <<>>
  /\ pc' = CASE op = "flushsync" -> "apply"
             [] op = "dwrite"    -> "dwrite"
             [] OTHER            -> "return"
  /\ UNCHANGED <<disk, dlog, oms, op, queue, wr>>

GCrash == MCrash /\ vm' = EmptyMap /\ ts' = <<>>

GRecover == MRecover /\ UNCHANGED <<vm, ts>>

GRead(a) == IF a \in DOMAIN vm THEN vm[a] ELSE MRead(a)
=============================================================================
