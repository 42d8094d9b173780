------------------------------ MODULE MCDiskLog ------------------------------
(***************************************************************************)
(* DiskLog for TLC: two descriptor blocks of two addresses, four data      *)
(* blocks, and calls of extend with one, two or three entries, so that     *)
(* padding, a partly filled log and a refused extend all occur.            *)
(***************************************************************************)
EXTENDS DiskLogRefinement

CONSTANTS u, v

MCAddr == {1, 2}
MCVal == {u, v}
MCDefault == u

Ent(a, x) == [a |-> a, v |-> x]

MCLogs ==
  {<<Ent(1, u)>>, <<Ent(2, v)>>, <<Ent(1, v), Ent(2, u)>>,
   <<Ent(1, v), Ent(2, v), Ent(1, u)>>}
=============================================================================
