------------------------------ MODULE MCOpQueue ------------------------------
(***************************************************************************)
(* A small instance of the operation queue.                                *)
(***************************************************************************)
EXTENDS OpQueue

CONSTANTS c1, c2, w1, w2

Client2 == {c1, c2}
Worker2 == {w1, w2}
=============================================================================
