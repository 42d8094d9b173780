---------------------------- MODULE MCFscqServer ------------------------------
(***************************************************************************)
(* FscqServer for TLC.                                                     *)
(***************************************************************************)
EXTENDS FscqServer

CONSTANTS NData

MCWrites == {<<0, 1>>, <<1, 2>>, <<3, 1>>}
MCBlock == 1 .. NData
MCZero == [k \in 1 .. BlockBytes |-> 0]
MCVal == [1 .. BlockBytes -> Byte \cup {0}]
=============================================================================
