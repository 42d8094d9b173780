-------------------------------- MODULE MCLog --------------------------------
(***************************************************************************)
(* A small instance of the log stack.                                      *)
(***************************************************************************)
EXTENDS Log, TLC

CONSTANTS x, y, u, v

MCAddr2 == {x, y}
MCVal == {u, v}
MCDefault == u

Symmetry2 == Permutations(MCAddr2)
=============================================================================
