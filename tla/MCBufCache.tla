----------------------------- MODULE MCBufCache ------------------------------
(***************************************************************************)
(* BufCache for TLC: three blocks and a cache of two, so that blocks are   *)
(* evicted dirty and clean and the block asked for can be the victim.      *)
(***************************************************************************)
EXTENDS BufCache

CONSTANTS u, v

MCAddr == {0, 1, 2}
MCVal == {u, v}
=============================================================================
