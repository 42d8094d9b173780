------------------------------ MODULE MCXv6Disk -------------------------------
(***************************************************************************)
(* Xv6Disk for TLC: images with a file of half a block and with a file     *)
(* that has an indirect block.                                             *)
(***************************************************************************)
EXTENDS Xv6Disk

MCFiles == {<<1>>, <<5>>}
=============================================================================
