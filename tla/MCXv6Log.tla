------------------------------- MODULE MCXv6Log -------------------------------
(***************************************************************************)
(* A small instance of the xv6 log.                                        *)
(***************************************************************************)
EXTENDS Xv6Log, TLC

CONSTANTS h1, h2, h3, l1, l2, l3, head, u, v

MCHome3 == {h1, h2, h3}
MCLogSector == <<l1, l2, l3>>
MCVal == {u, v}

Symmetry3 == Permutations(MCHome3)
=============================================================================
