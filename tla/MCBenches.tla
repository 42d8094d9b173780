----------------------------- MODULE MCBenches --------------------------------
(***************************************************************************)
(* Benches for TLC.                                                        *)
(***************************************************************************)
EXTENDS Benches

CONSTANTS NInodes, NData

MCInum == 1 .. NInodes
MCBlock == 1 .. NData
MCName == {"temp", "dst", "f1", "f2", "tmp1", "tmp2", "q1", "q2", "one", "two", "f0", "src", ".temp", "d"}
MCPrograms ==
  {"atomic_create", "testsync", "mailbench", "mini", "smallsync", "smallfile",
   "largefile", "lfs_small", "multifsync", "multiwrite",
   "multicreatemany", "atomic_cp"} \cup Scratch
=============================================================================
