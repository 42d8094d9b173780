------------------------------ MODULE MCAsyncFs -------------------------------
(***************************************************************************)
(* AsyncFs for TLC.                                                        *)
(***************************************************************************)
EXTENDS AsyncFs, TLC

CONSTANTS a, b, NInodes, NData

MCName == {a, b}
MCSymmetry == Permutations(MCName)
MCInum == 1 .. NInodes
MCBlock == 1 .. NData
MCVal == 0 .. NInodes + 1
MCJunk == NInodes + 1

FilesOnly == [deleted |-> {}, dirs |-> {}, paths |-> {}, lengths |-> 0 .. NBlocks + 1,
              sizes |-> {}, written |-> {}, txns |-> 2]

\* Data in two files.
DataMix == [FilesOnly EXCEPT !.written = {2}]

\* Deletion and growth within the transactions of one flush.
DeleteMix == [FilesOnly EXCEPT !.deleted = MCName]

\* Data in a file whose inode is used again.
ReuseMix == [DataMix EXCEPT !.deleted = MCName, !.lengths = {1}, !.txns = 1]

\* Directories at two levels, and empty files.
TreeMix == [deleted |-> MCName, dirs |-> MCName, paths |-> {<<>>, <<a>>, <<b>>},
            lengths |-> {0, 1}, sizes |-> {0}, written |-> {}, txns |-> 1]

MCMixes == {DataMix, DeleteMix, ReuseMix, TreeMix}
=============================================================================
