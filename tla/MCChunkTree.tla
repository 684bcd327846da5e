---------------------------- MODULE MCChunkTree ----------------------------
(* A bounded instance of ChunkTree for TLC: structs are interchangeable, the *)
(* addresses leave gaps between some chunks.                                 *)
EXTENDS ChunkTree, TLC

MCBase == {0, 2, 5, 7, 10, 12, 15}

Symmetry == Permutations(Struct)
=============================================================================
