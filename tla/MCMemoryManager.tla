-------------------------- MODULE MCMemoryManager --------------------------
(* A bounded instance of MemoryManager for TLC: chunks of three blocks in   *)
(* words of two bits.                                                       *)
EXTENDS MemoryManager, TLC

MCBase == {0, 1024, 2048}

Symmetry == Permutations(Struct) \cup Permutations(Caller)
=============================================================================
