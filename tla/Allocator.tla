----------------------------- MODULE Allocator -----------------------------
(***************************************************************************)
(* What a memory manager for generated code promises: a caller has its     *)
(* block to itself from alloc until free, the block is as long as the      *)
(* caller asked for, and only the caller's own shrink makes it shorter.    *)
(*                                                                         *)
(* An abstract specification, implemented by ChunkAllocator and so by      *)
(* MemoryManager.                                                          *)
(***************************************************************************)
EXTENDS Integers

CONSTANT Caller   \* the threads that generate code

VARIABLE
  block     \* the block of each caller

Block == [addr : Nat, len : Nat \ {0}]

NoBlock == [addr |-> 0, len |-> 0]

Apart(b, d) == b.addr + b.len <= d.addr \/ d.addr + d.len <= b.addr

AInit == block = [c \in Caller |-> NoBlock]

\* b overlaps no other caller's block.
Free(b) == \A d \in Caller : block[d] # NoBlock => Apart(b, block[d])

\* Only c's block changes, to some block.
Moves(c) ==
  /\ block'[c] \in Block
  /\ block' = [block EXCEPT ![c] = block'[c]]

Allocate(c) ==
  /\ block[c] = NoBlock
  /\ Moves(c)
  /\ Free(block'[c])

Shrink(c) ==
  /\ block[c] # NoBlock
  /\ Moves(c)
  /\ block'[c].addr = block[c].addr
  /\ block'[c].len <= block[c].len

Release(c) ==
  /\ block[c] # NoBlock
  /\ block' = [block EXCEPT ![c] = NoBlock]

ReleaseAll == block' = [c \in Caller |-> NoBlock]

ANext ==
  \/ \E c \in Caller : Allocate(c) \/ Shrink(c) \/ Release(c)
  \/ ReleaseAll

ASpec == AInit /\ [][ANext]_block

-----------------------------------------------------------------------------
AllocatorTypeOK == block \in [Caller -> Block \cup {NoBlock}]

\* No two callers ever share a byte of executable memory.
Disjoint ==
  \A c, d \in Caller :
    (c # d /\ block[c] # NoBlock /\ block[d] # NoBlock) => Apart(block[c], block[d])
=============================================================================
