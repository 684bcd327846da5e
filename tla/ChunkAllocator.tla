--------------------------- MODULE ChunkAllocator ---------------------------
(***************************************************************************)
(* What becomes of the blocks of Allocator when they are cut from chunks:  *)
(* which chunks are mapped, and what their bit arrays and counters say.    *)
(* free and shrink know an address and nothing else: how far the block     *)
(* goes they read from the bits.                                           *)
(*                                                                         *)
(* How a chunk is found by its address (the tree), in which order chunks   *)
(* are looked into (the list and `optimal') and what is remembered of them *)
(* (largestBlock) is left to MemoryManager, which implements this          *)
(* specification as this one implements Allocator.                         *)
(***************************************************************************)
EXTENDS Allocator, Chunk

CONSTANT MostBlocks   \* the blocks of the largest chunk that is ever mapped

VARIABLE chunk        \* the mapped chunks, by address

kvars == <<block, chunk>>

\* The memory of n blocks of a chunk, from block i on.
Bytes(m, i, n) == [addr |-> m + i * Density, len |-> n * Density]

NoChunks == [m \in {} |-> NewData(m, 0)]

KInit == AInit /\ chunk = NoChunks

\* Any chunk with room may be the one, and any room in it.
KAllocate(c) ==
  /\ block[c] = NoBlock
  /\ \E m \in DOMAIN chunk : \E n \in 1 .. chunk[m].blocks : \E i \in Fits(chunk[m], n) :
       /\ block' = [block EXCEPT ![c] = Bytes(m, i, n)]
       /\ chunk' = [chunk EXCEPT ![m] = Taken(@, i, n)]

\* The system maps b blocks where nothing is mapped, and c gets the first n.
KMap(c) ==
  /\ block[c] = NoBlock
  /\ \E m \in Base, b \in 1 .. MostBlocks : \E n \in 1 .. b :
       /\ \A k \in DOMAIN chunk :
            m + b * Density <= chunk[k].mem \/ chunk[k].mem + chunk[k].size <= m
       /\ block' = [block EXCEPT ![c] = Bytes(m, 0, n)]
       /\ chunk' = [k \in DOMAIN chunk \cup {m} |->
                      IF k = m THEN Taken(NewData(m, b * Density), 0, n) ELSE chunk[k]]

\* The chunk that the address lies in.
Holding(addr) ==
  CHOOSE m \in DOMAIN chunk : addr \in m .. m + chunk[m].size - 1

\* The blocks that the bits give the block at an address.
FirstBit(addr) == BitPos(chunk[Holding(addr)], addr)
LastBit(addr) == LastOf(chunk[Holding(addr)], FirstBit(addr))

\* A chunk that is not used any more is unmapped.
KRelease(c) ==
  /\ block[c] # NoBlock
  /\ block' = [block EXCEPT ![c] = NoBlock]
  /\ LET m == Holding(block[c].addr)
         from == FirstBit(block[c].addr)
         left == Returned(chunk[m], from, from, LastBit(block[c].addr))
     IN  chunk' = IF left.used > 0 THEN [chunk EXCEPT ![m] = left]
                                   ELSE [k \in DOMAIN chunk \ {m} |-> chunk[k]]

\* c keeps the blocks in front of `kept'.
KShrink(c) ==
  /\ block[c] # NoBlock
  /\ LET m == Holding(block[c].addr)
         from == FirstBit(block[c].addr)
         to == LastBit(block[c].addr)
     IN  \E kept \in from + 1 .. to :
           /\ block' = [block EXCEPT ![c].len = (kept - from) * Density]
           /\ chunk' = [chunk EXCEPT ![m] = Returned(@, kept, kept - 1, to)]

KReleaseAll == ReleaseAll /\ chunk' = NoChunks

KNext ==
  \/ \E c \in Caller : KAllocate(c) \/ KMap(c) \/ KRelease(c) \/ KShrink(c)
  \/ KReleaseAll

KSpec == KInit /\ [][KNext]_kvars

-----------------------------------------------------------------------------
UsedBits(d) == {i \in 0 .. d.blocks - 1 : BitAt(d.baUsed, i)}

\* From the address of a block, free and shrink find its chunk and, by the
\* bits, exactly its blocks.
BlocksFound ==
  \A c \in Caller : block[c] # NoBlock =>
    LET addr == block[c].addr
    IN  /\ Holding(addr) \in DOMAIN chunk
        /\ block[c] = Bytes(Holding(addr), FirstBit(addr), LastBit(addr) - FirstBit(addr) + 1)
        /\ LastBit(addr) < chunk[Holding(addr)].blocks

\* No memory leaks: a chunk's counter, by which it is skipped and unmapped,
\* agrees with its bits, and every used block belongs to a caller.
BlocksOwned ==
  \A m \in DOMAIN chunk :
    /\ chunk[m].used = Cardinality(UsedBits(chunk[m])) * Density
    /\ chunk[m].used > 0
    /\ \A i \in UsedBits(chunk[m]) : \E c \in Caller :
         /\ block[c] # NoBlock
         /\ block[c].addr <= m + i * Density
         /\ m + i * Density < block[c].addr + block[c].len
=============================================================================
