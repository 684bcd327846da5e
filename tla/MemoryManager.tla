--------------------------- MODULE MemoryManager ---------------------------
(***************************************************************************)
(* AsmJit's virtual memory manager (MemoryManager.cpp) and its user        *)
(* JitCodeGenerator::generate (CodeGenerator.cpp): every thread of pChase  *)
(* generates its benchmark for itself, so the threads allocate executable  *)
(* memory from the one global manager, each call under the manager's lock. *)
(*                                                                         *)
(* A chunk of mapped memory is a MemNode: it is in a list, in the order of *)
(* creation, and in a red-black tree by address (RbTree).  Two bit arrays  *)
(* say which of its blocks are used and which continue in the next one.    *)
(* Two caches make a call fast: `optimal', the chunk to start from, and a  *)
(* chunk's largestBlock, where 0 stands for "not known".                   *)
(*                                                                         *)
(* A method is one action, since it holds the lock from its first look at  *)
(* the state to its last.  free and freeAll are in the manager's interface *)
(* and not called by pChase, which keeps its code until it exits; freeAll  *)
(* is one action too, although it takes no lock: whoever calls it has to   *)
(* see to it that nobody else is in the manager.                           *)
(***************************************************************************)
EXTENDS RbTree, Chunk, Sequences

LOCAL INSTANCE FiniteSetsExt

CONSTANTS
  Caller,          \* the threads that generate code
  CodeSizes,       \* the sizes of code that are tried
  PermanentSizes,  \* the sizes of permanent allocations that are tried
  NewChunkSize,    \* 65536 in the code
  Alignment,       \* 32: sizes are rounded up to it
  PermanentChunk,  \* 32768
  PageSize         \* what the system rounds mappings up to

ASSUME SizesAssumption ==
  /\ {NewChunkSize, Alignment, PermanentChunk, PageSize} \subseteq Nat \ {0}
  /\ Density % Alignment = 0 /\ PageSize % Density = 0
  /\ CodeSizes \cup PermanentSizes \subseteq Nat \ {0}

VARIABLES
  tree,            \* _root and every MemNode: links, colour, data
  list,            \* _first .. _last
  optimal,         \* _optimal
  permanent,       \* _permanent and its prev nodes
  used,            \* _used
  allocated,       \* _allocated
  code             \* what the callers hold: the result of alloc and its size

vars == <<tree, list, optimal, permanent, used, allocated, code>>

NoBlock == [addr |-> 0, len |-> 0]

RoundUp(n, unit) == ((n + unit - 1) \div unit) * unit

-----------------------------------------------------------------------------
(***************************************************************************)
(* What a chunk remembers of itself, beside its blocks (Chunk).            *)
(***************************************************************************)
NoData == [mem |-> 0, size |-> 0]

Available(d) == d.size - d.used

Needed(bytes) == (bytes + Density - 1) \div Density

First(S) == CHOOSE i \in S : \A j \in S : i <= j

Largest(S) == CHOOSE i \in S : \A j \in S : i >= j

\* What the scan has seen when it ends without a hit: a run of free blocks is
\* only compared with maxCont when a used block ends it.
MaxCont(d) ==
  Largest({0} \cup {n \in 1 .. d.blocks - 1 :
                      \E i \in 0 .. d.blocks - 1 - n :
                        AllFree(d, i, i + n - 1) /\ BitAt(d.baUsed, i + n)})

\* The chunk need not be looked into for vsize bytes.
Skip(d, vsize) ==
  \/ Available(d) < vsize
  \/ d.largestBlock < vsize /\ d.largestBlock # 0

Take(d, i, need) == [Taken(d, i, need) EXCEPT !.largestBlock = 0]

\* The statistics of free and shrink: n blocks have become free.
GiveBack(d, from, stop, to) ==
  LET n == (to - from + 1) * Density
  IN  [Returned(d, from, stop, to) EXCEPT !.largestBlock = IF @ < n THEN n ELSE @]

-----------------------------------------------------------------------------
Data(s) == tree.data[s]

Chunks == {list[k] : k \in DOMAIN list}

Position(s) == CHOOSE k \in DOMAIN list : list[k] = s

Mapped ==
  {Data(s).mem : s \in Chunks} \cup {permanent[k].mem : k \in DOMAIN permanent}

Init ==
  /\ tree = NewTree(NoData)
  /\ list = << >>
  /\ optimal = NULL
  /\ permanent = << >>
  /\ used = 0
  /\ allocated = 0
  /\ code = [c \in Caller |-> NoBlock]

(***************************************************************************)
(* allocFreeable, looking for vsize bytes from `optimal' on.               *)
(***************************************************************************)
Candidates == IF optimal = NULL THEN {} ELSE Position(optimal) .. Len(list)

Hits(vsize) ==
  {k \in Candidates : ~Skip(Data(list[k]), vsize) /\ Fits(Data(list[k]), Needed(vsize)) # {}}

\* The chunks that were searched in vain remember what they have room for.
Searched(vsize) ==
  LET hits == Hits(vsize)
  IN  {list[k] : k \in {j \in Candidates : /\ ~Skip(Data(list[j]), vsize)
                                           /\ \A h \in hits : j < h}}

Remembered(vsize) ==
  LET searched == Searched(vsize)
      after(s) == IF s \in searched
                  THEN [Data(s) EXCEPT !.largestBlock = MaxCont(Data(s)) * Density]
                  ELSE Data(s)
  IN  [tree EXCEPT !.data = [s \in DOMAIN tree.data |-> after(s)]]

\* `optimal' moves past the chunks that are skipped and not fresh.
NextOptimal(vsize) ==
  IF Candidates = {} THEN NULL
  ELSE list[First({k \in Candidates :
                     \/ k = Len(list)
                     \/ ~Skip(Data(list[k]), vsize)
                     \/ Available(Data(list[k])) >= NewChunkSize})]

Hand(c, addr, vsize, size) ==
  /\ code' = [code EXCEPT ![c] = [addr |-> addr, len |-> size]]
  /\ used' = used + Needed(vsize) * Density

\* generate finds room for its code in a chunk that is there.
AllocInChunk(c, size) ==
  LET vsize == RoundUp(size, Alignment)
  IN  /\ code[c] = NoBlock
      /\ Hits(vsize) # {}
      /\ LET s == list[First(Hits(vsize))]
             i == First(Fits(Data(s), Needed(vsize)))
         IN  /\ tree' = [Remembered(vsize) EXCEPT !.data[s] = Take(@, i, Needed(vsize))]
             /\ Hand(c, Data(s).mem + i * Density, vsize, size)
      /\ optimal' = NextOptimal(vsize)
      /\ UNCHANGED <<list, permanent, allocated>>

\* What the system maps for a new chunk.
ChunkSize(vsize) ==
  RoundUp(IF NewChunkSize < vsize THEN vsize ELSE NewChunkSize, PageSize)

\* generate needs a new chunk, and the system and malloc have the memory.
AllocNewChunk(c, size) ==
  LET vsize == RoundUp(size, Alignment)
      new(mem) == NewData(mem, ChunkSize(vsize))
  IN  /\ code[c] = NoBlock
      /\ Hits(vsize) = {}
      /\ \E s \in Struct \ Chunks, mem \in Base \ Mapped :
           /\ tree' = InsertNode(Fresh(Remembered(vsize), s, Take(new(mem), 0, Needed(vsize))), s)
           /\ list' = Append(list, s)
           /\ optimal' = IF list = << >> THEN s ELSE NextOptimal(vsize)
           /\ allocated' = allocated + new(mem).size
           /\ Hand(c, mem, vsize, size)
      /\ UNCHANGED permanent

\* generate needs a new chunk and cannot have one: ERROR_NO_VIRTUAL_MEMORY.
AllocFails(c, size) ==
  LET vsize == RoundUp(size, Alignment)
  IN  /\ code[c] = NoBlock
      /\ Hits(vsize) = {}
      /\ tree' = Remembered(vsize)
      /\ optimal' = NextOptimal(vsize)
      /\ UNCHANGED <<list, permanent, used, allocated, code>>

(***************************************************************************)
(* free, and shrink at the end of generate.  Both go from the address to   *)
(* the chunk by the tree, and from there to the bits.                      *)
(***************************************************************************)
\* When the chunk was full, `optimal' goes back to it if it is further on.
BackTo(s) ==
  IF Data(s).used = Data(s).size /\ Position(s) < Position(optimal) THEN s ELSE optimal

\* A mutated removal that leaves `optimal' where it is.
UnlinkOnly(q, opt) ==
  LET k == Position(q)
  IN  /\ list' = SubSeq(list, 1, k - 1) \o SubSeq(list, k + 1, Len(list))
      /\ optimal' = opt

\* removeNode takes the dropped struct q off the list.
Unlink(q, opt) ==
  LET k == Position(q)
      rest == SubSeq(list, 1, k - 1) \o SubSeq(list, k + 1, Len(list))
  IN  /\ list' = rest
      /\ optimal' = CASE opt # q -> opt
                      [] opt = q /\ k > 1 -> list[k - 1]
                      [] opt = q /\ k = 1 -> IF rest = << >> THEN NULL ELSE rest[1]

FreeBlock(c) ==
  /\ code[c] # NoBlock
  /\ code' = [code EXCEPT ![c] = NoBlock]
  /\ UNCHANGED permanent
  /\ LET s == FindPtr(tree, code[c].addr)
         d == Data(s)
         from == BitPos(d, code[c].addr)
         to == LastOf(d, from)
         left == GiveBack(d, from, from, to)
     IN  /\ used' = used - (to - from + 1) * Density
         /\ IF left.used > 0
            THEN /\ tree' = [tree EXCEPT !.data[s] = left]
                 /\ optimal' = BackTo(s)
                 /\ UNCHANGED <<list, allocated>>
            ELSE LET r == RemoveNode([tree EXCEPT !.data[s] = left], s)
                 IN  /\ tree' = Fresh(r.tree, r.dropped, NoData)
                     /\ allocated' = allocated - d.size
                     /\ Unlink(r.dropped, BackTo(s))

\* A mutated shrink that keeps one block too many.
KeptOneMore(length) == length \div Density + 1

\* usedBlocks: how many blocks shrink leaves the caller.
Kept(length) == (length + Density - 1) \div Density

\* The code turned out `length' bytes long: the blocks after it are given back.
Relocate(c, length) ==
  /\ code[c] # NoBlock
  /\ length \in 1 .. code[c].len - 1
  /\ code' = [code EXCEPT ![c].len = length]
  /\ LET s == FindPtr(tree, code[c].addr)
         d == Data(s)
         from == BitPos(d, code[c].addr)
         to == LastOf(d, from)
         kept == from + Kept(length)        \* the first block that is not needed
     IN  IF to < kept THEN UNCHANGED <<tree, used>>
         ELSE /\ tree' = [tree EXCEPT !.data[s] = GiveBack(d, kept, kept - 1, to)]
              /\ used' = used - (to - kept + 1) * Density
  /\ UNCHANGED <<list, optimal, permanent, allocated>>

(***************************************************************************)
(* allocPermanent: from the newest permanent chunk with room, or from a    *)
(* new one; such memory is never given back.                               *)
(***************************************************************************)
HasRoom(node, size) == RoundUp(size, Alignment) <= Available(node)

AllocPermanent(size, mem) ==
  LET aligned == RoundUp(size, Alignment)
      room == {k \in DOMAIN permanent : HasRoom(permanent[k], size)}
      new == [mem |-> mem, used |-> aligned,
              size |-> RoundUp(IF size > PermanentChunk THEN size ELSE PermanentChunk, PageSize)]
  IN  /\ IF room # {}
         THEN permanent' = [permanent EXCEPT ![First(room)].used = @ + aligned]
         ELSE mem \notin Mapped /\ permanent' = <<new>> \o permanent
      /\ used' = used + aligned
      /\ UNCHANGED <<tree, list, optimal, allocated, code>>

\* freeAll unmaps every chunk, whoever still holds a block of it.
FreeAll ==
  /\ tree' = NewTree(NoData)
  /\ list' = << >>
  /\ optimal' = NULL
  /\ used' = 0
  /\ allocated' = 0
  /\ code' = [c \in Caller |-> NoBlock]
  /\ UNCHANGED permanent

Next ==
  \/ \E c \in Caller, size \in CodeSizes :
       \/ AllocInChunk(c, size)
       \/ AllocNewChunk(c, size)
       \/ AllocFails(c, size)
       \/ \E length \in CodeSizes : Relocate(c, length)
  \/ \E c \in Caller : FreeBlock(c)
  \/ \E size \in PermanentSizes, mem \in Base : AllocPermanent(size, mem)
  \/ FreeAll

Spec == Init /\ [][Next]_vars

-----------------------------------------------------------------------------
Holders == {c \in Caller : code[c] # NoBlock}

\* What the bit arrays say of the block at an address.
Extent(addr) ==
  LET s == FindPtr(tree, addr)
      from == BitPos(Data(s), addr)
  IN  [addr |-> addr, len |-> (LastOf(Data(s), from) - from + 1) * Density]

\* The block of each caller: as many blocks as its code needs.
Blocks ==
  [c \in Caller |-> IF code[c] = NoBlock THEN NoBlock
                    ELSE [addr |-> code[c].addr, len |-> Needed(code[c].len) * Density]]

\* The chunks by address, without the cache of their longest free run.
ChunksByAddress ==
  [m \in {Data(s).mem : s \in Chunks} |->
     LET s == CHOOSE x \in Chunks : Data(x).mem = m
     IN  [Data(s) EXCEPT !.largestBlock = Data(s).size]]

Abstract == INSTANCE ChunkAllocator
              WITH block <- Blocks, chunk <- ChunksByAddress,
                   MostBlocks <- Largest({ChunkSize(RoundUp(size, Alignment)) : size \in CodeSizes})
                                   \div Density

UsedBits(s) == {i \in 0 .. Data(s).blocks - 1 : BitAt(Data(s).baUsed, i)}

\* Every allocation, shrink and free, in any order and by any threads, is one
\* of an allocator that keeps the callers' blocks apart and cuts them from
\* chunks which it finds by address and unmaps when they are not used.
Implements == Abstract!KSpec

\* The code of a caller lies in mapped memory, and from its address free and
\* shrink find its chunk by the tree and exactly its blocks by the bits.
HeldIsMapped ==
  \A c \in Holders :
    LET s == FindPtr(tree, code[c].addr)
    IN  /\ s \in Chunks
        /\ Extent(code[c].addr) = Blocks[c]
        /\ code[c].addr + code[c].len <= Data(s).mem + Data(s).size

\* No memory leaks: a used block belongs to a caller, and the counters that
\* alloc trusts for skipping a chunk and free for unmapping it agree with the
\* bits.  A permanent chunk, which has only the counter, never hands out more
\* than it has, also for a size above the chunk size that is not aligned.
NoLeak ==
  /\ \A k \in DOMAIN permanent : permanent[k].used <= permanent[k].size
  /\ allocated = MapThenSumSet(LAMBDA s : Data(s).size, Chunks)
  /\ \A s \in Chunks :
       /\ Data(s).used = Cardinality(UsedBits(s)) * Density
       /\ Data(s).used > 0
       /\ \A i \in UsedBits(s) : \E c \in Holders :
            LET b == Extent(code[c].addr)
            IN  Data(s).mem + i * Density \in b.addr .. b.addr + b.len - 1

\* The list, the tree and `optimal' speak of the same chunks, also after free
\* has moved a chunk's data into another struct.
ListMatchesTree ==
  /\ InTree(tree) = Chunks
  /\ \A k, j \in DOMAIN list : k # j => list[k] # list[j]
  /\ RedBlack(tree)
  /\ IF list = << >> THEN optimal = NULL ELSE optimal \in Chunks
=============================================================================
