------------------------------- MODULE Chunk -------------------------------
(***************************************************************************)
(* One chunk of the memory manager of AsmJit (MemoryManager.cpp): a        *)
(* MemNode's blocks, and the two bit arrays that say which of them are     *)
(* used and which continue in the next one.  A word of an array is the set *)
(* of its bits that are 1.                                                 *)
(***************************************************************************)
EXTENDS Integers, FiniteSets

CONSTANTS
  Base,            \* the addresses at which the system may map memory
  Density,         \* 64: bytes per block
  BitsPerEntity    \* 64: bits in a word of the bit arrays

ASSUME ChunkAssumption ==
  /\ Base \subseteq Nat
  /\ {Density, BitsPerEntity} \subseteq Nat \ {0}

Words(blocks) == 0 .. ((blocks + BitsPerEntity - 1) \div BitsPerEntity) - 1

NoBits(blocks) == [w \in Words(blocks) |-> {}]

BitAt(buf, i) == (i % BitsPerEntity) \in buf[i \div BitsPerEntity]

\* A mutated _SetBits that forgets the rest in the last word.
SetBitsNoRest(buf, index, len) ==
  LET i == index \div BitsPerEntity
      j == index % BitsPerEntity
      c == IF BitsPerEntity - j > len THEN len ELSE BitsPerEntity - j
      full == (len - c) \div BitsPerEntity
  IN  IF len = 0 THEN buf
      ELSE [w \in DOMAIN buf |->
              CASE w = i            -> buf[w] \cup (j .. j + c - 1)
                [] w > i /\ w <= i + full  -> 0 .. BitsPerEntity - 1
                [] OTHER            -> buf[w]]

\* _SetBits: the first word from bit j on, full words, the rest of the last one.
SetBits(buf, index, len) ==
  LET i == index \div BitsPerEntity
      j == index % BitsPerEntity
      c == IF BitsPerEntity - j > len THEN len ELSE BitsPerEntity - j
      full == (len - c) \div BitsPerEntity
      rest == (len - c) % BitsPerEntity
  IN  IF len = 0 THEN buf
      ELSE [w \in DOMAIN buf |->
              CASE w = i            -> buf[w] \cup (j .. j + c - 1)
                [] w > i /\ w <= i + full  -> 0 .. BitsPerEntity - 1
                [] w = i + full + 1 -> buf[w] \cup (0 .. rest - 1)
                [] OTHER            -> buf[w]]

\* The loops of free and shrink clear bit after bit and store word after word.
ClearRange(buf, from, to) ==
  [w \in DOMAIN buf |-> {j \in buf[w] : w * BitsPerEntity + j \notin from .. to}]

-----------------------------------------------------------------------------
\* createNode: vsize bytes that the system mapped at mem.
NewData(mem, vsize) ==
  LET blocks == vsize \div Density
  IN  [mem |-> mem, size |-> vsize, blocks |-> blocks, used |-> 0,
       largestBlock |-> vsize, baUsed |-> NoBits(blocks), baCont |-> NoBits(blocks)]

AllFree(d, from, to) == \A k \in from .. to : ~BitAt(d.baUsed, k)

\* Where `need' free blocks begin.
Fits(d, need) == {i \in 0 .. d.blocks - need : AllFree(d, i, i + need - 1)}

\* The end of allocFreeable: `need' blocks from block i on are handed out.
Taken(d, i, need) ==
  [d EXCEPT !.baUsed = SetBits(@, i, need),
            !.baCont = SetBits(@, i, need - 1),
            !.used = @ + need * Density]

BitPos(d, addr) == (addr - d.mem) \div Density

\* The block that starts at bit `from' goes on while the continue bit is set.
LastOf(d, from) ==
  CHOOSE e \in from .. d.blocks - 1 :
    ~BitAt(d.baCont, e) /\ \A k \in from .. e - 1 : BitAt(d.baCont, k)

\* Mutated statistics that count one block.
ReturnedOne(d, from, stop, to) ==
  [d EXCEPT !.baUsed = ClearRange(@, from, to),
            !.baCont = ClearRange(@, stop, to),
            !.used = @ - Density]

\* free and shrink: the blocks `from' to `to' are free, and the block that they
\* belonged to goes no further than `stop'.
Returned(d, from, stop, to) ==
  [d EXCEPT !.baUsed = ClearRange(@, from, to),
            !.baCont = ClearRange(@, stop, to),
            !.used = @ - (to - from + 1) * Density]
=============================================================================
