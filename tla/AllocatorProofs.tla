-------------------------- MODULE AllocatorProofs --------------------------
(***************************************************************************)
(* For every set of callers, every size and every width of the bit arrays: *)
(* an allocator that steps as Allocator says never lets two callers share  *)
(* memory, and one that steps as ChunkAllocator says is such an allocator, *)
(* leaks nothing and finds every block by its bits.  MemoryManager's run   *)
(* shows that the manager of AsmJit is one (Implements).                   *)
(***************************************************************************)
EXTENDS ChunkAllocator, FiniteSetTheorems, TLAPS

AInv == AllocatorTypeOK /\ Disjoint

\* A block is not the mark of a caller that has none.
LEMMA BlocksAreRecords ==
  ASSUME NEW b \in Block
  PROVE  /\ b # NoBlock
         /\ b.addr \in Nat /\ b.len \in Nat \ {0}
  BY DEF Block, NoBlock

\* At first nobody has a block.
LEMMA InitInv == AInit => AInv
  BY DEF AInit, AInv, AllocatorTypeOK, Disjoint

\* An allocation keeps the blocks apart because it looks at all of them.
LEMMA AllocateInv ==
  ASSUME AInv, NEW c \in Caller, Allocate(c)
  PROVE  AInv'
<1>1. AllocatorTypeOK'
  BY DEF AInv, AllocatorTypeOK, Allocate, Moves
<1>2. Disjoint'
  <2> SUFFICES ASSUME NEW x \in Caller, NEW y \in Caller, x # y,
                      block'[x] # NoBlock, block'[y] # NoBlock
               PROVE  Apart(block'[x], block'[y])
    BY DEF Disjoint, Apart
  <2>1. \A d \in Caller : d # c => block'[d] = block[d]
    BY DEF AInv, AllocatorTypeOK, Allocate, Moves
  <2>2. CASE x = c
    BY <2>1, <2>2 DEF Allocate, Free
  <2>3. CASE y = c
    BY <2>1, <2>3 DEF Allocate, Free, Apart
  <2>4. CASE x # c /\ y # c
    BY <2>1, <2>4 DEF AInv, Disjoint
  <2> QED BY <2>2, <2>3, <2>4
<1> QED BY <1>1, <1>2 DEF AInv

\* A block that has become shorter lies within the one that was apart.
LEMMA ShrinkInv ==
  ASSUME AInv, NEW c \in Caller, Shrink(c)
  PROVE  AInv'
<1>1. AllocatorTypeOK'
  BY DEF AInv, AllocatorTypeOK, Shrink, Moves
<1>2. Disjoint'
  <2> SUFFICES ASSUME NEW x \in Caller, NEW y \in Caller, x # y,
                      block'[x] # NoBlock, block'[y] # NoBlock
               PROVE  Apart(block'[x], block'[y])
    BY DEF Disjoint, Apart
  <2>1. \A d \in Caller : d # c => block'[d] = block[d]
    BY DEF AInv, AllocatorTypeOK, Shrink, Moves
  <2>2. block[x] \in Block /\ block[y] \in Block
    BY <2>1 DEF AInv, AllocatorTypeOK, Shrink
  <2>3. Apart(block[x], block[y])
    BY <2>2, BlocksAreRecords DEF AInv, Disjoint
  <2>4. block'[c].addr = block[c].addr /\ block'[c].len <= block[c].len /\ block'[c] \in Block
    BY DEF Shrink, Moves
  <2>5. CASE x = c
    BY <2>1, <2>2, <2>3, <2>4, <2>5, BlocksAreRecords DEF Apart
  <2>6. CASE y = c
    BY <2>1, <2>2, <2>3, <2>4, <2>6, BlocksAreRecords DEF Apart
  <2>7. CASE x # c /\ y # c
    BY <2>1, <2>3, <2>7
  <2> QED BY <2>5, <2>6, <2>7
<1> QED BY <1>1, <1>2 DEF AInv

\* Fewer blocks are still apart.
LEMMA ReleaseInv ==
  ASSUME AInv, NEW c \in Caller, Release(c)
  PROVE  AInv'
  BY DEF AInv, AllocatorTypeOK, Disjoint, Release, Apart

\* No blocks are apart.
LEMMA ReleaseAllInv ==
  ASSUME AInv, ReleaseAll
  PROVE  AInv'
  BY DEF AInv, AllocatorTypeOK, Disjoint, ReleaseAll, Apart

\* Every step of Allocator keeps the blocks apart.
LEMMA StepInv == AInv /\ [ANext]_block => AInv'
<1> SUFFICES ASSUME AInv, [ANext]_block PROVE AInv'
  OBVIOUS
<1>1. ASSUME NEW c \in Caller, Allocate(c) PROVE AInv'
  BY <1>1, AllocateInv
<1>2. ASSUME NEW c \in Caller, Shrink(c) PROVE AInv'
  BY <1>2, ShrinkInv
<1>3. ASSUME NEW c \in Caller, Release(c) PROVE AInv'
  BY <1>3, ReleaseInv
<1>4. CASE ReleaseAll
  BY <1>4, ReleaseAllInv
<1>5. CASE UNCHANGED block
  BY <1>5 DEF AInv, AllocatorTypeOK, Disjoint, Apart
<1> QED BY <1>1, <1>2, <1>3, <1>4, <1>5 DEF ANext

\* No two callers ever share a byte of executable memory.
THEOREM CallersApart == ASpec => []Disjoint
<1>1. AInv => Disjoint
  BY DEF AInv
<1> QED BY InitInv, StepInv, <1>1, PTL DEF ASpec

-----------------------------------------------------------------------------
(***************************************************************************)
(* What _SetBits and the loops of free and shrink do to a bit array: the   *)
(* arithmetic of blocks and bits first.                                    *)
(***************************************************************************)

\* The bit arrays of a chunk of b blocks.
Bits(b) == [Words(b) -> SUBSET (0 .. BitsPerEntity - 1)]

\* The sizes of a block and of a word are positive.
LEMMA Widths == Density \in Nat \ {0} /\ BitsPerEntity \in Nat \ {0} /\ Base \subseteq Nat
  BY ChunkAssumption

\* What \div and % are.
LEMMA Divide ==
  ASSUME NEW x \in Nat, NEW k \in Nat \ {0}
  PROVE  /\ x \div k \in Nat /\ x % k \in 0 .. k - 1
         /\ x = (x \div k) * k + (x % k)
  OBVIOUS

\* Products grow with their factors.
LEMMA Monotone ==
  ASSUME NEW x \in Nat, NEW y \in Nat, NEW k \in Nat, x <= y
  PROVE  x * k \in Nat /\ y * k \in Nat /\ x * k <= y * k
<1>1. PICK d \in Nat : y = x + d
  <2>1. y - x \in Nat /\ y = x + (y - x)
    OBVIOUS
  <2> QED
    BY <2>1
<1>2. x * k \in Nat /\ d * k \in Nat /\ (x + d) * k = x * k + d * k
  OBVIOUS
<1> QED
  BY <1>1, <1>2

\* A block ends where the next one starts, or before it.
LEMMA Before ==
  ASSUME NEW x \in Nat, NEW y \in Nat, NEW k \in Nat, x < y
  PROVE  x * k + k <= y * k
<1>1. (x + 1) * k <= y * k
  BY Monotone, x + 1 <= y, x + 1 \in Nat
<1>2. (x + 1) * k = x * k + k
  OBVIOUS
<1> QED
  BY <1>1, <1>2

\* A number is determined by its quotient and its remainder.
LEMMA Quotient ==
  ASSUME NEW q \in Nat, NEW k \in Nat \ {0}, NEW r \in 0 .. k - 1
  PROVE  (q * k + r) \div k = q /\ (q * k + r) % k = r
<1> DEFINE x == q * k + r
           p == x \div k
           s == x % k
<1>1. x \in Nat /\ q * k \in Nat
  OBVIOUS
<1>2. p \in Nat /\ s \in 0 .. k - 1 /\ x = p * k + s
  BY <1>1, Divide
<1> HIDE DEF p, s
<1>3. p * k \in Nat
  BY <1>2
<1>4. ~(p < q)
  <2>1. p < q => p * k + k <= q * k
    BY <1>2, Before
  <2> QED
    BY <1>1, <1>2, <1>3, <2>1
<1>5. ~(q < p)
  <2>1. q < p => q * k + k <= p * k
    BY <1>2, Before
  <2> QED
    BY <1>1, <1>2, <1>3, <2>1
<1>6. p = q
  BY <1>2, <1>4, <1>5
<1>7. s = r
  BY <1>1, <1>2, <1>6
<1> QED
  BY <1>6, <1>7 DEF p, s

-----------------------------------------------------------------------------
\* Block i's bit is bit i % BitsPerEntity of word i \div BitsPerEntity.
LEMMA BitOfBlock ==
  ASSUME NEW b \in Nat \ {0}, NEW i \in 0 .. b - 1
  PROVE  /\ i \div BitsPerEntity \in Words(b)
         /\ i % BitsPerEntity \in 0 .. BitsPerEntity - 1
         /\ i = (i \div BitsPerEntity) * BitsPerEntity + (i % BitsPerEntity)
<1> DEFINE B == BitsPerEntity
           q == i \div B
           n == (b + B - 1) \div B
           r == (b + B - 1) % B
<1>1. B \in Nat \ {0}
  BY Widths
<1>2. q \in Nat /\ i % B \in 0 .. B - 1 /\ i = q * B + (i % B)
  BY <1>1, Divide
<1>3. n \in Nat /\ r \in 0 .. B - 1 /\ b + B - 1 = n * B + r
  <2>1. b + B - 1 \in Nat
    BY <1>1
  <2> QED
    BY <1>1, <2>1, Divide
<1> HIDE DEF q, n, r
<1>4. q < n
  <2>1. n <= q => n * B <= q * B
    BY <1>1, <1>2, <1>3, Monotone
  <2>2. n * B \in Nat /\ q * B \in Nat
    BY <1>1, <1>2, <1>3
  <2>3. n * B > i
    BY <1>1, <1>3, <2>2
  <2>4. q * B <= i
    BY <1>1, <1>2, <2>2
  <2> QED
    BY <1>2, <1>3, <2>1, <2>2, <2>3, <2>4
<1>5. q \in 0 .. n - 1
  BY <1>2, <1>3, <1>4
<1> QED
  BY <1>2, <1>5 DEF q, n, Words

\* What the loops of free and shrink leave of a bit array.
LEMMA ClearRangeClears ==
  ASSUME NEW b \in Nat \ {0}, NEW buf \in Bits(b), NEW from, NEW to
  PROVE  /\ ClearRange(buf, from, to) \in Bits(b)
         /\ \A i \in 0 .. b - 1 :
              BitAt(ClearRange(buf, from, to), i) <=> BitAt(buf, i) /\ i \notin from .. to
<1>1. DOMAIN buf = Words(b)
  BY DEF Bits
<1>2. ClearRange(buf, from, to) \in Bits(b)
  BY <1>1 DEF ClearRange, Bits
<1>3. ASSUME NEW i \in 0 .. b - 1
      PROVE  BitAt(ClearRange(buf, from, to), i) <=> BitAt(buf, i) /\ i \notin from .. to
  <2> DEFINE w == i \div BitsPerEntity
             j == i % BitsPerEntity
  <2>1. w \in Words(b) /\ i = w * BitsPerEntity + j
    BY BitOfBlock
  <2>2. BitAt(buf, i) <=> j \in buf[w]
    BY DEF BitAt
  <2>3. BitAt(ClearRange(buf, from, to), i) <=> j \in ClearRange(buf, from, to)[w]
    BY DEF BitAt
  <2> HIDE DEF w, j
  <2>4. ClearRange(buf, from, to)[w]
          = {k \in buf[w] : w * BitsPerEntity + k \notin from .. to}
    BY <1>1, <2>1 DEF ClearRange
  <2> QED
    BY <2>1, <2>2, <2>3, <2>4
<1> QED
  BY <1>2, <1>3

\* _SetBits sets the bits it is asked to and no other, wherever they begin in
\* a word and in whichever word they end.
LEMMA SetBitsSets ==
  ASSUME NEW b \in Nat \ {0}, NEW buf \in Bits(b), NEW index \in Nat, NEW len \in Nat
  PROVE  /\ SetBits(buf, index, len) \in Bits(b)
         /\ \A i \in 0 .. b - 1 :
              BitAt(SetBits(buf, index, len), i)
                <=> BitAt(buf, i) \/ i \in index .. index + len - 1
<1> DEFINE B == BitsPerEntity
           v == index \div B
           j == index % B
           c == IF B - j > len THEN len ELSE B - j
           full == (len - c) \div B
           rest == (len - c) % B
           new == SetBits(buf, index, len)
<1>1. B \in Nat \ {0} /\ DOMAIN buf = Words(b) /\ \A w \in Words(b) : buf[w] \subseteq 0 .. B - 1
  BY Widths DEF Bits
<1>2. v \in Nat /\ j \in 0 .. B - 1 /\ index = v * B + j
  BY <1>1, Divide
<1> HIDE DEF v, j
<1>3. c \in 0 .. len /\ c <= B - j /\ c \in Nat
  BY <1>1, <1>2
<1>4. c = B - j \/ (c = len /\ len < B - j)
  BY <1>1, <1>2
<1> HIDE DEF c
<1>5. full \in Nat /\ rest \in 0 .. B - 1 /\ len - c = full * B + rest
  <2>1. len - c \in Nat
    BY <1>3
  <2> QED
    BY <1>1, <2>1, Divide
<1>6. len < B - j => full = 0 /\ rest = 0
  <2> SUFFICES ASSUME len < B - j PROVE full = 0 /\ rest = 0
    OBVIOUS
  <2>1. len - c = 0 * B + 0 /\ 0 \in 0 .. B - 1 /\ 0 \in Nat
    BY <1>1, <1>3, <1>4, <1>2
  <2> QED
    BY <1>1, <2>1, Quotient
<1>7. CASE len = 0
  BY <1>1, <1>7 DEF SetBits
<1>8. CASE len # 0
  <2> DEFINE After(w) ==
               CASE w = v -> buf[w] \cup (j .. j + c - 1)
                 [] w > v /\ w <= v + full -> 0 .. B - 1
                 [] w = v + full + 1 -> buf[w] \cup (0 .. rest - 1)
                 [] OTHER -> buf[w]
  <2>1. new = [w \in Words(b) |-> After(w)]
    BY <1>1, <1>8 DEF SetBits, v, j, c, full, rest
  <2> HIDE DEF full, rest, new
  <2>2. Words(b) \subseteq Int
    BY DEF Words
  <2>3. ASSUME NEW w \in Words(b) PROVE After(w) \subseteq 0 .. B - 1
    <3>1. w \in Int /\ buf[w] \subseteq 0 .. B - 1
      BY <1>1, <2>2
    <3>2. j .. j + c - 1 \subseteq 0 .. B - 1 /\ 0 .. rest - 1 \subseteq 0 .. B - 1
      BY <1>1, <1>2, <1>3, <1>5
    <3> QED
      BY <3>1, <3>2
  <2>4. new \in Bits(b)
    BY <2>1, <2>3 DEF Bits
  <2>5. ASSUME NEW i \in 0 .. b - 1
        PROVE  BitAt(new, i) <=> BitAt(buf, i) \/ i \in index .. index + len - 1
    <3> DEFINE w == i \div B
               k == i % B
    <3>1. w \in Words(b) /\ k \in 0 .. B - 1 /\ i = w * B + k /\ w \in Nat
      <4>1. w \in Words(b) /\ k \in 0 .. B - 1 /\ i = w * B + k
        BY BitOfBlock
      <4>2. i \in Nat /\ B \in Nat \ {0}
        BY <1>1
      <4>3. w \in Nat
        BY <4>2, Divide
      <4> QED
        BY <4>1, <4>3
    <3>2. (BitAt(buf, i) <=> k \in buf[w]) /\ (BitAt(new, i) <=> k \in new[w])
      BY DEF BitAt
    <3> HIDE DEF w, k
    <3>3. new[w] = After(w)
      BY <2>1, <3>1
    <3> DEFINE last == index + len
    <3>4. i \in index .. index + len - 1 <=> index <= i /\ i < last
      OBVIOUS
    <3>5. /\ v * B \in Nat /\ w * B \in Nat /\ full * B \in Nat
          /\ (v + full) * B = v * B + full * B /\ last \in Nat
      BY <1>1, <1>2, <1>5, <3>1
    <3> HIDE DEF last
    <3>6. CASE w = v
      <4>1. index <= i <=> j <= k
        BY <1>1, <1>2, <3>1, <3>5, <3>6
      <4>2. new[w] = buf[w] \cup (j .. j + c - 1)
        <5>1. ~(w > v) /\ w # v + full + 1
          BY <1>2, <1>5, <3>1, <3>6
        <5> QED
          BY <3>3, <3>6, <5>1
      <4>3. i < last <=> k < j + c
        <5>1. CASE c = B - j
          <6>1. last = v * B + B + full * B + rest
            BY <1>1, <1>2, <1>3, <1>5, <3>5, <5>1 DEF last
          <6>2. i < v * B + B
            BY <1>1, <3>1, <3>5, <3>6
          <6> QED
            BY <1>1, <1>2, <1>5, <3>1, <3>5, <5>1, <6>1, <6>2
        <5>2. CASE c = len
          <6>1. last = v * B + j + c
            BY <1>1, <1>2, <3>5, <5>2 DEF last
          <6> QED
            BY <1>1, <1>2, <1>3, <3>1, <3>5, <3>6, <6>1
        <5> QED
          BY <1>4, <5>1, <5>2
      <4>4. k \in new[w] <=> k \in buf[w] \/ (j <= k /\ k < j + c)
        BY <1>2, <1>3, <3>1, <4>2
      <4> QED
        BY <3>2, <3>4, <4>1, <4>3, <4>4
    <3>7. CASE w < v
      <4>1. new[w] = buf[w]
        BY <3>3, <1>2, <1>5, <3>1, <3>7
      <4>2. w * B + B <= v * B
        BY <1>1, <1>2, <3>1, <3>7, Before
      <4>3. i < index
        BY <1>1, <1>2, <3>1, <3>5, <4>2
      <4> QED
        BY <1>2, <3>1, <3>2, <3>4, <4>1, <4>3
    <3>8. CASE w > v
      <4>1. v * B + B <= w * B
        BY <1>1, <1>2, <3>1, <3>8, Before
      <4>2. index <= i
        BY <1>1, <1>2, <3>1, <3>5, <4>1
      <4>3. CASE len < B - j
        <5>1. full = 0 /\ rest = 0 /\ last = v * B + j + len
          BY <1>1, <1>2, <1>6, <3>5, <4>3 DEF last
        <5>2. ~(i < last)
          BY <1>1, <1>2, <3>1, <3>5, <4>1, <4>3, <5>1
        <5>3. k \in new[w] <=> k \in buf[w]
          BY <3>3, <1>2, <3>1, <3>8, <5>1
        <5> QED
          BY <3>2, <3>4, <5>2, <5>3
      <4>4. CASE c = B - j
        <5>1. last = v * B + B + full * B + rest
          BY <1>1, <1>2, <1>3, <1>5, <3>5, <4>4 DEF last
        <5>2. CASE w <= v + full
          <6>1. w * B <= (v + full) * B
            BY <1>1, <1>2, <1>5, <3>1, <5>2, Monotone
          <6>2. i < last
            BY <1>1, <1>5, <3>1, <3>5, <5>1, <6>1
          <6>3. k \in new[w]
            BY <3>3, <1>2, <1>5, <3>1, <3>8, <5>2
          <6> QED
            BY <3>2, <3>4, <4>2, <6>2, <6>3
        <5>3. CASE w = v + full + 1
          <6>1. w * B = (v + full) * B + B
            BY <1>1, <1>2, <1>5, <3>1, <5>3
          <6>2. i < last <=> k < rest
            BY <1>1, <1>5, <3>1, <3>5, <5>1, <6>1
          <6>3. new[w] = buf[w] \cup (0 .. rest - 1)
            BY <3>3, <1>2, <1>5, <3>1, <3>8, <5>3
          <6> QED
            BY <1>5, <3>1, <3>2, <3>4, <4>2, <6>2, <6>3
        <5>4. CASE w > v + full + 1
          <6>1. (v + full + 1) * B + B <= w * B
            BY <1>1, <1>2, <1>5, <3>1, <5>4, Before
          <6>2. (v + full + 1) * B = (v + full) * B + B
            BY <1>1, <1>2, <1>5
          <6>3. ~(i < last)
            BY <1>1, <1>5, <3>1, <3>5, <5>1, <6>1, <6>2
          <6>4. new[w] = buf[w]
            BY <3>3, <1>2, <1>5, <3>1, <3>8, <5>4
          <6> QED
            BY <3>2, <3>4, <6>3, <6>4
        <5> QED
          BY <1>2, <1>5, <3>1, <5>2, <5>3, <5>4
      <4> QED
        BY <1>4, <4>3, <4>4
    <3> QED
      BY <1>2, <3>1, <3>6, <3>7, <3>8
  <2> QED
    BY <2>4, <2>5 DEF new
<1> QED
  BY <1>7, <1>8

-----------------------------------------------------------------------------
(***************************************************************************)
(* The bits of one chunk say that it is cut into spans: what alloc, free   *)
(* and shrink do to the cut.                                               *)
(***************************************************************************)

\* A chunk as createNode makes it and alloc, shrink and free leave it.
IsChunk(d) ==
  /\ d.blocks \in Nat \ {0} /\ d.size = d.blocks * Density
  /\ d \in [mem : Nat, size : Nat, blocks : Nat, used : Nat, largestBlock : Nat,
            baUsed : Bits(d.blocks), baCont : Bits(d.blocks)]

Span == [first : Nat, last : Nat]

\* The bits of d say that it is cut into the spans S, and so does its counter.
Cut(d, S) ==
  /\ IsChunk(d)
  /\ \A s \in S : s \in Span /\ s.first <= s.last /\ s.last < d.blocks
  /\ \A s, t \in S : s = t \/ s.last < t.first \/ t.last < s.first
  /\ \A i \in 0 .. d.blocks - 1 :
       /\ BitAt(d.baUsed, i) <=> \E s \in S : i \in s.first .. s.last
       /\ BitAt(d.baCont, i) <=> \E s \in S : i \in s.first .. s.last - 1
  /\ d.used = Cardinality(UsedBits(d)) * Density

\* Counting a set to which an interval is added or from which one is taken.
LEMMA Counted ==
  ASSUME NEW U, IsFiniteSet(U), NEW a \in Nat, NEW z \in Nat, a <= z
  PROVE  /\ Cardinality(U) \in Nat
         /\ U \cap (a .. z) = {} => Cardinality(U \cup (a .. z)) = Cardinality(U) + (z - a + 1)
         /\ a .. z \subseteq U => Cardinality(U \ (a .. z)) = Cardinality(U) - (z - a + 1)
<1>1. IsFiniteSet(a .. z) /\ Cardinality(a .. z) = z - a + 1
  <2>1. a \in Int /\ z \in Int /\ ~(a > z)
    OBVIOUS
  <2> QED
    BY <2>1, FS_Interval
<1>2. Cardinality(U) \in Nat
  BY FS_CardinalityType
<1>3. ASSUME U \cap (a .. z) = {}
      PROVE  Cardinality(U \cup (a .. z)) = Cardinality(U) + (z - a + 1)
  <2>1. Cardinality(U \cup (a .. z))
          = Cardinality(U) + Cardinality(a .. z) - Cardinality(U \cap (a .. z))
    BY <1>1, FS_Union
  <2>2. Cardinality(U \cap (a .. z)) = 0
    BY <1>3, FS_EmptySet
  <2> QED
    BY <1>1, <1>2, <2>1, <2>2
<1>4. ASSUME a .. z \subseteq U
      PROVE  Cardinality(U \ (a .. z)) = Cardinality(U) - (z - a + 1)
  <2>1. Cardinality(U \ (a .. z)) = Cardinality(U) - Cardinality(U \cap (a .. z))
    BY FS_Difference
  <2>2. U \cap (a .. z) = a .. z
    BY <1>4
  <2> QED
    BY <1>1, <2>1, <2>2
<1> QED
  BY <1>2, <1>3, <1>4

\* The used bits of a chunk can be counted.
LEMMA UsedBitsFinite ==
  ASSUME NEW d, IsChunk(d)
  PROVE  /\ IsFiniteSet(UsedBits(d)) /\ Cardinality(UsedBits(d)) \in Nat
         /\ UsedBits(d) \subseteq Nat
<1>1. d.blocks \in Nat /\ 0 \in Int /\ d.blocks - 1 \in Int
  BY DEF IsChunk
<1>2. IsFiniteSet(0 .. d.blocks - 1)
  BY <1>1, FS_Interval
<1>3. UsedBits(d) \in SUBSET (0 .. d.blocks - 1)
  BY DEF UsedBits
<1>4. IsFiniteSet(UsedBits(d))
  BY <1>2, <1>3, FS_Subset
<1> QED
  BY <1>1, <1>3, <1>4, FS_CardinalityType

\* A fresh chunk is not cut.
LEMMA NewDataCut ==
  ASSUME NEW m \in Nat, NEW b \in Nat \ {0}
  PROVE  LET d == NewData(m, b * Density)
         IN  /\ Cut(d, {}) /\ d.mem = m /\ d.blocks = b
             /\ \A n \in 1 .. b : 0 \in Fits(d, n)
<1> DEFINE d == NewData(m, b * Density)
<1>1. (b * Density) \div Density = b /\ b * Density \in Nat
  <2>1. Density \in Nat \ {0}
    BY Widths
  <2>2. 0 \in 0 .. Density - 1 /\ b * Density \in Nat /\ b * Density + 0 = b * Density /\ b \in Nat
    BY <2>1
  <2>3. (b * Density + 0) \div Density = b
    BY <2>1, <2>2, Quotient
  <2> QED
    BY <2>2, <2>3
<1>2. d = [mem |-> m, size |-> b * Density, blocks |-> b, used |-> 0,
           largestBlock |-> b * Density, baUsed |-> NoBits(b), baCont |-> NoBits(b)]
  BY <1>1 DEF NewData
<1>3. NoBits(b) \in Bits(b)
  BY DEF NoBits, Bits
<1>4. ASSUME NEW i \in 0 .. b - 1 PROVE ~BitAt(NoBits(b), i)
  <2>1. i \div BitsPerEntity \in Words(b)
    BY BitOfBlock
  <2> QED
    BY <2>1 DEF NoBits, BitAt
<1> HIDE DEF d
<1>5. /\ d.mem = m /\ d.size = b * Density /\ d.blocks = b /\ d.used = 0
      /\ d.baUsed = NoBits(b) /\ d.baCont = NoBits(b)
  BY <1>2
<1>6. IsChunk(d)
  <2>1. d \in [mem : Nat, size : Nat, blocks : Nat, used : Nat, largestBlock : Nat,
               baUsed : Bits(b), baCont : Bits(b)]
    BY <1>1, <1>2, <1>3
  <2> QED
    BY <1>5, <2>1 DEF IsChunk
<1>7. UsedBits(d) = {}
  BY <1>4, <1>5 DEF UsedBits
<1>8. d.used = Cardinality(UsedBits(d)) * Density
  BY <1>5, <1>7, FS_EmptySet, Widths
<1>9. Cut(d, {})
  BY <1>4, <1>5, <1>6, <1>8 DEF Cut
<1>10. ASSUME NEW n \in 1 .. b PROVE 0 \in Fits(d, n)
  BY <1>4, <1>5 DEF Fits, AllFree
<1> QED
  BY <1>5, <1>9, <1>10 DEF d

\* Handing out blocks that are free adds a span, and leaves the others as
\* they were.
LEMMA TakenCut ==
  ASSUME NEW d, NEW S, Cut(d, S), NEW n \in 1 .. d.blocks, NEW i \in Fits(d, n)
  PROVE  LET e == Taken(d, i, n)
             new == [first |-> i, last |-> i + n - 1]
         IN  /\ Cut(e, S \cup {new}) /\ new \in Span /\ i + n <= d.blocks
             /\ e.mem = d.mem /\ e.size = d.size /\ e.blocks = d.blocks
             /\ \A s \in S : s.last < i \/ i + n - 1 < s.first
<1> DEFINE b == d.blocks
           e == Taken(d, i, n)
           new == [first |-> i, last |-> i + n - 1]
           T == S \cup {new}
<1>1. /\ b \in Nat \ {0} /\ d.size = b * Density /\ d.baUsed \in Bits(b) /\ d.baCont \in Bits(b)
      /\ d \in [mem : Nat, size : Nat, blocks : Nat, used : Nat, largestBlock : Nat,
                baUsed : Bits(b), baCont : Bits(b)]
  BY DEF Cut, IsChunk
<1>2. i \in Nat /\ n \in Nat \ {0} /\ i + n <= b /\ AllFree(d, i, i + n - 1)
  BY <1>1 DEF Fits
<1>3. \A k \in i .. i + n - 1 : ~BitAt(d.baUsed, k) /\ k \in 0 .. b - 1
  BY <1>1, <1>2 DEF AllFree
<1>4. ASSUME NEW s \in S
      PROVE  /\ s \in Span /\ s.first <= s.last /\ s.last < b
             /\ s.first \in Nat /\ s.last \in Nat
             /\ s.last < i \/ i + n - 1 < s.first
  <2>1. s \in Span /\ s.first <= s.last /\ s.last < b /\ s.first \in Nat /\ s.last \in Nat
    BY DEF Cut, Span
  <2>2. \A k \in s.first .. s.last : BitAt(d.baUsed, k)
    BY <1>1, <2>1 DEF Cut
  <2>3. CASE s.first < i /\ i <= s.last
    BY <1>2, <1>3, <2>1, <2>2, <2>3
  <2>4. CASE i <= s.first /\ s.first <= i + n - 1
    BY <1>2, <1>3, <2>1, <2>2, <2>4
  <2> QED
    BY <1>2, <2>1, <2>3, <2>4
<1>5. /\ SetBits(d.baUsed, i, n) \in Bits(b) /\ SetBits(d.baCont, i, n - 1) \in Bits(b)
      /\ \A k \in 0 .. b - 1 :
           /\ BitAt(SetBits(d.baUsed, i, n), k) <=> BitAt(d.baUsed, k) \/ k \in i .. i + n - 1
           /\ BitAt(SetBits(d.baCont, i, n - 1), k)
                <=> BitAt(d.baCont, k) \/ k \in i .. i + (n - 1) - 1
  <2>1. n - 1 \in Nat
    BY <1>2
  <2> QED
    BY <1>1, <1>2, <2>1, SetBitsSets
<1>6. /\ e.mem = d.mem /\ e.size = d.size /\ e.blocks = b /\ e.largestBlock = d.largestBlock
      /\ e.baUsed = SetBits(d.baUsed, i, n) /\ e.baCont = SetBits(d.baCont, i, n - 1)
      /\ e.used = d.used + n * Density
      /\ e = [mem |-> d.mem, size |-> d.size, blocks |-> b, used |-> d.used + n * Density,
              largestBlock |-> d.largestBlock, baUsed |-> SetBits(d.baUsed, i, n),
              baCont |-> SetBits(d.baCont, i, n - 1)]
  <2>1. e = [d EXCEPT !.baUsed = SetBits(@, i, n), !.baCont = SetBits(@, i, n - 1),
                      !.used = @ + n * Density]
    BY DEF Taken
  <2>2. d = [mem |-> d.mem, size |-> d.size, blocks |-> b, used |-> d.used,
             largestBlock |-> d.largestBlock, baUsed |-> d.baUsed, baCont |-> d.baCont]
    BY <1>1
  <2>3. e = [mem |-> d.mem, size |-> d.size, blocks |-> b, used |-> d.used + n * Density,
             largestBlock |-> d.largestBlock, baUsed |-> SetBits(d.baUsed, i, n),
             baCont |-> SetBits(d.baCont, i, n - 1)]
    BY <2>1, <2>2
  <2> HIDE DEF e
  <2> QED
    BY <2>3
<1> HIDE DEF e
<1>7. IsChunk(e)
  <2>1. d.used + n * Density \in Nat
    BY <1>1, <1>2, Widths
  <2>2. e \in [mem : Nat, size : Nat, blocks : Nat, used : Nat, largestBlock : Nat,
               baUsed : Bits(b), baCont : Bits(b)]
    BY <1>1, <1>5, <1>6, <2>1
  <2> QED
    BY <1>1, <1>6, <2>2 DEF IsChunk
<1>8. new \in Span /\ new.first = i /\ new.last = i + n - 1 /\ new.first <= new.last /\ new.last < b
  BY <1>1, <1>2 DEF Span
<1> HIDE DEF new
<1>9. \A s \in T : s \in Span /\ s.first <= s.last /\ s.last < b
  BY <1>4, <1>8
<1>10. \A s, t \in T : s = t \/ s.last < t.first \/ t.last < s.first
  BY <1>4, <1>8 DEF Cut
<1>11. ASSUME NEW k \in 0 .. b - 1
       PROVE  /\ BitAt(e.baUsed, k) <=> \E s \in T : k \in s.first .. s.last
              /\ BitAt(e.baCont, k) <=> \E s \in T : k \in s.first .. s.last - 1
  <2>1. /\ BitAt(d.baUsed, k) <=> \E s \in S : k \in s.first .. s.last
        /\ BitAt(d.baCont, k) <=> \E s \in S : k \in s.first .. s.last - 1
    BY DEF Cut
  <2>2. i + (n - 1) - 1 = new.last - 1 /\ i + n - 1 = new.last /\ i = new.first
    BY <1>2, <1>8
  <2>3. BitAt(e.baUsed, k) <=> BitAt(d.baUsed, k) \/ k \in new.first .. new.last
    BY <1>5, <1>6, <2>2
  <2>4. BitAt(e.baCont, k) <=> BitAt(d.baCont, k) \/ k \in new.first .. new.last - 1
    BY <1>5, <1>6, <2>2
  <2> QED
    BY <2>1, <2>3, <2>4
<1>12. e.used = Cardinality(UsedBits(e)) * Density
  <2> DEFINE U == UsedBits(d)
             z == i + n - 1
  <2>1. UsedBits(e) = U \cup (i .. z) /\ U \cap (i .. z) = {}
    BY <1>3, <1>5, <1>6 DEF UsedBits
  <2>2. IsFiniteSet(U) /\ Cardinality(U) \in Nat
    BY UsedBitsFinite DEF Cut
  <2>3. i \in Nat /\ z \in Nat /\ i <= z /\ z - i + 1 = n
    BY <1>2
  <2> HIDE DEF U, z
  <2>4. Cardinality(UsedBits(e)) = Cardinality(U) + n
    <3>1. Cardinality(U \cup (i .. z)) = Cardinality(U) + (z - i + 1)
      BY <2>1, <2>2, <2>3, Counted
    <3> QED
      BY <2>1, <2>3, <3>1
  <2>5. d.used = Cardinality(U) * Density
    BY DEF Cut, U
  <2>6. (Cardinality(U) + n) * Density = Cardinality(U) * Density + n * Density
    BY <1>2, <2>2, Widths
  <2> QED
    BY <1>6, <2>4, <2>5, <2>6
<1>13. Cut(e, T)
  BY <1>6, <1>7, <1>9, <1>10, <1>11, <1>12 DEF Cut
<1> QED
  BY <1>2, <1>4, <1>6, <1>8, <1>13 DEF e, new

\* The bits tell where a block ends.
LEMMA LastOfCut ==
  ASSUME NEW d, NEW S, Cut(d, S), NEW s \in S
  PROVE  LastOf(d, s.first) = s.last
<1> DEFINE b == d.blocks
           Ends(e) == ~BitAt(d.baCont, e) /\ \A k \in s.first .. e - 1 : BitAt(d.baCont, k)
<1>1. /\ b \in Nat /\ s.first \in Nat /\ s.last \in Nat /\ s.first <= s.last /\ s.last < b
      /\ \A t \in S : t.first \in Nat /\ t.last \in Nat /\ t.first <= t.last
      /\ \A t \in S : s = t \/ s.last < t.first \/ t.last < s.first
      /\ \A i \in 0 .. b - 1 : BitAt(d.baCont, i) <=> \E t \in S : i \in t.first .. t.last - 1
  BY DEF Cut, IsChunk, Span
<1>2. s.last \in s.first .. b - 1 /\ s.last \in 0 .. b - 1
  BY <1>1
<1>3. ~BitAt(d.baCont, s.last)
  <2> SUFFICES ASSUME NEW t \in S, s.last \in t.first .. t.last - 1 PROVE FALSE
    BY <1>1, <1>2
  <2>1. CASE s = t
    BY <1>1, <2>1
  <2>2. CASE s # t
    BY <1>1, <2>2
  <2> QED
    BY <2>1, <2>2
<1>4. \A k \in s.first .. s.last - 1 : BitAt(d.baCont, k)
  <2> TAKE k \in s.first .. s.last - 1
  <2>1. k \in 0 .. b - 1
    BY <1>1
  <2> QED
    BY <1>1, <2>1
<1>5. Ends(s.last)
  BY <1>3, <1>4
<1>6. ASSUME NEW e \in s.first .. b - 1, Ends(e) PROVE e = s.last
  <2>1. ~(e < s.last)
    <3>1. e < s.last => e \in s.first .. s.last - 1
      BY <1>1
    <3> QED
      BY <1>4, <1>6, <3>1
  <2>2. ~(s.last < e)
    <3>1. s.last < e => s.last \in s.first .. e - 1
      BY <1>1
    <3> QED
      BY <1>3, <1>6, <3>1
  <2> QED
    BY <1>1, <2>1, <2>2
<1>7. LastOf(d, s.first) = CHOOSE e \in s.first .. b - 1 : Ends(e)
  BY DEF LastOf
<1> HIDE DEF Ends
<1> QED
  BY <1>2, <1>5, <1>6, <1>7


\* What both free and shrink do to a chunk: the blocks from `from' to the end of
\* a span are not used any more, and the continue bits from `stop' on are cleared.
LEMMA ReturnedBits ==
  ASSUME NEW d, NEW S, Cut(d, S), NEW s \in S, NEW from \in s.first .. s.last, NEW stop
  PROVE  LET e == Returned(d, from, stop, s.last)
         IN  /\ IsChunk(e) /\ e.mem = d.mem /\ e.size = d.size /\ e.blocks = d.blocks
             /\ e.used = Cardinality(UsedBits(e)) * Density
             /\ \A k \in 0 .. d.blocks - 1 :
                  /\ BitAt(e.baUsed, k) <=> BitAt(d.baUsed, k) /\ k \notin from .. s.last
                  /\ BitAt(e.baCont, k) <=> BitAt(d.baCont, k) /\ k \notin stop .. s.last
<1> DEFINE b == d.blocks
           to == s.last
           e == Returned(d, from, stop, to)
           n == to - from + 1
           U == UsedBits(d)
<1>1. /\ b \in Nat \ {0} /\ d.size = b * Density /\ d.baUsed \in Bits(b) /\ d.baCont \in Bits(b)
      /\ d \in [mem : Nat, size : Nat, blocks : Nat, used : Nat, largestBlock : Nat,
                baUsed : Bits(b), baCont : Bits(b)]
  BY DEF Cut, IsChunk
<1>2. /\ s.first \in Nat /\ to \in Nat /\ s.first <= to /\ to < b
      /\ from \in Nat /\ s.first <= from /\ from <= to
  BY DEF Cut, Span
<1>3. /\ ClearRange(d.baUsed, from, to) \in Bits(b) /\ ClearRange(d.baCont, stop, to) \in Bits(b)
      /\ \A k \in 0 .. b - 1 :
           /\ BitAt(ClearRange(d.baUsed, from, to), k)
                <=> BitAt(d.baUsed, k) /\ k \notin from .. to
           /\ BitAt(ClearRange(d.baCont, stop, to), k)
                <=> BitAt(d.baCont, k) /\ k \notin stop .. to
  BY <1>1, ClearRangeClears
<1>4. e = [mem |-> d.mem, size |-> d.size, blocks |-> b, used |-> d.used - n * Density,
           largestBlock |-> d.largestBlock, baUsed |-> ClearRange(d.baUsed, from, to),
           baCont |-> ClearRange(d.baCont, stop, to)]
  <2>1. e = [d EXCEPT !.baUsed = ClearRange(@, from, to), !.baCont = ClearRange(@, stop, to),
                      !.used = @ - n * Density]
    BY DEF Returned
  <2>2. d = [mem |-> d.mem, size |-> d.size, blocks |-> b, used |-> d.used,
             largestBlock |-> d.largestBlock, baUsed |-> d.baUsed, baCont |-> d.baCont]
    BY <1>1
  <2> HIDE DEF e, to, n
  <2> QED
    BY <2>1, <2>2
<1> HIDE DEF e
<1>5. /\ e.mem = d.mem /\ e.size = d.size /\ e.blocks = b /\ e.used = d.used - n * Density
      /\ e.baUsed = ClearRange(d.baUsed, from, to) /\ e.baCont = ClearRange(d.baCont, stop, to)
  BY <1>4
<1>6. from .. to \subseteq U
  <2> SUFFICES ASSUME NEW k \in from .. to PROVE k \in U
    OBVIOUS
  <2>1. k \in 0 .. b - 1 /\ k \in s.first .. s.last
    BY <1>1, <1>2
  <2> QED
    BY <2>1 DEF Cut, UsedBits
<1>7. UsedBits(e) = U \ (from .. to)
  BY <1>3, <1>5 DEF UsedBits
<1>8. IsFiniteSet(U) /\ Cardinality(U) \in Nat
  BY UsedBitsFinite DEF Cut
<1>9. d.used = Cardinality(U) * Density
  BY DEF Cut
<1>10. IsFiniteSet(UsedBits(e)) /\ Cardinality(UsedBits(e)) \in Nat
  BY <1>7, <1>8, FS_Difference, FS_CardinalityType
<1> HIDE DEF U, to
<1>11. Cardinality(UsedBits(e)) = Cardinality(U) - n /\ n \in Nat
  <2>1. Cardinality(U \ (from .. to)) = Cardinality(U) - (to - from + 1)
    BY <1>2, <1>6, <1>8, Counted
  <2> QED
    BY <1>2, <1>7, <2>1
<1> HIDE DEF n
<1>12. e.used = Cardinality(UsedBits(e)) * Density
  <2>1. (Cardinality(U) - n) * Density = Cardinality(U) * Density - n * Density
    BY <1>8, <1>11, Widths
  <2> QED
    BY <1>5, <1>9, <1>11, <2>1
<1>13. e.used \in Nat
  BY <1>10, <1>12, Widths
<1>14. IsChunk(e)
  <2>1. e \in [mem : Nat, size : Nat, blocks : Nat, used : Nat, largestBlock : Nat,
               baUsed : Bits(b), baCont : Bits(b)]
    BY <1>1, <1>3, <1>4, <1>5, <1>13
  <2> QED
    BY <1>1, <1>5, <2>1 DEF IsChunk
<1> QED
  BY <1>3, <1>5, <1>12, <1>14 DEF e, to

\* free: the span is gone.
LEMMA ReleasedCut ==
  ASSUME NEW d, NEW S, Cut(d, S), NEW s \in S
  PROVE  LET e == Returned(d, s.first, s.first, s.last)
         IN  /\ Cut(e, S \ {s})
             /\ e.mem = d.mem /\ e.size = d.size /\ e.blocks = d.blocks
<1> DEFINE e == Returned(d, s.first, s.first, s.last)
<1>1. /\ s.first \in Nat /\ s.last \in Nat /\ s.first <= s.last
      /\ \A t \in S : t \in Span /\ t.first \in Nat /\ t.last \in Nat
                      /\ t.first <= t.last /\ t.last < d.blocks
      /\ \A t, u \in S : t = u \/ t.last < u.first \/ u.last < t.first
  BY DEF Cut, Span
<1>2. s.first \in s.first .. s.last
  BY <1>1
<1>3. /\ IsChunk(e) /\ e.mem = d.mem /\ e.size = d.size /\ e.blocks = d.blocks
      /\ e.used = Cardinality(UsedBits(e)) * Density
      /\ \A k \in 0 .. d.blocks - 1 :
           /\ BitAt(e.baUsed, k) <=> BitAt(d.baUsed, k) /\ k \notin s.first .. s.last
           /\ BitAt(e.baCont, k) <=> BitAt(d.baCont, k) /\ k \notin s.first .. s.last
  BY <1>2, ReturnedBits
<1> HIDE DEF e
<1>4. ASSUME NEW k \in 0 .. d.blocks - 1
      PROVE  /\ BitAt(e.baUsed, k) <=> \E t \in S \ {s} : k \in t.first .. t.last
             /\ BitAt(e.baCont, k) <=> \E t \in S \ {s} : k \in t.first .. t.last - 1
  <2>1. /\ BitAt(d.baUsed, k) <=> \E t \in S : k \in t.first .. t.last
        /\ BitAt(d.baCont, k) <=> \E t \in S : k \in t.first .. t.last - 1
    BY DEF Cut
  <2>2. \A t \in S \ {s} : k \in t.first .. t.last => k \notin s.first .. s.last
    BY <1>1
  <2>3. \A t \in S : k \in t.first .. t.last - 1 => k \in t.first .. t.last
    BY <1>1
  <2> QED
    BY <1>3, <2>1, <2>2, <2>3
<1>5. Cut(e, S \ {s})
  BY <1>1, <1>3, <1>4 DEF Cut
<1> QED
  BY <1>3, <1>5 DEF e

\* shrink: the span ends in front of the first block that is given back.
LEMMA ShrunkCut ==
  ASSUME NEW d, NEW S, Cut(d, S), NEW s \in S, NEW kept \in s.first + 1 .. s.last
  PROVE  LET e == Returned(d, kept, kept - 1, s.last)
             new == [first |-> s.first, last |-> kept - 1]
         IN  /\ Cut(e, (S \ {s}) \cup {new}) /\ new \in Span
             /\ e.mem = d.mem /\ e.size = d.size /\ e.blocks = d.blocks
<1> DEFINE e == Returned(d, kept, kept - 1, s.last)
           new == [first |-> s.first, last |-> kept - 1]
           T == (S \ {s}) \cup {new}
<1>1. /\ s.first \in Nat /\ s.last \in Nat /\ s.first <= s.last
      /\ \A t \in S : t \in Span /\ t.first \in Nat /\ t.last \in Nat
                      /\ t.first <= t.last /\ t.last < d.blocks
      /\ \A t, u \in S : t = u \/ t.last < u.first \/ u.last < t.first
  BY DEF Cut, Span
<1>2. kept \in s.first .. s.last /\ kept \in Nat /\ s.first < kept /\ kept <= s.last
  BY <1>1
<1>3. /\ IsChunk(e) /\ e.mem = d.mem /\ e.size = d.size /\ e.blocks = d.blocks
      /\ e.used = Cardinality(UsedBits(e)) * Density
      /\ \A k \in 0 .. d.blocks - 1 :
           /\ BitAt(e.baUsed, k) <=> BitAt(d.baUsed, k) /\ k \notin kept .. s.last
           /\ BitAt(e.baCont, k) <=> BitAt(d.baCont, k) /\ k \notin kept - 1 .. s.last
  BY <1>2, ReturnedBits
<1> HIDE DEF e
<1>4. /\ new \in Span /\ new.first = s.first /\ new.last = kept - 1 /\ new.first \in Nat
      /\ new.last \in Nat /\ new.first <= new.last /\ new.last < s.last
  BY <1>1, <1>2 DEF Span
<1> HIDE DEF new
<1>5. \A t \in T : t \in Span /\ t.first <= t.last /\ t.last < d.blocks
  BY <1>1, <1>4, IsChunk(d) DEF Cut, IsChunk
<1>6. \A t \in S \ {s} : t.last < s.first \/ s.last < t.first
  BY <1>1
<1>7. \A t \in S \ {s} : t.last < new.first \/ new.last < t.first
  BY <1>1, <1>4, <1>6
<1>8. \A t, u \in T : t = u \/ t.last < u.first \/ u.last < t.first
  BY <1>1, <1>7
<1>9. ASSUME NEW k \in 0 .. d.blocks - 1
      PROVE  /\ BitAt(e.baUsed, k) <=> \E t \in T : k \in t.first .. t.last
             /\ BitAt(e.baCont, k) <=> \E t \in T : k \in t.first .. t.last - 1
  <2>1. /\ BitAt(d.baUsed, k) <=> \E t \in S : k \in t.first .. t.last
        /\ BitAt(d.baCont, k) <=> \E t \in S : k \in t.first .. t.last - 1
    BY DEF Cut
  <2>2. \A t \in S \ {s} : k \in t.first .. t.last => k \notin s.first .. s.last
    BY <1>1
  <2>3. \A t \in S : k \in t.first .. t.last - 1 => k \in t.first .. t.last
    BY <1>1
  <2>4. k \in new.first .. new.last <=> k \in s.first .. s.last /\ k \notin kept .. s.last
    BY <1>1, <1>2, <1>4
  <2>5. k \in new.first .. new.last - 1
          <=> k \in s.first .. s.last - 1 /\ k \notin kept - 1 .. s.last
    BY <1>1, <1>2, <1>4
  <2>6. kept .. s.last \subseteq s.first .. s.last /\ kept - 1 .. s.last \subseteq s.first .. s.last
    BY <1>1, <1>2
  <2> QED
    BY <1>3, <2>1, <2>2, <2>3, <2>4, <2>5, <2>6
<1>10. Cut(e, T)
  BY <1>3, <1>5, <1>8, <1>9 DEF Cut
<1> QED
  BY <1>3, <1>4, <1>10 DEF e, new

-----------------------------------------------------------------------------
(***************************************************************************)
(* The inductive invariant: in every chunk the bits are cut into exactly   *)
(* the blocks that the callers hold.  If blocks overlapped, free could not *)
(* tell from the bits where one ends; and if the bits did not agree with   *)
(* the blocks, alloc could not tell what is free.                          *)
(***************************************************************************)

\* The stretches of blocks that a chunk has, and the memory of one.
Slots(d) ==
  {s \in [first : 0 .. d.blocks - 1, last : 0 .. d.blocks - 1] : s.first <= s.last}

Held(m, s) == Bytes(m, s.first, s.last - s.first + 1)

\* What the callers hold of the chunk at m.
Spans(f, g, m) == {s \in Slots(g[m]) : \E c \in Caller : f[c] = Held(m, s)}

\* Chunks lie apart from each other.
Geometry(g) ==
  /\ DOMAIN g \subseteq Base
  /\ \A m \in DOMAIN g :
       g[m].mem = m /\ g[m].blocks \in Nat \ {0} /\ g[m].size = g[m].blocks * Density
  /\ \A k, m \in DOMAIN g : k = m \/ k + g[k].size <= m \/ m + g[m].size <= k

\* The bits of the chunks g are exactly the blocks f of the callers, each of
\* which lies within a chunk.
Fitted(f, g) ==
  /\ f \in [Caller -> Block \cup {NoBlock}]
  /\ Geometry(g)
  /\ \A m \in DOMAIN g : Cut(g[m], Spans(f, g, m))
  /\ \A c \in Caller : f[c] # NoBlock =>
       \E m \in DOMAIN g : \E s \in Spans(f, g, m) : f[c] = Held(m, s)
  /\ \A c, d \in Caller : c # d /\ f[c] # NoBlock => f[c] # f[d]

\* No chunk stays mapped that nobody has a block of.
InUse(f, g) == \A m \in DOMAIN g : Spans(f, g, m) # {}

KInv == Fitted(block, chunk) /\ InUse(block, chunk)

\* The fields of a stretch of blocks.
LEMMA SlotFields ==
  ASSUME NEW d, d.blocks \in Nat \ {0}, NEW s \in Slots(d)
  PROVE  /\ s \in [first : Nat, last : Nat] /\ s.first \in Nat /\ s.last \in Nat
         /\ s.first <= s.last /\ s.last < d.blocks /\ s.last - s.first + 1 \in Nat \ {0}
         /\ s = [first |-> s.first, last |-> s.last]
<1>1. s \in [first : 0 .. d.blocks - 1, last : 0 .. d.blocks - 1] /\ s.first <= s.last
  BY DEF Slots
<1>2. s.first \in 0 .. d.blocks - 1 /\ s.last \in 0 .. d.blocks - 1
      /\ s = [first |-> s.first, last |-> s.last]
  BY <1>1
<1> QED
  BY <1>1, <1>2

\* The memory of a stretch of blocks lies in the chunk.
LEMMA HeldWithin ==
  ASSUME NEW g, Geometry(g), NEW m \in DOMAIN g, NEW s \in Slots(g[m])
  PROVE  /\ Held(m, s) \in Block /\ Held(m, s) # NoBlock
         /\ Held(m, s).addr = m + s.first * Density
         /\ Held(m, s).len = (s.last - s.first + 1) * Density
         /\ m \in Nat /\ g[m].size \in Nat
         /\ m <= Held(m, s).addr /\ Held(m, s).addr + Held(m, s).len <= m + g[m].size
<1> DEFINE b == g[m].blocks
           i == s.first
           n == s.last - s.first + 1
<1>1. m \in Nat /\ b \in Nat \ {0} /\ g[m].size = b * Density /\ Density \in Nat \ {0}
  BY Widths DEF Geometry
<1>2. i \in Nat /\ n \in Nat \ {0} /\ i + n <= b
  <2>1. s.first \in Nat /\ s.last \in Nat /\ s.last < b /\ s.last - s.first + 1 \in Nat \ {0}
    BY <1>1, SlotFields
  <2> QED
    BY <1>1, <2>1
<1>3. Held(m, s) = [addr |-> m + i * Density, len |-> n * Density]
  BY DEF Held, Bytes
<1> HIDE DEF b, i, n
<1>4. i * Density \in Nat /\ n * Density \in Nat \ {0} /\ b * Density \in Nat
  BY <1>1, <1>2
<1>5. i * Density + n * Density <= b * Density
  <2>1. (i + n) * Density <= b * Density
    BY <1>1, <1>2, i + n \in Nat, Monotone
  <2>2. (i + n) * Density = i * Density + n * Density
    BY <1>1, <1>2
  <2> QED
    BY <2>1, <2>2
<1>6. Held(m, s).addr = m + i * Density /\ Held(m, s).len = n * Density
  BY <1>3
<1>7. Held(m, s) \in Block /\ Held(m, s) # NoBlock
  BY <1>1, <1>3, <1>4, <1>6 DEF Block, NoBlock
<1> QED
  BY <1>1, <1>4, <1>5, <1>6, <1>7 DEF i, n, b

\* Equal products with one factor have equal other factors.
LEMMA Cancel ==
  ASSUME NEW x \in Nat, NEW y \in Nat, NEW k \in Nat \ {0}, x * k = y * k
  PROVE  x = y
<1>1. x * k \in Nat /\ y * k \in Nat
  OBVIOUS
<1>2. ~(x < y)
  <2>1. x < y => x * k + k <= y * k
    BY Before
  <2> QED
    BY <1>1, <2>1
<1>3. ~(y < x)
  <2>1. y < x => y * k + k <= x * k
    BY Before
  <2> QED
    BY <1>1, <2>1
<1> QED
  BY <1>2, <1>3

\* An address belongs to one chunk.
LEMMA OneChunk ==
  ASSUME NEW g, Geometry(g), NEW k \in DOMAIN g, NEW m \in DOMAIN g, NEW a \in Nat,
         k <= a, a < k + g[k].size, m <= a, a < m + g[m].size
  PROVE  k = m
<1>1. k \in Nat /\ m \in Nat /\ g[k].size \in Nat /\ g[m].size \in Nat
  <2>1. k \in Nat /\ m \in Nat /\ g[k].blocks \in Nat /\ g[m].blocks \in Nat
    BY Widths DEF Geometry
  <2>2. g[k].size = g[k].blocks * Density /\ g[m].size = g[m].blocks * Density
    BY DEF Geometry
  <2> QED
    BY <2>1, <2>2, Widths
<1>2. k = m \/ k + g[k].size <= m \/ m + g[m].size <= k
  BY DEF Geometry
<1> QED
  BY <1>1, <1>2

\* The same memory is the same blocks of the same chunk.
LEMMA HeldOnce ==
  ASSUME NEW g, Geometry(g), NEW k \in DOMAIN g, NEW m \in DOMAIN g,
         NEW s \in Slots(g[k]), NEW t \in Slots(g[m]), Held(k, s) = Held(m, t)
  PROVE  k = m /\ s = t
<1> DEFINE x == Held(k, s)
           y == Held(m, t)
<1>1. /\ x \in Block /\ x.addr = k + s.first * Density
      /\ x.len = (s.last - s.first + 1) * Density /\ k \in Nat /\ g[k].size \in Nat
      /\ k <= x.addr /\ x.addr + x.len <= k + g[k].size
  BY HeldWithin
<1>2. /\ y.addr = m + t.first * Density /\ y.len = (t.last - t.first + 1) * Density
      /\ m <= y.addr /\ y.addr + y.len <= m + g[m].size /\ m \in Nat /\ g[m].size \in Nat
  BY HeldWithin
<1>3. x = y
  OBVIOUS
<1> HIDE DEF x, y
<1>4. x.addr \in Nat /\ x.len \in Nat \ {0}
  BY <1>1 DEF Block
<1>5. k = m
  <2>1. x.addr < k + g[k].size /\ x.addr < m + g[m].size /\ m <= x.addr
    BY <1>1, <1>2, <1>3, <1>4
  <2> QED
    BY <1>1, <1>4, <2>1, OneChunk
<1>6. g[k].blocks \in Nat \ {0} /\ g[m].blocks \in Nat \ {0}
  BY DEF Geometry
<1>7. /\ s.first \in Nat /\ s.last \in Nat /\ s.last - s.first + 1 \in Nat \ {0}
      /\ t.first \in Nat /\ t.last \in Nat /\ t.last - t.first + 1 \in Nat \ {0}
      /\ s = [first |-> s.first, last |-> s.last] /\ t = [first |-> t.first, last |-> t.last]
  BY <1>6, SlotFields
<1>8. s.first = t.first
  <2>1. s.first * Density \in Nat /\ t.first * Density \in Nat
    BY <1>7, Widths
  <2>2. s.first * Density = t.first * Density
    BY <1>1, <1>2, <1>3, <1>5, <2>1
  <2> QED
    BY <1>7, <2>2, Cancel, Widths
<1>9. s.last - s.first + 1 = t.last - t.first + 1
  BY <1>1, <1>2, <1>3, <1>7, Cancel, Widths
<1>10. s.last = t.last
  BY <1>7, <1>8, <1>9
<1> QED
  BY <1>5, <1>7, <1>8, <1>10

\* Blocks of different chunks, and different blocks of one, share no memory.
LEMMA HeldApart ==
  ASSUME NEW g, Geometry(g), NEW k \in DOMAIN g, NEW m \in DOMAIN g,
         NEW s \in Slots(g[k]), NEW t \in Slots(g[m]),
         k # m \/ s.last < t.first \/ t.last < s.first
  PROVE  Apart(Held(k, s), Held(m, t))
<1> DEFINE x == Held(k, s)
           y == Held(m, t)
<1>1. /\ x \in Block /\ x.addr = k + s.first * Density
      /\ x.len = (s.last - s.first + 1) * Density /\ k \in Nat /\ g[k].size \in Nat
      /\ k <= x.addr /\ x.addr + x.len <= k + g[k].size
  BY HeldWithin
<1>2. /\ y \in Block /\ y.addr = m + t.first * Density /\ y.len = (t.last - t.first + 1) * Density
      /\ m <= y.addr /\ y.addr + y.len <= m + g[m].size /\ m \in Nat /\ g[m].size \in Nat
  BY HeldWithin
<1> HIDE DEF x, y
<1>3. x.addr \in Nat /\ x.len \in Nat /\ y.addr \in Nat /\ y.len \in Nat
  BY <1>1, <1>2 DEF Block
<1>4. g[k].blocks \in Nat \ {0} /\ g[m].blocks \in Nat \ {0}
  BY DEF Geometry
<1>5. /\ s.first \in Nat /\ s.last \in Nat /\ s.last - s.first + 1 \in Nat
      /\ t.first \in Nat /\ t.last \in Nat /\ t.last - t.first + 1 \in Nat
  BY <1>4, SlotFields
<1>6. ASSUME NEW i \in Nat, NEW n \in Nat, NEW j \in Nat, i + n <= j
      PROVE  i * Density + n * Density <= j * Density
            /\ i * Density \in Nat /\ n * Density \in Nat /\ j * Density \in Nat
  <2>1. (i + n) * Density <= j * Density /\ i + n \in Nat
    BY <1>6, Monotone, Widths
  <2>2. (i + n) * Density = i * Density + n * Density /\ i * Density \in Nat
        /\ n * Density \in Nat /\ j * Density \in Nat
    BY Widths
  <2> QED
    BY <2>1, <2>2
<1>7. CASE k # m
  <2>1. k + g[k].size <= m \/ m + g[m].size <= k
    BY <1>7 DEF Geometry
  <2>2. x.addr + x.len <= y.addr \/ y.addr + y.len <= x.addr
    BY <1>1, <1>2, <1>3, <2>1
  <2> QED
    BY <2>2 DEF Apart, x, y
<1>8. CASE k = m /\ s.last < t.first
  <2> DEFINE n == s.last - s.first + 1
  <2>1. s.first + n <= t.first /\ n \in Nat /\ x.len = n * Density
    BY <1>1, <1>5, <1>8
  <2> HIDE DEF n
  <2>2. s.first * Density + x.len <= t.first * Density /\ s.first * Density \in Nat
        /\ t.first * Density \in Nat
    BY <1>5, <1>6, <2>1
  <2>3. x.addr + x.len <= y.addr
    BY <1>1, <1>2, <1>3, <1>8, <2>2
  <2> QED
    BY <2>3 DEF Apart, x, y
<1>9. CASE k = m /\ t.last < s.first
  <2> DEFINE n == t.last - t.first + 1
  <2>1. t.first + n <= s.first /\ n \in Nat /\ y.len = n * Density
    BY <1>2, <1>5, <1>9
  <2> HIDE DEF n
  <2>2. t.first * Density + y.len <= s.first * Density /\ t.first * Density \in Nat
        /\ s.first * Density \in Nat
    BY <1>5, <1>6, <2>1
  <2>3. y.addr + y.len <= x.addr
    BY <1>1, <1>2, <1>3, <1>9, <2>2
  <2> QED
    BY <2>3 DEF Apart, x, y
<1> QED
  BY <1>7, <1>8, <1>9

\* What spans and what lies in a chunk.
LEMMA SpanFields ==
  ASSUME NEW f, NEW g, Fitted(f, g), NEW m \in DOMAIN g, NEW s \in Spans(f, g, m)
  PROVE  /\ s \in Slots(g[m]) /\ (\E c \in Caller : f[c] = Held(m, s))
         /\ s \in Span /\ s.first \in Nat /\ s.last \in Nat /\ s.first <= s.last
         /\ s.last < g[m].blocks /\ g[m].blocks \in Nat \ {0} /\ g[m].mem = m
         /\ Geometry(g) /\ Cut(g[m], Spans(f, g, m))
<1>1. s \in Slots(g[m]) /\ (\E c \in Caller : f[c] = Held(m, s))
  BY DEF Spans
<1>2. g[m].blocks \in Nat \ {0} /\ g[m].mem = m /\ Geometry(g) /\ Cut(g[m], Spans(f, g, m))
  BY DEF Fitted, Geometry
<1> QED
  BY <1>1, <1>2, SlotFields DEF Span

\* A stretch of blocks within a chunk is one of its slots.
LEMMA SlotOf ==
  ASSUME NEW d, d.blocks \in Nat \ {0}, NEW s \in Span, s.first <= s.last, s.last < d.blocks
  PROVE  s \in Slots(d)
<1>1. s.first \in 0 .. d.blocks - 1 /\ s.last \in 0 .. d.blocks - 1
      /\ s = [first |-> s.first, last |-> s.last]
  BY DEF Span
<1>2. s \in [first : 0 .. d.blocks - 1, last : 0 .. d.blocks - 1]
  BY <1>1
<1> QED
  BY <1>2 DEF Slots

\* Chunks whose place does not change stay where they are.
LEMMA GeometryKept ==
  ASSUME NEW g, Geometry(g), NEW h, DOMAIN h = DOMAIN g,
         \A m \in DOMAIN g : h[m].mem = g[m].mem /\ h[m].size = g[m].size
                             /\ h[m].blocks = g[m].blocks
  PROVE  Geometry(h) /\ \A m \in DOMAIN g : Slots(h[m]) = Slots(g[m])
  BY DEF Geometry, Slots

\* What the operations make of the blocks f and of the chunks g: c has the block
\* x; n blocks from i on are used, a chunk of b blocks is mapped at m, the span s
\* is free, the chunk at m is unmapped; and the blocks from `kept' on are free.
GivenBlock(f, c, x) == [f EXCEPT ![c] = x]

UsedSpan(g, m, i, n) == [g EXCEPT ![m] = Taken(@, i, n)]

WithChunk(g, m, b) ==
  [k \in DOMAIN g \cup {m} |-> IF k = m THEN NewData(m, b * Density) ELSE g[k]]

FreeSpan(g, m, s) == [g EXCEPT ![m] = Returned(@, s.first, s.first, s.last)]

WithoutChunk(g, m) == [k \in DOMAIN g \ {m} |-> g[k]]

ShorterBlock(f, c, s, kept) == [f EXCEPT ![c].len = (kept - s.first) * Density]

ShorterSpan(g, m, s, kept) == [g EXCEPT ![m] = Returned(@, kept, kept - 1, s.last)]

\* A block that a caller gets is cut from a chunk with room for it.
LEMMA AllocateFits ==
  ASSUME NEW f, NEW g, Fitted(f, g), NEW c \in Caller, f[c] = NoBlock,
         NEW m \in DOMAIN g, NEW n \in 1 .. g[m].blocks, NEW i \in Fits(g[m], n)
  PROVE  LET x == Bytes(m, i, n)
             fa == GivenBlock(f, c, x)
             ga == UsedSpan(g, m, i, n)
         IN  /\ Fitted(fa, ga)
             /\ InUse(f, WithoutChunk(g, m)) => InUse(fa, ga)
             /\ x \in Block
             /\ \A d \in Caller : f[d] # NoBlock => Apart(x, f[d])
<1> DEFINE x == Bytes(m, i, n)
           fa == GivenBlock(f, c, x)
           e == Taken(g[m], i, n)
           ga == UsedSpan(g, m, i, n)
           new == [first |-> i, last |-> i + n - 1]
           S(k) == Spans(f, g, k)
           SA(k) == Spans(fa, ga, k)
<1>1. /\ f \in [Caller -> Block \cup {NoBlock}] /\ Geometry(g) /\ Cut(g[m], S(m))
      /\ g[m].blocks \in Nat \ {0}
  BY DEF Fitted, Geometry
<1>2. /\ Cut(e, S(m) \cup {new}) /\ new \in Span /\ i + n <= g[m].blocks
      /\ e.mem = g[m].mem /\ e.size = g[m].size /\ e.blocks = g[m].blocks
      /\ \A s \in S(m) : s.last < i \/ i + n - 1 < s.first
  BY <1>1, TakenCut
<1>3. i \in Nat /\ n \in Nat \ {0}
  BY <1>1 DEF Fits
<1>4. new.first = i /\ new.last = i + n - 1 /\ new \in Slots(g[m])
  <2>1. new.first = i /\ new.last = i + n - 1
    OBVIOUS
  <2>2. new.first <= new.last /\ new.last < g[m].blocks
    BY <1>1, <1>2, <1>3, <2>1
  <2> HIDE DEF new
  <2> QED
    BY <1>1, <1>2, <2>1, <2>2, SlotOf
<1>5. x = Held(m, new)
  <2>1. new.last - new.first + 1 = n
    BY <1>3, <1>4
  <2> QED
    BY <1>4, <2>1 DEF Held
<1> HIDE DEF x, new
<1>6. /\ DOMAIN ga = DOMAIN g /\ ga[m] = e
      /\ \A k \in DOMAIN g : k # m => ga[k] = g[k]
  BY DEF UsedSpan
<1> HIDE DEF e
<1>7. /\ fa[c] = x /\ \A d \in Caller : d # c => fa[d] = f[d]
      /\ x \in Block => fa \in [Caller -> Block \cup {NoBlock}]
  BY <1>1 DEF GivenBlock
<1> HIDE DEF fa, ga
<1>8. Geometry(ga) /\ \A k \in DOMAIN g : Slots(ga[k]) = Slots(g[k])
  <2>1. \A k \in DOMAIN g : ga[k].mem = g[k].mem /\ ga[k].size = g[k].size
                            /\ ga[k].blocks = g[k].blocks
    BY <1>2, <1>6
  <2> QED
    BY <1>1, <1>6, <2>1, GeometryKept
<1>9. x \in Block /\ x # NoBlock
  BY <1>1, <1>4, <1>5, HeldWithin
<1>10. ASSUME NEW k \in DOMAIN g
       PROVE  SA(k) = IF k = m THEN S(m) \cup {new} ELSE S(k)
  <2>1. ASSUME NEW s \in Slots(g[k])
        PROVE  s \in SA(k) <=> s \in S(k) \/ (k = m /\ s = new)
    <3>1. Held(k, s) # NoBlock
      BY <1>1, HeldWithin
    <3>2. s \in SA(k) <=> \E d \in Caller : fa[d] = Held(k, s)
      BY <1>8 DEF Spans
    <3>3. s \in S(k) <=> \E d \in Caller : f[d] = Held(k, s)
      BY DEF Spans
    <3>4. x = Held(k, s) <=> k = m /\ s = new
      BY <1>1, <1>4, <1>5, HeldOnce
    <3> QED
      BY <1>7, <3>1, <3>2, <3>3, <3>4
  <2>2. SA(k) \subseteq Slots(g[k]) /\ S(k) \subseteq Slots(g[k])
    BY <1>8 DEF Spans
  <2> HIDE DEF S, SA
  <2> QED
    BY <1>4, <2>1, <2>2
<1>11. \A k \in DOMAIN ga : Cut(ga[k], SA(k))
  <2> TAKE k \in DOMAIN ga
  <2>1. CASE k = m
    BY <1>2, <1>6, <1>10, <2>1
  <2>2. CASE k # m
    <3>1. Cut(g[k], S(k))
      BY <1>6 DEF Fitted
    <3> QED
      BY <1>6, <1>10, <2>2, <3>1
  <2> QED
    BY <2>1, <2>2
<1>12. ASSUME NEW d \in Caller, d # c, f[d] # NoBlock
       PROVE  \E k \in DOMAIN g : \E s \in S(k) : f[d] = Held(k, s) /\ s \in Slots(g[k])
                                                  /\ Apart(x, f[d]) /\ x # f[d]
  <2>1. PICK k \in DOMAIN g : \E s \in S(k) : f[d] = Held(k, s)
    BY <1>12 DEF Fitted
  <2>2. PICK s \in S(k) : f[d] = Held(k, s)
    BY <2>1
  <2>3. s \in Slots(g[k])
    BY DEF Spans
  <2>4. k # m \/ s.last < new.first \/ new.last < s.first
    BY <1>2, <1>4
  <2>5. Apart(x, f[d])
    BY <1>1, <1>4, <1>5, <2>2, <2>3, <2>4, HeldApart
  <2>6. x # f[d]
    <3>1. Held(m, new) = Held(k, s) => m = k /\ new = s
      BY <1>1, <1>4, <2>3, HeldOnce
    <3>2. ~(s = new /\ k = m)
      <4> SUFFICES ASSUME s = new, k = m PROVE FALSE
        OBVIOUS
      <4>1. new.last < new.first \/ new.last < new.first
        BY <2>4
      <4> QED
        BY <1>3, <1>4, <4>1
    <3> QED
      BY <1>5, <2>2, <3>1, <3>2
  <2> QED
    BY <2>2, <2>3, <2>5, <2>6
<1>13. ASSUME NEW d \in Caller, fa[d] # NoBlock
       PROVE  \E k \in DOMAIN ga : \E s \in SA(k) : fa[d] = Held(k, s)
  <2>1. CASE d = c
    <3>1. new \in SA(m) /\ m \in DOMAIN ga
      BY <1>6, <1>10
    <3> QED
      BY <1>5, <1>7, <2>1, <3>1
  <2>2. CASE d # c
    <3>1. PICK k \in DOMAIN g : \E s \in S(k) : f[d] = Held(k, s)
      BY <1>7, <1>12, <1>13, <2>2
    <3>2. S(k) \subseteq SA(k)
      BY <1>10
    <3> QED
      BY <1>6, <1>7, <2>2, <3>1, <3>2
  <2> QED
    BY <2>1, <2>2
<1>14. ASSUME NEW a \in Caller, NEW d \in Caller, a # d, fa[a] # NoBlock
       PROVE  fa[a] # fa[d]
  <2>1. CASE a = c
    BY <1>7, <1>9, <1>12, <1>14, <2>1
  <2>2. CASE d = c
    BY <1>7, <1>9, <1>12, <1>14, <2>2
  <2>3. CASE a # c /\ d # c
    BY <1>7, <1>14, <2>3 DEF Fitted
  <2> QED
    BY <2>1, <2>2, <2>3
<1>15. fa \in [Caller -> Block \cup {NoBlock}]
  BY <1>7, <1>9
<1>16. Fitted(fa, ga)
  BY <1>8, <1>11, <1>13, <1>14, <1>15 DEF Fitted
<1>17. ASSUME InUse(f, WithoutChunk(g, m)) PROVE InUse(fa, ga)
  <2> SUFFICES ASSUME NEW k \in DOMAIN g PROVE SA(k) # {}
    BY <1>6 DEF InUse
  <2>1. CASE k = m
    BY <1>10, <2>1
  <2>2. CASE k # m
    <3>1. Spans(f, WithoutChunk(g, m), k) = S(k)
      BY <2>2 DEF Spans, WithoutChunk
    <3>2. S(k) # {}
      BY <1>17, <2>2, <3>1 DEF InUse, WithoutChunk
    <3> QED
      BY <1>10, <2>2, <3>2
  <2> QED
    BY <2>1, <2>2
<1>18. \A d \in Caller : f[d] # NoBlock => Apart(x, f[d])
  BY <1>12
<1> QED
  BY <1>9, <1>16, <1>17, <1>18 DEF x, e, fa, ga

\* A chunk that the system maps apart from the others fits.
LEMMA MapFits ==
  ASSUME NEW f, NEW g, Fitted(f, g), NEW m \in Base, NEW b \in Nat \ {0},
         \A k \in DOMAIN g : m + b * Density <= g[k].mem \/ g[k].mem + g[k].size <= m
  PROVE  LET ga == WithChunk(g, m, b)
         IN  /\ Fitted(f, ga) /\ m \notin DOMAIN g /\ ga[m].blocks = b
             /\ \A n \in 1 .. b : 0 \in Fits(ga[m], n)
             /\ \A k \in DOMAIN g : Spans(f, ga, k) = Spans(f, g, k)
<1> DEFINE e == NewData(m, b * Density)
           ga == WithChunk(g, m, b)
<1>1. Geometry(g) /\ m \in Nat /\ Density \in Nat \ {0} /\ b * Density \in Nat \ {0}
  <2>1. Density \in Nat \ {0} /\ m \in Nat
    BY Widths
  <2>2. 1 * Density <= b * Density
    BY <2>1, Monotone
  <2> QED
    BY <2>1, <2>2 DEF Fitted
<1>2. /\ Cut(e, {}) /\ e.mem = m /\ e.blocks = b /\ e.size = b * Density
      /\ \A n \in 1 .. b : 0 \in Fits(e, n)
  <2>1. Cut(e, {}) /\ e.mem = m /\ e.blocks = b /\ \A n \in 1 .. b : 0 \in Fits(e, n)
    BY <1>1, NewDataCut
  <2>2. e.size = b * Density
    BY DEF NewData
  <2> QED
    BY <2>1, <2>2
<1>3. ASSUME NEW k \in DOMAIN g
      PROVE  /\ k \in Nat /\ g[k].mem = k /\ g[k].size \in Nat \ {0} /\ g[k].blocks \in Nat \ {0}
             /\ g[k].size = g[k].blocks * Density
             /\ m + b * Density <= k \/ k + g[k].size <= m
  <2>1. k \in Nat /\ g[k].mem = k /\ g[k].blocks \in Nat \ {0} /\ g[k].size = g[k].blocks * Density
    BY <1>1, Widths DEF Geometry
  <2>2. 1 * Density <= g[k].blocks * Density /\ g[k].blocks * Density \in Nat
    BY <1>1, <2>1, Monotone
  <2>3. g[k].size \in Nat \ {0}
    BY <1>1, <2>1, <2>2
  <2> QED
    BY <2>1, <2>3
<1>4. m \notin DOMAIN g
  BY <1>1, <1>3
<1>5. DOMAIN ga = DOMAIN g \cup {m} /\ ga[m] = e /\ \A k \in DOMAIN g : ga[k] = g[k]
  BY <1>4 DEF WithChunk
<1> HIDE DEF e, ga
<1>6. Geometry(ga)
  <2>1. DOMAIN ga \subseteq Base
    BY <1>1, <1>5 DEF Geometry
  <2>2. \A k \in DOMAIN ga : ga[k].mem = k /\ ga[k].blocks \in Nat \ {0}
                             /\ ga[k].size = ga[k].blocks * Density
    BY <1>2, <1>3, <1>5
  <2>3. \A k, j \in DOMAIN ga : k = j \/ k + ga[k].size <= j \/ j + ga[j].size <= k
    <3> TAKE k, j \in DOMAIN ga
    <3>1. CASE k \in DOMAIN g /\ j \in DOMAIN g
      BY <1>1, <1>5, <3>1 DEF Geometry
    <3>2. CASE k = m /\ j \in DOMAIN g
      BY <1>2, <1>3, <1>5, <3>2
    <3>3. CASE k \in DOMAIN g /\ j = m
      BY <1>2, <1>3, <1>5, <3>3
    <3> QED
      BY <1>5, <3>1, <3>2, <3>3
  <2> QED
    BY <2>1, <2>2, <2>3 DEF Geometry
<1>7. \A k \in DOMAIN g : Spans(f, ga, k) = Spans(f, g, k)
  BY <1>5 DEF Spans
<1>8. Spans(f, ga, m) = {}
  <2> SUFFICES ASSUME NEW s \in Slots(ga[m]), NEW c \in Caller, f[c] = Held(m, s) PROVE FALSE
    BY DEF Spans
  <2>1. f[c] # NoBlock
    BY <1>5, <1>6, HeldWithin
  <2>2. PICK k \in DOMAIN g : \E t \in Spans(f, g, k) : f[c] = Held(k, t)
    BY <2>1 DEF Fitted
  <2>3. PICK t \in Spans(f, g, k) : f[c] = Held(k, t)
    BY <2>2
  <2>4. t \in Slots(ga[k]) /\ k \in DOMAIN ga /\ m \in DOMAIN ga
    BY <1>5 DEF Spans
  <2>5. k = m
    BY <1>6, <2>3, <2>4, HeldOnce
  <2> QED
    BY <1>4, <2>5
<1>9. \A k \in DOMAIN ga : Cut(ga[k], Spans(f, ga, k))
  <2> TAKE k \in DOMAIN ga
  <2>1. CASE k = m
    BY <1>2, <1>5, <1>8, <2>1
  <2>2. CASE k \in DOMAIN g
    <3>1. Cut(g[k], Spans(f, g, k))
      BY <2>2 DEF Fitted
    <3> QED
      BY <1>5, <1>7, <2>2, <3>1
  <2> QED
    BY <1>5, <2>1, <2>2
<1>10. ASSUME NEW c \in Caller, f[c] # NoBlock
       PROVE  \E k \in DOMAIN ga : \E s \in Spans(f, ga, k) : f[c] = Held(k, s)
  <2>1. PICK k \in DOMAIN g : \E t \in Spans(f, g, k) : f[c] = Held(k, t)
    BY <1>10 DEF Fitted
  <2> QED
    BY <1>5, <1>7, <2>1
<1>11. Fitted(f, ga)
  BY <1>6, <1>9, <1>10 DEF Fitted
<1> QED
  BY <1>2, <1>4, <1>5, <1>7, <1>11 DEF e, ga

\* From the address of a caller's block, free and shrink find its chunk and,
\* by the bits, exactly its blocks.
LEMMA Located ==
  ASSUME Fitted(block, chunk), NEW c \in Caller, block[c] # NoBlock
  PROVE  \E m \in DOMAIN chunk : \E s \in Spans(block, chunk, m) :
           /\ block[c] = Held(m, s)
           /\ Holding(block[c].addr) = m
           /\ FirstBit(block[c].addr) = s.first
           /\ LastBit(block[c].addr) = s.last
<1> DEFINE a == block[c].addr
<1>1. PICK m \in DOMAIN chunk : \E s \in Spans(block, chunk, m) : block[c] = Held(m, s)
  BY DEF Fitted
<1>2. PICK s \in Spans(block, chunk, m) : block[c] = Held(m, s)
  BY <1>1
<1>3. /\ s \in Slots(chunk[m]) /\ s.first \in Nat /\ s.last \in Nat /\ chunk[m].mem = m
      /\ Geometry(chunk) /\ Cut(chunk[m], Spans(block, chunk, m))
  BY SpanFields
<1>4. /\ Held(m, s) \in Block
      /\ a = m + s.first * Density /\ m \in Nat /\ chunk[m].size \in Nat
      /\ m <= a /\ a + block[c].len <= m + chunk[m].size
  BY <1>2, <1>3, HeldWithin
<1>5. a \in Nat /\ block[c].len \in Nat \ {0}
  BY <1>2, <1>4 DEF Block
<1> HIDE DEF a
<1>6. a \in m .. m + chunk[m].size - 1
  BY <1>4, <1>5
<1>7. \A k \in DOMAIN chunk : a \in k .. k + chunk[k].size - 1 => k = m
  <2> SUFFICES ASSUME NEW k \in DOMAIN chunk, a \in k .. k + chunk[k].size - 1 PROVE k = m
    OBVIOUS
  <2>1. k \in Nat /\ chunk[k].size \in Nat
    <3>1. k \in Nat /\ chunk[k].blocks \in Nat /\ chunk[k].size = chunk[k].blocks * Density
      BY <1>3, Widths DEF Geometry
    <3> QED
      BY <3>1, Widths
  <2>2. k <= a /\ a < k + chunk[k].size /\ a < m + chunk[m].size
    BY <1>4, <1>5, <1>6, <2>1
  <2> QED
    BY <1>3, <1>4, <1>5, <2>2, OneChunk
<1>8. Holding(a) = m
  BY <1>6, <1>7 DEF Holding
<1>9. FirstBit(a) = s.first
  <2>1. s.first * Density \in Nat /\ a - m = s.first * Density + 0 /\ 0 \in 0 .. Density - 1
        /\ Density \in Nat \ {0}
    BY <1>3, <1>4, <1>5, Widths
  <2>2. (s.first * Density + 0) \div Density = s.first
    BY <1>3, <2>1, Quotient
  <2> QED
    BY <1>3, <1>8, <2>1, <2>2 DEF FirstBit, BitPos
<1>10. LastBit(a) = s.last
  BY <1>3, <1>8, <1>9, LastOfCut DEF LastBit
<1> QED
  BY <1>2, <1>8, <1>9, <1>10 DEF a

\* The counter, by which a chunk is unmapped, tells whether it is used.
LEMMA UsedPositive ==
  ASSUME NEW f, NEW g, Fitted(f, g), NEW m \in DOMAIN g
  PROVE  g[m].used > 0 <=> Spans(f, g, m) # {}
<1> DEFINE S == Spans(f, g, m)
           U == UsedBits(g[m])
<1>1. Cut(g[m], S) /\ g[m].blocks \in Nat \ {0} /\ Density \in Nat \ {0}
  BY Widths DEF Fitted, Geometry
<1>2. IsFiniteSet(U) /\ Cardinality(U) \in Nat /\ g[m].used = Cardinality(U) * Density
  BY <1>1, UsedBitsFinite DEF Cut
<1>3. U = {} <=> S = {}
  <2>1. ASSUME NEW s \in S PROVE s.first \in U
    <3>1. s.first \in 0 .. g[m].blocks - 1 /\ s.first \in s.first .. s.last
      BY <1>1, SpanFields
    <3> QED
      BY <1>1, <3>1 DEF Cut, UsedBits
  <2>2. ASSUME S = {} PROVE U = {}
    BY <1>1, <2>2 DEF Cut, UsedBits
  <2> QED
    BY <2>1, <2>2
<1>4. Cardinality(U) = 0 <=> U = {}
  BY <1>2, FS_EmptySet
<1> HIDE DEF U, S
<1>5. Cardinality(U) # 0 => 1 * Density <= Cardinality(U) * Density
  BY <1>1, <1>2, Monotone
<1>6. g[m].used > 0 <=> Cardinality(U) # 0
  BY <1>1, <1>2, <1>5
<1> QED
  BY <1>3, <1>4, <1>6 DEF S

\* A block that is given back takes its span with it.
LEMMA ReleaseFits ==
  ASSUME NEW f, NEW g, Fitted(f, g), NEW c \in Caller,
         NEW m \in DOMAIN g, NEW s \in Spans(f, g, m), f[c] = Held(m, s)
  PROVE  LET fa == GivenBlock(f, c, NoBlock)
             ga == FreeSpan(g, m, s)
         IN  /\ Fitted(fa, ga)
             /\ \A k \in DOMAIN g : k # m => Spans(fa, ga, k) = Spans(f, g, k)
<1> DEFINE fa == GivenBlock(f, c, NoBlock)
           e == Returned(g[m], s.first, s.first, s.last)
           ga == FreeSpan(g, m, s)
           S(k) == Spans(f, g, k)
           SA(k) == Spans(fa, ga, k)
<1>1. /\ f \in [Caller -> Block \cup {NoBlock}] /\ Geometry(g) /\ Cut(g[m], S(m))
      /\ s \in Slots(g[m])
  BY SpanFields DEF Fitted
<1>2. /\ Cut(e, S(m) \ {s})
      /\ e.mem = g[m].mem /\ e.size = g[m].size /\ e.blocks = g[m].blocks
  BY <1>1, ReleasedCut
<1>3. /\ DOMAIN ga = DOMAIN g /\ ga[m] = e
      /\ \A k \in DOMAIN g : k # m => ga[k] = g[k]
  BY DEF FreeSpan
<1>4. fa[c] = NoBlock /\ \A d \in Caller : d # c => fa[d] = f[d]
  BY <1>1 DEF GivenBlock
<1>5. fa \in [Caller -> Block \cup {NoBlock}]
  BY <1>1 DEF GivenBlock
<1> HIDE DEF e, fa, ga
<1>6. Geometry(ga) /\ \A k \in DOMAIN g : Slots(ga[k]) = Slots(g[k])
  <2>1. \A k \in DOMAIN g : ga[k].mem = g[k].mem /\ ga[k].size = g[k].size
                            /\ ga[k].blocks = g[k].blocks
    BY <1>2, <1>3
  <2> QED
    BY <1>1, <1>3, <2>1, GeometryKept
<1>7. ASSUME NEW k \in DOMAIN g
      PROVE  SA(k) = IF k = m THEN S(m) \ {s} ELSE S(k)
  <2>1. ASSUME NEW t \in Slots(g[k])
        PROVE  t \in SA(k) <=> t \in S(k) /\ ~(k = m /\ t = s)
    <3>1. Held(k, t) # NoBlock
      BY <1>1, HeldWithin
    <3>2. t \in SA(k) <=> \E d \in Caller : fa[d] = Held(k, t)
      BY <1>6 DEF Spans
    <3>3. t \in S(k) <=> \E d \in Caller : f[d] = Held(k, t)
      BY DEF Spans
    <3>4. Held(k, t) = Held(m, s) => k = m /\ t = s
      BY <1>1, HeldOnce
    <3>5. \A d \in Caller : d # c => f[d] # f[c]
      BY <3>1, <1>1, HeldWithin DEF Fitted
    <3>6. ASSUME t \in SA(k) PROVE t \in S(k) /\ ~(k = m /\ t = s)
      <4>1. PICK d \in Caller : fa[d] = Held(k, t)
        BY <3>2, <3>6
      <4>2. d # c /\ f[d] = Held(k, t)
        BY <1>4, <3>1, <4>1
      <4> QED
        BY <3>3, <3>5, <4>2
    <3>7. ASSUME t \in S(k), ~(k = m /\ t = s) PROVE t \in SA(k)
      <4>1. PICK d \in Caller : f[d] = Held(k, t)
        BY <3>3, <3>7
      <4>2. d # c
        BY <3>4, <3>7, <4>1
      <4> QED
        BY <1>4, <3>2, <4>1, <4>2
    <3> QED
      BY <3>6, <3>7
  <2>2. SA(k) \subseteq Slots(g[k]) /\ S(k) \subseteq Slots(g[k])
    BY <1>6 DEF Spans
  <2> HIDE DEF S, SA
  <2> QED
    BY <2>1, <2>2
<1>8. \A k \in DOMAIN ga : Cut(ga[k], SA(k))
  <2> TAKE k \in DOMAIN ga
  <2>1. CASE k = m
    BY <1>2, <1>3, <1>7, <2>1
  <2>2. CASE k # m
    <3>1. Cut(g[k], S(k))
      BY <1>3 DEF Fitted
    <3> QED
      BY <1>3, <1>7, <2>2, <3>1
  <2> QED
    BY <2>1, <2>2
<1>9. ASSUME NEW d \in Caller, fa[d] # NoBlock
      PROVE  \E k \in DOMAIN ga : \E t \in SA(k) : fa[d] = Held(k, t)
  <2>1. d # c /\ fa[d] = f[d]
    BY <1>4, <1>9
  <2>2. PICK k \in DOMAIN g : \E t \in S(k) : f[d] = Held(k, t)
    BY <1>9, <2>1 DEF Fitted
  <2>3. PICK t \in S(k) : f[d] = Held(k, t)
    BY <2>2
  <2>4. f[d] # f[c]
    BY <1>9, <2>1 DEF Fitted
  <2>5. t \in SA(k)
    BY <1>7, <2>3, <2>4
  <2> QED
    BY <1>3, <2>1, <2>3, <2>5
<1>10. \A a, d \in Caller : a # d /\ fa[a] # NoBlock => fa[a] # fa[d]
  BY <1>4 DEF Fitted
<1>11. Fitted(fa, ga)
  BY <1>5, <1>6, <1>8, <1>9, <1>10 DEF Fitted
<1> QED
  BY <1>7, <1>11 DEF e, fa, ga

\* The other chunks stay when one is unmapped that nobody has a block of.
LEMMA DropFits ==
  ASSUME NEW f, NEW g, Fitted(f, g), NEW m \in DOMAIN g, Spans(f, g, m) = {}
  PROVE  LET ga == WithoutChunk(g, m)
         IN  /\ Fitted(f, ga)
             /\ \A k \in DOMAIN g \ {m} : Spans(f, ga, k) = Spans(f, g, k)
<1> DEFINE ga == WithoutChunk(g, m)
<1>1. DOMAIN ga = DOMAIN g \ {m} /\ \A k \in DOMAIN ga : ga[k] = g[k]
  BY DEF WithoutChunk
<1> HIDE DEF ga
<1>2. \A k \in DOMAIN ga : Spans(f, ga, k) = Spans(f, g, k)
  BY <1>1 DEF Spans
<1>3. Geometry(ga)
  BY <1>1 DEF Fitted, Geometry
<1>4. \A k \in DOMAIN ga : Cut(ga[k], Spans(f, ga, k))
  BY <1>1, <1>2 DEF Fitted
<1>5. ASSUME NEW c \in Caller, f[c] # NoBlock
      PROVE  \E k \in DOMAIN ga : \E s \in Spans(f, ga, k) : f[c] = Held(k, s)
  <2>1. PICK k \in DOMAIN g : \E s \in Spans(f, g, k) : f[c] = Held(k, s)
    BY <1>5 DEF Fitted
  <2>2. k # m
    BY <2>1
  <2> QED
    BY <1>1, <1>2, <2>1, <2>2
<1>6. Fitted(f, ga)
  BY <1>3, <1>4, <1>5 DEF Fitted
<1> QED
  BY <1>1, <1>2, <1>6 DEF ga

\* A block that becomes shorter keeps the front of its span.
LEMMA ShrinkFits ==
  ASSUME NEW f, NEW g, Fitted(f, g), NEW c \in Caller,
         NEW m \in DOMAIN g, NEW s \in Spans(f, g, m), f[c] = Held(m, s),
         NEW kept \in s.first + 1 .. s.last
  PROVE  LET fa == ShorterBlock(f, c, s, kept)
             ga == ShorterSpan(g, m, s, kept)
         IN  /\ Fitted(fa, ga)
             /\ InUse(f, g) => InUse(fa, ga)
             /\ fa[c] \in Block /\ fa[c].addr = f[c].addr /\ fa[c].len <= f[c].len
<1> DEFINE x == Held(m, [first |-> s.first, last |-> kept - 1])
           new == [first |-> s.first, last |-> kept - 1]
           fa == ShorterBlock(f, c, s, kept)
           e == Returned(g[m], kept, kept - 1, s.last)
           ga == ShorterSpan(g, m, s, kept)
           S(k) == Spans(f, g, k)
           SA(k) == Spans(fa, ga, k)
<1>1. /\ f \in [Caller -> Block \cup {NoBlock}] /\ Geometry(g) /\ Cut(g[m], S(m))
      /\ s \in Slots(g[m]) /\ s.first \in Nat /\ s.last \in Nat /\ s.last < g[m].blocks
      /\ g[m].blocks \in Nat \ {0}
  BY SpanFields DEF Fitted
<1>2. /\ Cut(e, (S(m) \ {s}) \cup {new}) /\ new \in Span
      /\ e.mem = g[m].mem /\ e.size = g[m].size /\ e.blocks = g[m].blocks
  BY <1>1, ShrunkCut
<1>3. new.first = s.first /\ new.last = kept - 1 /\ new.first <= new.last
      /\ new.last < g[m].blocks /\ kept - s.first \in Nat \ {0} /\ new # s
      /\ new.last - new.first + 1 = kept - s.first
      /\ kept - s.first <= s.last - s.first + 1 /\ s.last - s.first + 1 \in Nat
  BY <1>1
<1>4. new \in Slots(g[m])
  BY <1>1, <1>2, <1>3, SlotOf
<1> HIDE DEF new
<1>5. x = Held(m, new)
  BY DEF new
<1>6. /\ x \in Block /\ x # NoBlock /\ x.addr = m + s.first * Density
      /\ x.len = (kept - s.first) * Density
  BY <1>1, <1>3, <1>4, <1>5, HeldWithin
<1>7. /\ f[c] \in Block /\ f[c].addr = m + s.first * Density
      /\ f[c].len = (s.last - s.first + 1) * Density /\ f[c] # NoBlock
  BY <1>1, HeldWithin
<1> HIDE DEF x, e
<1>8. x.len <= f[c].len
  BY <1>3, <1>6, <1>7, Monotone, Widths
<1>9. fa[c] = x /\ (\A d \in Caller : d # c => fa[d] = f[d])
      /\ fa \in [Caller -> Block \cup {NoBlock}]
  <2>1. x = [f[c] EXCEPT !.len = (kept - s.first) * Density]
    BY <1>6, <1>7 DEF Block
  <2>2. fa = [f EXCEPT ![c] = x]
    BY <2>1 DEF ShorterBlock
  <2> HIDE DEF fa
  <2> QED
    BY <1>1, <1>6, <2>2
<1>10. /\ DOMAIN ga = DOMAIN g /\ ga[m] = e
       /\ \A k \in DOMAIN g : k # m => ga[k] = g[k]
  BY DEF e, ShorterSpan
<1> HIDE DEF fa, ga
<1>11. Geometry(ga) /\ \A k \in DOMAIN g : Slots(ga[k]) = Slots(g[k])
  <2>1. \A k \in DOMAIN g : ga[k].mem = g[k].mem /\ ga[k].size = g[k].size
                            /\ ga[k].blocks = g[k].blocks
    BY <1>2, <1>10
  <2>2. Geometry(g) /\ DOMAIN ga = DOMAIN g
    BY <1>1, <1>10
  <2> QED
    BY <2>1, <2>2, GeometryKept
<1>12. ASSUME NEW d \in Caller, d # c, f[d] # NoBlock
       PROVE  f[d] # f[c] /\ f[d] # x
              /\ \E k \in DOMAIN g : \E t \in S(k) : f[d] = Held(k, t) /\ ~(k = m /\ t = s)
  <2>1. f[d] # f[c]
    BY <1>12 DEF Fitted
  <2>2. PICK k \in DOMAIN g : \E t \in S(k) : f[d] = Held(k, t)
    BY <1>12 DEF Fitted
  <2>3. PICK t \in S(k) : f[d] = Held(k, t)
    BY <2>2
  <2>4. ~(k = m /\ t = s)
    BY <2>1, <2>3
  <2>5. t \in Slots(g[k])
    BY DEF Spans
  <2>6. Held(k, t) = Held(m, new) => k = m /\ t = new
    BY <1>1, <1>4, <2>5, HeldOnce
  <2>7. ~(k = m /\ t = new)
    <3> SUFFICES ASSUME k = m, t = new PROVE FALSE
      OBVIOUS
    <3>1. t = s \/ s.last < t.first \/ t.last < s.first
      BY <1>1 DEF Cut
    <3> QED
      BY <1>1, <1>3, <3>1
  <2> QED
    BY <1>5, <2>1, <2>3, <2>4, <2>6, <2>7
<1>13. ASSUME NEW k \in DOMAIN g
       PROVE  SA(k) = IF k = m THEN (S(m) \ {s}) \cup {new} ELSE S(k)
  <2>1. ASSUME NEW t \in Slots(g[k])
        PROVE  t \in SA(k) <=> (t \in S(k) /\ ~(k = m /\ t = s)) \/ (k = m /\ t = new)
    <3>1. Held(k, t) # NoBlock
      BY <1>1, HeldWithin
    <3>2. t \in SA(k) <=> \E d \in Caller : fa[d] = Held(k, t)
      BY <1>11 DEF Spans
    <3>3. t \in S(k) <=> \E d \in Caller : f[d] = Held(k, t)
      BY DEF Spans
    <3>4. Held(k, t) = Held(m, s) => k = m /\ t = s
      BY <1>1, HeldOnce
    <3>5. Held(k, t) = Held(m, new) => k = m /\ t = new
      BY <1>1, <1>4, HeldOnce
    <3>6. ASSUME t \in SA(k) PROVE (t \in S(k) /\ ~(k = m /\ t = s)) \/ (k = m /\ t = new)
      <4>1. PICK d \in Caller : fa[d] = Held(k, t)
        BY <3>2, <3>6
      <4>2. CASE d = c
        BY <1>5, <1>9, <3>5, <4>1, <4>2
      <4>3. CASE d # c
        <5>1. f[d] = Held(k, t) /\ f[d] # f[c]
          BY <1>9, <1>12, <3>1, <4>1, <4>3
        <5> QED
          BY <3>3, <5>1
      <4> QED
        BY <4>2, <4>3
    <3>7. ASSUME t \in S(k), ~(k = m /\ t = s) PROVE t \in SA(k)
      <4>1. PICK d \in Caller : f[d] = Held(k, t)
        BY <3>3, <3>7
      <4>2. d # c
        BY <3>4, <3>7, <4>1
      <4> QED
        BY <1>9, <3>2, <4>1, <4>2
    <3>8. ASSUME k = m, t = new PROVE t \in SA(k)
      BY <1>5, <1>9, <3>2, <3>8
    <3> QED
      BY <3>6, <3>7, <3>8
  <2>2. SA(k) \subseteq Slots(g[k]) /\ S(k) \subseteq Slots(g[k])
    BY <1>11 DEF Spans
  <2> HIDE DEF S, SA
  <2> QED
    BY <1>4, <2>1, <2>2
<1>14. \A k \in DOMAIN ga : Cut(ga[k], SA(k))
  <2> TAKE k \in DOMAIN ga
  <2>1. CASE k = m
    BY <1>2, <1>10, <1>13, <2>1
  <2>2. CASE k # m
    <3>1. Cut(g[k], S(k))
      BY <1>10 DEF Fitted
    <3> QED
      BY <1>10, <1>13, <2>2, <3>1
  <2> QED
    BY <2>1, <2>2
<1>15. ASSUME NEW d \in Caller, fa[d] # NoBlock
       PROVE  \E k \in DOMAIN ga : \E t \in SA(k) : fa[d] = Held(k, t)
  <2>1. CASE d = c
    <3>1. new \in SA(m) /\ m \in DOMAIN ga
      BY <1>10, <1>13
    <3> QED
      BY <1>5, <1>9, <2>1, <3>1
  <2>2. CASE d # c
    <3>1. fa[d] = f[d] /\ f[d] # NoBlock
      BY <1>9, <1>15, <2>2
    <3>2. PICK k \in DOMAIN g : \E t \in S(k) : f[d] = Held(k, t) /\ ~(k = m /\ t = s)
      BY <1>12, <2>2, <3>1
    <3>3. PICK t \in S(k) : f[d] = Held(k, t) /\ ~(k = m /\ t = s)
      BY <3>2
    <3>4. t \in SA(k)
      BY <1>13, <3>3
    <3> QED
      BY <1>10, <3>1, <3>3, <3>4
  <2> QED
    BY <2>1, <2>2
<1>16. ASSUME NEW a \in Caller, NEW d \in Caller, a # d, fa[a] # NoBlock
       PROVE  fa[a] # fa[d]
  <2>1. CASE a = c
    BY <1>6, <1>9, <1>12, <1>16, <2>1
  <2>2. CASE d = c
    BY <1>6, <1>9, <1>12, <1>16, <2>2
  <2>3. CASE a # c /\ d # c
    BY <1>9, <1>16, <2>3 DEF Fitted
  <2> QED
    BY <2>1, <2>2, <2>3
<1>17. Fitted(fa, ga)
  BY <1>9, <1>11, <1>14, <1>15, <1>16 DEF Fitted
<1>18. ASSUME InUse(f, g) PROVE InUse(fa, ga)
  <2> SUFFICES ASSUME NEW k \in DOMAIN g PROVE SA(k) # {}
    BY <1>10 DEF InUse
  <2>1. S(k) # {}
    BY <1>18 DEF InUse
  <2> QED
    BY <1>13, <2>1
<1> QED
  BY <1>6, <1>7, <1>8, <1>9, <1>17, <1>18 DEF fa, ga

-----------------------------------------------------------------------------
(***************************************************************************)
(* The steps of ChunkAllocator.                                            *)
(***************************************************************************)

\* At first there are no chunks.
LEMMA KInitInv == KInit => KInv
<1> SUFFICES ASSUME KInit PROVE KInv
  OBVIOUS
<1>1. block = [c \in Caller |-> NoBlock] /\ DOMAIN chunk = {}
  BY DEF KInit, AInit, NoChunks
<1>2. block \in [Caller -> Block \cup {NoBlock}] /\ \A c \in Caller : block[c] = NoBlock
  BY <1>1
<1> QED
  BY <1>1, <1>2 DEF KInv, Fitted, InUse, Geometry

\* A step that gives c a block of an allocation, in the words of Allocator.
LEMMA Allocates ==
  ASSUME KInv, NEW c \in Caller, block[c] = NoBlock, NEW x \in Block,
         block' = [block EXCEPT ![c] = x],
         \A d \in Caller : block[d] # NoBlock => Apart(x, block[d])
  PROVE  Allocate(c)
<1>1. block'[c] = x
  BY DEF KInv, Fitted
<1> QED
  BY <1>1 DEF Allocate, Moves, Free

\* An allocation from a chunk that is there.
LEMMA KAllocateStep ==
  ASSUME KInv, NEW c \in Caller, KAllocate(c)
  PROVE  KInv' /\ Allocate(c)
<1>1. PICK m \in DOMAIN chunk : \E n \in 1 .. chunk[m].blocks : \E i \in Fits(chunk[m], n) :
         /\ block' = [block EXCEPT ![c] = Bytes(m, i, n)]
         /\ chunk' = [chunk EXCEPT ![m] = Taken(@, i, n)]
  BY DEF KAllocate
<1>2. PICK n \in 1 .. chunk[m].blocks : \E i \in Fits(chunk[m], n) :
         /\ block' = [block EXCEPT ![c] = Bytes(m, i, n)]
         /\ chunk' = [chunk EXCEPT ![m] = Taken(@, i, n)]
  BY <1>1
<1>3. PICK i \in Fits(chunk[m], n) :
         /\ block' = [block EXCEPT ![c] = Bytes(m, i, n)]
         /\ chunk' = [chunk EXCEPT ![m] = Taken(@, i, n)]
  BY <1>2
<1>4. block[c] = NoBlock /\ Fitted(block, chunk)
  BY DEF KAllocate, KInv
<1>5. InUse(block, WithoutChunk(chunk, m))
  BY DEF KInv, InUse, Spans, WithoutChunk
<1>6. /\ block' = GivenBlock(block, c, Bytes(m, i, n))
      /\ chunk' = UsedSpan(chunk, m, i, n)
  BY <1>3 DEF GivenBlock, UsedSpan
<1>7. /\ Fitted(block', chunk') /\ InUse(block', chunk')
      /\ Bytes(m, i, n) \in Block
      /\ \A d \in Caller : block[d] # NoBlock => Apart(Bytes(m, i, n), block[d])
  BY <1>4, <1>5, <1>6, AllocateFits
<1> QED
  BY <1>3, <1>4, <1>7, Allocates DEF KInv

\* An allocation from a new chunk, which lies apart from the others.
LEMMA KMapStep ==
  ASSUME KInv, NEW c \in Caller, KMap(c)
  PROVE  KInv' /\ Allocate(c)
<1>1. PICK m \in Base, b \in 1 .. MostBlocks : \E n \in 1 .. b :
         /\ \A k \in DOMAIN chunk :
              m + b * Density <= chunk[k].mem \/ chunk[k].mem + chunk[k].size <= m
         /\ block' = [block EXCEPT ![c] = Bytes(m, 0, n)]
         /\ chunk' = [k \in DOMAIN chunk \cup {m} |->
                        IF k = m THEN Taken(NewData(m, b * Density), 0, n) ELSE chunk[k]]
  BY DEF KMap
<1>2. PICK n \in 1 .. b :
         /\ \A k \in DOMAIN chunk :
              m + b * Density <= chunk[k].mem \/ chunk[k].mem + chunk[k].size <= m
         /\ block' = [block EXCEPT ![c] = Bytes(m, 0, n)]
         /\ chunk' = [k \in DOMAIN chunk \cup {m} |->
                        IF k = m THEN Taken(NewData(m, b * Density), 0, n) ELSE chunk[k]]
  BY <1>1
<1>3. block[c] = NoBlock /\ Fitted(block, chunk) /\ b \in Nat \ {0}
  BY DEF KMap, KInv
<1> DEFINE g == WithChunk(chunk, m, b)
<1>4. /\ Fitted(block, g) /\ m \notin DOMAIN chunk /\ g[m].blocks = b
      /\ \A j \in 1 .. b : 0 \in Fits(g[m], j)
      /\ \A k \in DOMAIN chunk : Spans(block, g, k) = Spans(block, chunk, k)
  <2>1. \A k \in DOMAIN chunk :
          m + b * Density <= chunk[k].mem \/ chunk[k].mem + chunk[k].size <= m
    BY <1>2
  <2> QED
    BY <1>3, <2>1, MapFits
<1>5. /\ DOMAIN g = DOMAIN chunk \cup {m} /\ g[m] = NewData(m, b * Density)
      /\ chunk' = UsedSpan(g, m, 0, n)
  <2>1. DOMAIN g = DOMAIN chunk \cup {m} /\ g[m] = NewData(m, b * Density)
        /\ \A k \in DOMAIN chunk : k # m => g[k] = chunk[k]
    BY DEF WithChunk
  <2>2. chunk' = [k \in DOMAIN g |-> IF k = m THEN Taken(g[m], 0, n) ELSE g[k]]
    BY <1>2, <2>1
  <2> HIDE DEF g
  <2> QED
    BY <2>1, <2>2 DEF UsedSpan
<1> HIDE DEF g
<1>6. InUse(block, WithoutChunk(g, m))
  <2> SUFFICES ASSUME NEW k \in DOMAIN chunk, k # m
               PROVE  Spans(block, WithoutChunk(g, m), k) # {}
    BY <1>5 DEF InUse, WithoutChunk
  <2>1. Spans(block, WithoutChunk(g, m), k) = Spans(block, g, k)
    BY <1>5 DEF Spans, WithoutChunk
  <2> QED
    BY <1>4, <2>1 DEF KInv, InUse
<1>7. /\ Fitted(block', chunk') /\ InUse(block', chunk')
      /\ Bytes(m, 0, n) \in Block
      /\ \A d \in Caller : block[d] # NoBlock => Apart(Bytes(m, 0, n), block[d])
  <2>1. m \in DOMAIN g /\ n \in 1 .. g[m].blocks /\ 0 \in Fits(g[m], n)
    BY <1>4, <1>5
  <2>2. block' = GivenBlock(block, c, Bytes(m, 0, n))
    BY <1>2 DEF GivenBlock
  <2> QED
    BY <1>3, <1>4, <1>5, <1>6, <2>1, <2>2, AllocateFits
<1> QED
  BY <1>2, <1>3, <1>7, Allocates DEF KInv

\* free clears exactly the caller's blocks, and unmaps the chunk exactly when
\* no caller has a block of it.
LEMMA KReleaseStep ==
  ASSUME KInv, NEW c \in Caller, KRelease(c)
  PROVE  KInv' /\ Release(c)
<1>1. block[c] # NoBlock /\ block' = [block EXCEPT ![c] = NoBlock] /\ Fitted(block, chunk)
  BY DEF KRelease, KInv
<1>2. PICK m \in DOMAIN chunk : \E s \in Spans(block, chunk, m) :
         /\ block[c] = Held(m, s)
         /\ Holding(block[c].addr) = m
         /\ FirstBit(block[c].addr) = s.first
         /\ LastBit(block[c].addr) = s.last
  BY <1>1, Located
<1>3. PICK s \in Spans(block, chunk, m) :
         /\ block[c] = Held(m, s)
         /\ Holding(block[c].addr) = m
         /\ FirstBit(block[c].addr) = s.first
         /\ LastBit(block[c].addr) = s.last
  BY <1>2
<1> DEFINE left == Returned(chunk[m], s.first, s.first, s.last)
           g == FreeSpan(chunk, m, s)
<1>4. chunk' = IF left.used > 0 THEN g ELSE WithoutChunk(chunk, m)
  BY <1>3 DEF KRelease, FreeSpan, WithoutChunk
<1>5. /\ Fitted(block', g)
      /\ \A k \in DOMAIN chunk : k # m => Spans(block', g, k) = Spans(block, chunk, k)
  <2>1. block[c] = Held(m, s)
    BY <1>3
  <2>2. block' = GivenBlock(block, c, NoBlock)
    BY <1>1 DEF GivenBlock
  <2>3. Fitted(block, chunk)
    BY <1>1
  <2>4. /\ Fitted(GivenBlock(block, c, NoBlock), FreeSpan(chunk, m, s))
        /\ \A k \in DOMAIN chunk : k # m =>
             Spans(GivenBlock(block, c, NoBlock), FreeSpan(chunk, m, s), k)
               = Spans(block, chunk, k)
    BY <2>1, <2>3, ReleaseFits
  <2> QED
    BY <2>2, <2>4
<1>6. DOMAIN g = DOMAIN chunk /\ g[m] = left /\ \A k \in DOMAIN chunk : k # m => g[k] = chunk[k]
  BY DEF FreeSpan
<1> HIDE DEF left, g
<1>7. left.used > 0 <=> Spans(block', g, m) # {}
  BY <1>5, <1>6, UsedPositive
<1>8. \A k \in DOMAIN chunk : k # m => Spans(block', g, k) # {}
  BY <1>5 DEF KInv, InUse
<1>9. CASE left.used > 0
  <2>1. InUse(block', g)
    BY <1>6, <1>7, <1>8, <1>9 DEF InUse
  <2> QED
    BY <1>1, <1>4, <1>5, <1>9, <2>1 DEF KInv, Release
<1>10. CASE ~(left.used > 0)
  <2> DEFINE h == WithoutChunk(g, m)
  <2>1. chunk' = h
    BY <1>4, <1>6, <1>10 DEF WithoutChunk
  <2>2. Fitted(block', h) /\ \A k \in DOMAIN g \ {m} : Spans(block', h, k) = Spans(block', g, k)
    BY <1>5, <1>6, <1>7, <1>10, DropFits
  <2>3. InUse(block', h)
    BY <1>6, <1>8, <2>2 DEF InUse, WithoutChunk
  <2> HIDE DEF h
  <2> QED
    BY <1>1, <2>1, <2>2, <2>3 DEF KInv, Release
<1> QED
  BY <1>9, <1>10

\* shrink clears the end of the caller's blocks and nobody else's.
LEMMA KShrinkStep ==
  ASSUME KInv, NEW c \in Caller, KShrink(c)
  PROVE  KInv' /\ Shrink(c)
<1>1. block[c] # NoBlock /\ Fitted(block, chunk) /\ InUse(block, chunk)
  BY DEF KShrink, KInv
<1>2. PICK m \in DOMAIN chunk : \E s \in Spans(block, chunk, m) :
         /\ block[c] = Held(m, s)
         /\ Holding(block[c].addr) = m
         /\ FirstBit(block[c].addr) = s.first
         /\ LastBit(block[c].addr) = s.last
  BY <1>1, Located
<1>3. PICK s \in Spans(block, chunk, m) :
         /\ block[c] = Held(m, s)
         /\ Holding(block[c].addr) = m
         /\ FirstBit(block[c].addr) = s.first
         /\ LastBit(block[c].addr) = s.last
  BY <1>2
<1>4. PICK kept \in s.first + 1 .. s.last :
         /\ block' = [block EXCEPT ![c].len = (kept - s.first) * Density]
         /\ chunk' = [chunk EXCEPT ![m] = Returned(@, kept, kept - 1, s.last)]
  BY <1>3 DEF KShrink
<1>5. /\ Fitted(block', chunk') /\ InUse(block', chunk')
      /\ block'[c] \in Block /\ block'[c].addr = block[c].addr /\ block'[c].len <= block[c].len
  <2>1. block[c] = Held(m, s)
    BY <1>3
  <2>2. block' = ShorterBlock(block, c, s, kept)
    BY <1>4 DEF ShorterBlock
  <2>3. chunk' = ShorterSpan(chunk, m, s, kept)
    BY <1>4 DEF ShorterSpan
  <2>4. Fitted(block, chunk)
    BY <1>1
  <2>5. /\ Fitted(block', chunk')
        /\ InUse(block, chunk) => InUse(block', chunk')
        /\ block'[c] \in Block /\ block'[c].addr = block[c].addr /\ block'[c].len <= block[c].len
    BY <2>1, <2>2, <2>3, <2>4, ShrinkFits
  <2> QED
    BY <1>1, <2>5
<1>6. block' = [block EXCEPT ![c] = block'[c]]
  <2>1. block' = [block EXCEPT ![c] = [block[c] EXCEPT !.len = (kept - s.first) * Density]]
    BY <1>4
  <2>2. block'[c] = [block[c] EXCEPT !.len = (kept - s.first) * Density]
    BY <1>1, <2>1 DEF Fitted
  <2> QED
    BY <2>1, <2>2
<1> QED
  BY <1>1, <1>5, <1>6 DEF KInv, Shrink, Moves

\* freeAll takes the blocks and the chunks.
LEMMA KReleaseAllStep ==
  ASSUME KInv, KReleaseAll
  PROVE  KInv' /\ ReleaseAll
<1>1. block' = [c \in Caller |-> NoBlock] /\ DOMAIN chunk' = {} /\ ReleaseAll
  BY DEF KReleaseAll, ReleaseAll, NoChunks
<1>2. block' \in [Caller -> Block \cup {NoBlock}] /\ \A c \in Caller : block'[c] = NoBlock
  BY <1>1
<1> QED
  BY <1>1, <1>2 DEF KInv, Fitted, InUse, Geometry

\* Every step keeps the bits true to the blocks, and is a step of Allocator.
LEMMA KStep ==
  ASSUME KInv, [KNext]_kvars
  PROVE  KInv' /\ [ANext]_block
<1>1. ASSUME NEW c \in Caller, KAllocate(c) PROVE KInv' /\ ANext
  BY <1>1, KAllocateStep DEF ANext
<1>2. ASSUME NEW c \in Caller, KMap(c) PROVE KInv' /\ ANext
  BY <1>2, KMapStep DEF ANext
<1>3. ASSUME NEW c \in Caller, KRelease(c) PROVE KInv' /\ ANext
  BY <1>3, KReleaseStep DEF ANext
<1>4. ASSUME NEW c \in Caller, KShrink(c) PROVE KInv' /\ ANext
  BY <1>4, KShrinkStep DEF ANext
<1>5. ASSUME KReleaseAll PROVE KInv' /\ ANext
  BY <1>5, KReleaseAllStep DEF ANext
<1>6. ASSUME UNCHANGED kvars PROVE KInv' /\ UNCHANGED block
  BY <1>6 DEF kvars, KInv, Fitted, InUse, Spans
<1> QED
  BY <1>1, <1>2, <1>3, <1>4, <1>5, <1>6 DEF KNext

\* What the invariant says of the blocks.
LEMMA FoundByInv == KInv => BlocksFound
<1> SUFFICES ASSUME KInv, NEW c \in Caller, block[c] # NoBlock
             PROVE  LET addr == block[c].addr
                    IN  /\ Holding(addr) \in DOMAIN chunk
                        /\ block[c] = Bytes(Holding(addr), FirstBit(addr),
                                            LastBit(addr) - FirstBit(addr) + 1)
                        /\ LastBit(addr) < chunk[Holding(addr)].blocks
  BY DEF BlocksFound
<1>1. Fitted(block, chunk)
  BY DEF KInv
<1>2. PICK m \in DOMAIN chunk : \E s \in Spans(block, chunk, m) :
         /\ block[c] = Held(m, s)
         /\ Holding(block[c].addr) = m
         /\ FirstBit(block[c].addr) = s.first
         /\ LastBit(block[c].addr) = s.last
  BY <1>1, Located
<1>3. PICK s \in Spans(block, chunk, m) :
         /\ block[c] = Held(m, s)
         /\ Holding(block[c].addr) = m
         /\ FirstBit(block[c].addr) = s.first
         /\ LastBit(block[c].addr) = s.last
  BY <1>2
<1>4. s.last < chunk[m].blocks
  BY <1>1, SpanFields
<1> QED
  BY <1>3, <1>4 DEF Held

\* What the invariant says of the counters and of the used bits.
LEMMA OwnedByInv == KInv => BlocksOwned
<1> SUFFICES ASSUME KInv, NEW m \in DOMAIN chunk
             PROVE  /\ chunk[m].used = Cardinality(UsedBits(chunk[m])) * Density
                    /\ chunk[m].used > 0
                    /\ \A i \in UsedBits(chunk[m]) : \E c \in Caller :
                         /\ block[c] # NoBlock
                         /\ block[c].addr <= m + i * Density
                         /\ m + i * Density < block[c].addr + block[c].len
  BY DEF BlocksOwned
<1>1. Fitted(block, chunk) /\ Cut(chunk[m], Spans(block, chunk, m))
  BY DEF KInv, Fitted
<1>2. chunk[m].used = Cardinality(UsedBits(chunk[m])) * Density
  BY <1>1 DEF Cut
<1>3. chunk[m].used > 0
  BY <1>1, UsedPositive DEF KInv, InUse
<1>4. ASSUME NEW i \in UsedBits(chunk[m])
      PROVE  \E c \in Caller :
               /\ block[c] # NoBlock
               /\ block[c].addr <= m + i * Density
               /\ m + i * Density < block[c].addr + block[c].len
  <2>1. PICK s \in Spans(block, chunk, m) : i \in s.first .. s.last
    BY <1>1 DEF Cut, UsedBits
  <2>2. PICK c \in Caller : block[c] = Held(m, s)
    BY <1>1, SpanFields
  <2>3. s \in Slots(chunk[m]) /\ Geometry(chunk) /\ s.first \in Nat /\ s.last \in Nat
    BY <1>1, SpanFields
  <2>4. /\ block[c] # NoBlock /\ m \in Nat
        /\ block[c].addr = m + s.first * Density
        /\ block[c].len = (s.last - s.first + 1) * Density
    BY <2>2, <2>3, HeldWithin
  <2> DEFINE n == s.last - s.first + 1
             k == s.first + n
  <2>5. i \in Nat /\ s.first <= i /\ i < k /\ n \in Nat /\ k \in Nat
    BY <2>1, <2>3
  <2>6. Density \in Nat \ {0}
    BY Widths
  <2> HIDE DEF n
  <2>7. (s.first + n) * Density = s.first * Density + n * Density
        /\ s.first * Density \in Nat /\ n * Density \in Nat /\ i * Density \in Nat
    BY <2>3, <2>5, <2>6
  <2> HIDE DEF k
  <2>8. s.first * Density <= i * Density /\ i * Density + Density <= k * Density
    BY <2>3, <2>5, <2>6, Monotone, Before
  <2>9. block[c].addr <= m + i * Density /\ m + i * Density < block[c].addr + block[c].len
    BY <2>4, <2>6, <2>7, <2>8 DEF k, n
  <2> QED
    BY <2>4, <2>9
<1> QED
  BY <1>2, <1>3, <1>4

\* The bits of the chunks are always exactly the blocks of the callers.
LEMMA KInvAlways == KSpec => []KInv
<1>1. KInv /\ [KNext]_kvars => KInv'
  BY KStep
<1> QED
  BY KInitInv, <1>1, PTL DEF KSpec

\* From a block's address, the only thing that free and shrink are given, the
\* bits lead to exactly the caller's blocks.
THEOREM BlocksFoundByBits == KSpec => []BlocksFound
  BY KInvAlways, FoundByInv, PTL

\* No memory leaks: a chunk's counter agrees with its bits, every used block is
\* a caller's, and a chunk that nobody uses is not mapped.
THEOREM NoBlockLeaks == KSpec => []BlocksOwned
  BY KInvAlways, OwnedByInv, PTL

\* An allocator that cuts blocks from chunks and knows them by their bits
\* implements Allocator: every step maps to a step or to none.
THEOREM ChunksImplement == KSpec => ASpec
<1>1. KInit => AInit
  BY DEF KInit
<1>2. KInv /\ [KNext]_kvars => [ANext]_block
  BY KStep
<1>3. KSpec => []KInv
  BY KInvAlways
<1> QED
  BY <1>1, <1>2, <1>3, PTL DEF KSpec, ASpec

\* What the bits and the mapped chunks are leads to what the callers rely on: no
\* two of them ever share a byte of executable memory.
THEOREM ChunkCallersApart == KSpec => []Disjoint
  BY ChunksImplement, CallersApart, PTL
=============================================================================
