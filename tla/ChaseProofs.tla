----------------------------- MODULE ChaseProofs -----------------------------
(***************************************************************************)
(* Proofs about the chains and the function that walks them, for chains of *)
(* every shape, every interval and offset at which the random              *)
(* initialisation may visit pages and lines, and every stride              *)
(* (src/run.cpp): that the function follows no wild pointer, and, for the  *)
(* regular shapes, that a call walks exactly the lines of the pattern and  *)
(* finishes a page before it turns to the next.                            *)
(***************************************************************************)
EXTENDS ChaseInvariant, FiniteSetTheorems, TLAPS

USE ChainInitAssumption

-----------------------------------------------------------------------------
(* Numbers.                                                                *)

LEMMA ShapeFacts ==
  ASSUME exp \in Shapes
  PROVE  /\ exp.chains_per_thread \in Nat \ {0} /\ exp.pages_per_chain \in Nat \ {0}
         /\ exp.lines_per_page \in Nat \ {0} /\ exp.links_per_line \in Nat \ {0}
         /\ exp.access_pattern \in {"random", "strided"} /\ exp.stride \in Int \ {0}
         /\ Primes \subseteq Nat
BY DEF Shape, PrimeTable

LEMMA ProductPositive ==
  ASSUME NEW a \in Nat \ {0}, NEW b \in Nat \ {0}
  PROVE  a * b \in Nat \ {0}
OBVIOUS

\* A place within one of n rows of w is one of the n * w places.
LEMMA RowMajor ==
  ASSUME NEW n \in Nat \ {0}, NEW w \in Nat \ {0},
         NEW row \in 0 .. n - 1, NEW place \in 0 .. w - 1
  PROVE  row * w + place \in 0 .. n * w - 1
<1>1. /\ row * w \in Int /\ n * w \in Int
      /\ 0 <= row * w /\ (n - 1 - row) * w >= 0
  OBVIOUS
<1>2. (n - 1 - row) * w = n * w - w - row * w
  OBVIOUS
<1> QED
  BY <1>1, <1>2

LEMMA Sizes ==
  ASSUME exp \in Shapes
  PROVE  /\ lines_per_chain \in Nat \ {0} /\ links_per_page \in Nat \ {0}
         /\ links_per_chain \in Nat \ {0}
         /\ links_per_chain = lines_per_chain * exp.links_per_line
         /\ links_per_chain = exp.pages_per_chain * links_per_page
<1>1. /\ lines_per_chain \in Nat \ {0} /\ links_per_page \in Nat \ {0}
  BY ShapeFacts, ProductPositive DEF lines_per_chain, links_per_page
<1>2. links_per_chain \in Nat \ {0}
  BY <1>1, ShapeFacts, ProductPositive DEF links_per_chain
<1>3. ASSUME NEW p \in Nat, NEW l \in Nat, NEW k \in Nat PROVE (l * p) * k = p * (l * k)
  OBVIOUS
<1>4. links_per_chain = exp.pages_per_chain * links_per_page
  BY <1>3, ShapeFacts DEF links_per_chain, lines_per_chain, links_per_page
<1> QED
  BY <1>1, <1>2, <1>4 DEF links_per_chain

\* The first link of a line is one of the chain.
LEMMA LineLink ==
  ASSUME exp \in Shapes, NEW l \in 0 .. lines_per_chain - 1
  PROVE  l * exp.links_per_line \in 0 .. links_per_chain - 1
<1>1. l * exp.links_per_line + 0 \in 0 .. lines_per_chain * exp.links_per_line - 1
  BY RowMajor, ShapeFacts, Sizes
<1> QED
  BY <1>1, Sizes, ShapeFacts

\* The link selected by any interval and offset is one of the chain.
LEMMA RandomLinkInChain ==
  ASSUME TypeInv PROVE RandomLink \in 0 .. links_per_chain - 1
<1>1. exp \in Shapes
  BY DEF TypeInv
<1>2. ASSUME NEW x \in Int, NEW n \in Nat \ {0} PROVE x % n \in 0 .. n - 1
  OBVIOUS
<1>3. page \in 0 .. exp.pages_per_chain - 1
  <2>1. page_factor * i + page_offset \in Int
    BY DEF TypeInv
  <2> QED
    BY <1>1, <1>2, <2>1, ShapeFacts DEF page
<1>4. line_within_page \in 0 .. exp.lines_per_page - 1
  <2>1. line_factor * j + line_offset \in Int
    BY DEF TypeInv
  <2> QED
    BY <1>1, <1>2, <2>1, ShapeFacts DEF line_within_page
<1>5. line_within_page * exp.links_per_line + 0 \in 0 .. links_per_page - 1
  BY <1>1, <1>4, RowMajor, ShapeFacts DEF links_per_page
<1>6. line_within_page * exp.links_per_line \in 0 .. links_per_page - 1
  BY <1>1, <1>4, <1>5, ShapeFacts
<1>7. page * links_per_page + line_within_page * exp.links_per_line
        \in 0 .. exp.pages_per_chain * links_per_page - 1
  BY <1>1, <1>3, <1>6, RowMajor, ShapeFacts, Sizes
<1> QED
  BY <1>1, <1>7, Sizes DEF RandomLink

\* A reverse walk starts within the chain.
LEMMA LastInChain ==
  ASSUME exp \in Shapes, exp.stride < 0 PROVE last \in 0 .. lines_per_chain - 1
<1>1. ASSUME NEW n \in Nat, NEW s \in Nat \ {0} PROVE (n \div s) * s \in 0 .. n
  <2> DEFINE q == n \div s
             r == n % s
  <2>1. q \in Int /\ r \in 0 .. s - 1 /\ n = s * q + r
    OBVIOUS
  <2> HIDE DEF q, r
  <2>2. q <= -1 => s * q <= -s
    BY <2>1
  <2>3. q >= 0
    BY <2>1, <2>2
  <2>4. q * s = n - r /\ q * s >= 0
    BY <2>1, <2>3
  <2>5. q * s \in 0 .. n
    BY <2>1, <2>4
  <2> QED
    BY <2>5 DEF q
<1>2. lines_per_chain - 1 \in Nat /\ -exp.stride \in Nat \ {0}
  BY ShapeFacts, Sizes
<1> QED
  BY <1>1, <1>2 DEF last

-----------------------------------------------------------------------------
(* Chains.                                                                 *)

LEMMA Blocks ==
  /\ \A d \in Chains : Block(d) \subseteq Address /\ NULL \notin Block(d)
  /\ \A d, f : d # f => Block(d) \cap Block(f) = {}
  /\ NULL \notin Address
  /\ \A a \in Address : \E d \in Chains : a \in Block(d)
BY DEF Block, Address, NULL, Chains

\* A visit of one more link of the chain.
LEMMA VisitLayout ==
  ASSUME TypeInv, LayoutInv, c \in Chains, NEW link \in 0 .. links_per_chain - 1,
         Visit(link), UNCHANGED <<exp, c>>
  PROVE  LayoutInv' /\ root'[c] # NULL
         /\ root' \in [Chains -> Address \cup {NULL}]
         /\ prev' \in Address
         /\ memory' \in [Address -> Address \cup {NULL}]
<1> DEFINE new == <<c, link>>
<1>1. new \in Block(c) /\ new \in Address /\ new # NULL /\ prev' = new
  BY Blocks DEF Visit, Block
<1>2. Chains' = Chains /\ \A d : Block(d)' = Block(d)
  BY DEF Chains, Block, links_per_chain, lines_per_chain
<1>3. CASE root[c] = NULL
  <2>1. root' = [root EXCEPT ![c] = new] /\ memory' = memory
    BY <1>3 DEF Visit
  <2>2. Unwritten(c)
    BY <1>3, Blocks DEF LayoutInv, Begun
  <2>3. Begun(c)'
    <3>1. root'[c] = new
      BY <2>1 DEF TypeInv
    <3>2. \A a \in Block(c) : Reached(c, a)' => a = new
      BY <1>2, <2>1, <2>2, <3>1, Blocks DEF Reached, Unwritten
    <3> QED
      BY <1>1, <1>2, <3>1, <3>2 DEF Begun
  <2>4. ASSUME NEW d \in Chains, d # c
        PROVE  (Tied(d)' <=> Tied(d)) /\ (Unwritten(d)' <=> Unwritten(d))
    BY <1>2, <2>1, <2>4 DEF TypeInv, Tied, Unwritten, Reached
  <2>5. root'[c] = new
    BY <2>1 DEF TypeInv
  <2>6. LayoutInv'
    <3> SUFFICES ASSUME NEW d \in Chains
                 PROVE  /\ \A a \in Block(d) : memory'[a] \in Block(d) \cup {NULL}
                        /\ d < c => Tied(d)'
                        /\ d = c => Begun(d)'
                        /\ d > c => Unwritten(d)'
      BY <1>2 DEF LayoutInv
    <3>1. CASE d = c
      BY <2>1, <2>3, <3>1 DEF LayoutInv, TypeInv
    <3>2. CASE d # c
      BY <2>1, <2>4, <3>2 DEF LayoutInv
    <3> QED
      BY <3>1, <3>2
  <2> QED
    BY <1>1, <2>1, <2>5, <2>6 DEF TypeInv
<1>4. CASE root[c] # NULL
  <2>1. memory' = [memory EXCEPT ![prev] = new] /\ root' = root
    BY <1>4 DEF Visit
  <2>2. Begun(c)
    BY <1>4 DEF LayoutInv, Unwritten
  <2>3. prev \in Block(c) /\ prev \in Address
    BY <2>2, Blocks DEF Begun
  <2>4. \A a \in Address : memory'[a] = IF a = prev THEN new ELSE memory[a]
    BY <2>1, <2>3 DEF TypeInv
  <2>5. Begun(c)'
    <3> SUFFICES ASSUME NEW a \in Block(c), Reached(c, a)'
                 PROVE  a = new \/ memory'[a] # NULL
      BY <1>1, <1>2, <2>1, <2>2 DEF Begun
    <3>1. a \in Address
      BY Blocks
    <3>2. a = new \/ Reached(c, a)
      BY <1>2, <2>1, <2>4, Blocks DEF Reached
    <3> QED
      BY <1>1, <2>2, <2>4, <3>1, <3>2 DEF Begun
  <2>6. ASSUME NEW d \in Chains, d # c
        PROVE  /\ \A a \in Block(d) : memory'[a] = memory[a]
               /\ (Tied(d)' <=> Tied(d)) /\ (Unwritten(d)' <=> Unwritten(d))
    <3>1. \A a \in Block(d) : memory'[a] = memory[a]
      BY <2>3, <2>4, <2>6, Blocks
    <3> QED
      BY <1>2, <2>1, <3>1 DEF Tied, Unwritten, Reached
  <2>7. LayoutInv'
    <3> SUFFICES ASSUME NEW d \in Chains
                 PROVE  /\ \A a \in Block(d) : memory'[a] \in Block(d) \cup {NULL}
                        /\ d < c => Tied(d)'
                        /\ d = c => Begun(d)'
                        /\ d > c => Unwritten(d)'
      BY <1>2 DEF LayoutInv
    <3>1. CASE d = c
      <4>1. \A a \in Block(c) : memory'[a] \in Block(c) \cup {NULL}
        BY <1>1, <2>4, Blocks DEF LayoutInv
      <4> QED
        BY <2>5, <3>1, <4>1 DEF TypeInv
    <3>2. CASE d # c
      BY <2>6, <3>2 DEF LayoutInv
    <3> QED
      BY <3>1, <3>2
  <2> QED
    BY <1>1, <1>4, <2>1, <2>7 DEF TypeInv
<1> QED
  BY <1>3, <1>4

\* The last link visited leads to the first.
LEMMA CloseLayout ==
  ASSUME TypeInv, LayoutInv, c \in Chains, root[c] # NULL, Close
  PROVE  LayoutInv' /\ memory' \in [Address -> Address \cup {NULL}]
<1>1. /\ memory' = [memory EXCEPT ![prev] = root[c]] /\ c' = c + 1
      /\ UNCHANGED <<exp, root, prev>>
  BY DEF Close
<1>2. Chains' = Chains /\ \A d : Block(d)' = Block(d)
  BY <1>1 DEF Chains, Block, links_per_chain, lines_per_chain
<1>3. Begun(c)
  BY DEF LayoutInv, Unwritten
<1>4. prev \in Block(c) /\ prev \in Address /\ root[c] \in Block(c) /\ root[c] \in Address
  BY <1>3, Blocks DEF Begun
<1>5. \A a \in Address : memory'[a] = IF a = prev THEN root[c] ELSE memory[a]
  BY <1>1, <1>4 DEF TypeInv
<1>6. ASSUME NEW d \in Chains, d = c PROVE Tied(d)'
  <2> SUFFICES ASSUME NEW a \in Block(d), Reached(d, a)'
               PROVE  memory'[a] # NULL
    BY <1>1, <1>2, <1>4, <1>6 DEF Tied
  <2>1. a \in Address /\ a \in Block(c)
    BY <1>6, Blocks
  <2>2. a = root[c] \/ \E b \in Block(c) : memory'[b] = a
    BY <1>1, <1>2, <1>6 DEF Reached
  <2>3. Reached(c, a)
    BY <1>5, <2>2, Blocks DEF Reached
  <2> QED
    BY <1>3, <1>4, <1>5, <2>1, <2>3, Blocks DEF Begun
<1>7. ASSUME NEW d \in Chains, d # c
      PROVE  /\ \A a \in Block(d) : memory'[a] = memory[a]
             /\ (Tied(d)' <=> Tied(d)) /\ (Unwritten(d)' <=> Unwritten(d))
  <2>1. \A a \in Block(d) : memory'[a] = memory[a]
    BY <1>4, <1>5, <1>7, Blocks
  <2> QED
    BY <1>1, <1>2, <2>1 DEF Tied, Unwritten, Reached
<1>8. LayoutInv'
  <2> SUFFICES ASSUME NEW d \in Chains
               PROVE  /\ \A a \in Block(d) : memory'[a] \in Block(d) \cup {NULL}
                      /\ d < c + 1 => Tied(d)'
                      /\ d >= c + 1 => Unwritten(d)'
    BY <1>1, <1>2 DEF LayoutInv, TypeInv, Chains
  <2>1. CASE d = c
    <3>1. \A a \in Block(c) : memory'[a] \in Block(c) \cup {NULL}
      BY <1>4, <1>5, Blocks DEF LayoutInv
    <3> QED
      BY <1>6, <2>1, <3>1 DEF TypeInv
  <2>2. CASE d # c
    BY <1>7, <2>2 DEF LayoutInv, TypeInv, Chains
  <2> QED
    BY <2>1, <2>2
<1> QED
  BY <1>1, <1>4, <1>8 DEF TypeInv

-----------------------------------------------------------------------------
(* Every step preserves the invariant.                                     *)

LEMMA InitChase == Init => ChaseInv
<1> SUFFICES ASSUME Init PROVE ChaseInv
  OBVIOUS
<1>1. exp \in Shapes /\ exp.chains_per_thread \in Nat \ {0}
  BY ShapeFacts DEF Init, InitChains
<1>2. TypeInv
  BY <1>1 DEF Init, InitChains, TypeInv, Building
<1>3. LayoutInv
  BY <1>1, Blocks DEF Init, InitChains, LayoutInv, Unwritten, Chains
<1> QED
  BY <1>2, <1>3 DEF Init, InitChains, ChaseInv, VisitInv, WalkInv

\* Steps that prepare the next visits and write nothing.
LEMMA PrepareSteps ==
  ASSUME ChaseInv, SelectPages \/ SelectLines \/ NextPage \/ StartStrided
  PROVE  ChaseInv'
<1> USE DEF ChaseInv, Building
<1>1. /\ UNCHANGED <<exp, c, root, prev, memory>>
      /\ pc \in Building /\ pc' \in {"page", "line", "forward", "reverse"}
  BY DEF SelectPages, SelectLines, NextPage, StartStrided
<1>2. /\ Chains' = Chains /\ Address' = Address /\ lines_per_chain' = lines_per_chain
      /\ \A d : Block(d)' = Block(d)
  BY <1>1 DEF Chains, Address, Block, links_per_chain, lines_per_chain
<1>3. LayoutInv'
  BY <1>1, <1>2 DEF LayoutInv, Tied, Begun, Unwritten, Reached
<1>4. {i, j, page_factor, page_offset, line_factor, line_offset}' \subseteq Int
  <2>1. exp \in Shapes
    BY DEF TypeInv
  <2>2. exp.stride < 0 => last \in Int
    BY <2>1, LastInChain
  <2>3. {i, j, page_factor, page_offset, line_factor, line_offset} \subseteq Int
    BY DEF TypeInv
  <2>4. CASE SelectPages
    BY <2>1, <2>3, <2>4, ShapeFacts DEF SelectPages
  <2>5. CASE SelectLines
    BY <2>1, <2>3, <2>5, ShapeFacts DEF SelectLines
  <2>6. CASE NextPage
    BY <2>3, <2>6 DEF NextPage, selection
  <2>7. CASE StartStrided
    BY <2>2, <2>3, <2>7 DEF StartStrided, Reverse, selection
  <2> QED
    BY <2>4, <2>5, <2>6, <2>7
<1>5. TypeInv'
  BY <1>1, <1>2, <1>4 DEF TypeInv
<1>6. VisitInv'
  <2>1. exp \in Shapes /\ exp.lines_per_page \in Nat \ {0} /\ i \in Int /\ j \in Int
    BY ShapeFacts DEF TypeInv
  <2>2. CASE SelectPages
    BY <2>2 DEF VisitInv, SelectPages
  <2>3. CASE SelectLines
    BY <2>1, <2>3 DEF VisitInv, SelectLines
  <2>4. CASE NextPage
    BY <2>1, <2>4 DEF VisitInv, NextPage
  <2>5. CASE StartStrided
    <3>1. CASE Forward
      BY <1>1, <2>1, <2>5, <3>1, ShapeFacts DEF VisitInv, StartStrided, Forward, Reverse
    <3>2. CASE Reverse
      BY <1>1, <1>2, <2>1, <2>5, <3>2, LastInChain, Sizes
         DEF VisitInv, StartStrided, Forward, Reverse
    <3> QED
      BY <2>5, <3>1, <3>2 DEF StartStrided
  <2> QED
    BY <2>2, <2>3, <2>4, <2>5
<1> QED
  BY <1>1, <1>3, <1>5, <1>6 DEF WalkInv

LEMMA VisitSteps ==
  ASSUME ChaseInv, VisitLine \/ VisitForward \/ VisitReverse
  PROVE  ChaseInv'
<1> USE DEF ChaseInv, Building
<1>1. /\ UNCHANGED <<exp, pc, c, selection>> /\ pc \in {"line", "forward", "reverse"}
      /\ exp \in Shapes /\ i \in Int /\ j \in Int /\ c \in Chains
  BY ShapeFacts DEF TypeInv, Chains, VisitLine, VisitForward, VisitReverse
<1>2. \E link \in 0 .. links_per_chain - 1 : Visit(link)
  <2>1. CASE VisitLine
    BY <2>1, RandomLinkInChain DEF VisitLine
  <2>2. CASE VisitForward
    <3>1. i \in 0 .. lines_per_chain - 1
      BY <1>1, <2>2, Sizes DEF VisitForward, VisitInv
    <3> QED
      BY <1>1, <2>2, <3>1, LineLink DEF VisitForward
  <2>3. CASE VisitReverse
    <3>1. i \in 0 .. lines_per_chain - 1
      BY <1>1, <2>3, Sizes DEF VisitReverse, VisitInv
    <3> QED
      BY <1>1, <2>3, <3>1, LineLink DEF VisitReverse
  <2> QED
    BY <2>1, <2>2, <2>3
<1>3. /\ LayoutInv' /\ root'[c] # NULL
      /\ root' \in [Chains -> Address \cup {NULL}] /\ prev' \in Address
      /\ memory' \in [Address -> Address \cup {NULL}]
  BY <1>1, <1>2, VisitLayout
<1>4. Chains' = Chains /\ Address' = Address /\ lines_per_chain' = lines_per_chain
  BY <1>1 DEF Chains, Address, links_per_chain, lines_per_chain
<1>5. exp.stride \in Int
  BY <1>1, ShapeFacts
<1>6. i' \in Int /\ j' \in Int
  BY <1>1, <1>5 DEF VisitLine, VisitForward, VisitReverse
<1>7. TypeInv'
  BY <1>1, <1>3, <1>4, <1>6 DEF TypeInv, selection
<1>8. VisitInv'
  <2>1. CASE VisitLine
    BY <1>1, <1>3, <2>1 DEF VisitInv, VisitLine
  <2>2. CASE VisitForward
    BY <1>1, <1>3, <1>5, <2>2 DEF VisitInv, VisitForward
  <2>3. CASE VisitReverse
    BY <1>1, <1>3, <1>4, <1>5, <2>3, Sizes DEF VisitInv, VisitReverse
  <2> QED
    BY <2>1, <2>2, <2>3
<1> QED
  BY <1>1, <1>3, <1>7, <1>8 DEF WalkInv

LEMMA CloseStep ==
  ASSUME ChaseInv, Close PROVE ChaseInv'
<1> USE DEF ChaseInv, Building
<1>1. /\ UNCHANGED <<exp, i, j, selection, root, prev>> /\ c' = c + 1
      /\ exp \in Shapes /\ i \in Int /\ c \in Chains /\ c \in Nat
      /\ exp.chains_per_thread \in Nat \ {0}
      /\ pc' = IF c + 1 < exp.chains_per_thread THEN "chain" ELSE "bench"
      /\ c < exp.chains_per_thread
  BY ShapeFacts DEF TypeInv, Chains, Close, Visited
<1>2. root[c] # NULL
  BY <1>1, ShapeFacts, Sizes DEF VisitInv, Close, Visited
<1>3. LayoutInv' /\ memory' \in [Address -> Address \cup {NULL}]
  BY <1>1, <1>2, CloseLayout
<1>4. Chains' = Chains /\ Address' = Address
  BY <1>1 DEF Chains, Address, links_per_chain, lines_per_chain
<1>5. TypeInv'
  BY <1>1, <1>3, <1>4 DEF TypeInv, selection
<1> QED
  BY <1>1, <1>3, <1>5 DEF VisitInv, WalkInv

\* The chain that is walked is tied.
LEMMA FirstChain ==
  ASSUME TypeInv, LayoutInv, pc \in {"bench", "loop"}
  PROVE  /\ 0 \in Chains /\ root[0] \in Block(0) /\ memory[root[0]] # NULL
         /\ \A a \in Block(0) : memory[a] # NULL =>
              memory[a] \in Block(0) /\ memory[memory[a]] # NULL
<1>1. 0 \in Chains /\ 0 < c
  BY ShapeFacts DEF TypeInv, Building, Chains
<1>2. Tied(0)
  BY <1>1 DEF LayoutInv
<1> QED
  BY <1>1, <1>2 DEF Tied, Reached, LayoutInv

LEMMA CallSteps ==
  ASSUME ChaseInv, Enter \/ Turn PROVE ChaseInv'
<1> USE DEF ChaseInv, Building
<1>1. /\ UNCHANGED <<exp, c, i, j, selection, root, prev, memory>>
      /\ pc \in {"bench", "loop"} /\ pc' \in {"loop", "returned"}
  BY DEF Enter, Turn
<1>2. /\ Chains' = Chains /\ Address' = Address
      /\ \A d : Block(d)' = Block(d)
  BY <1>1 DEF Chains, Address, Block, links_per_chain, lines_per_chain
<1>3. LayoutInv'
  BY <1>1, <1>2 DEF LayoutInv, Tied, Begun, Unwritten, Reached
<1>4. TypeInv' /\ VisitInv'
  BY <1>1, <1>2 DEF TypeInv, VisitInv, selection
<1>5. \A d \in Chains : positions'[d] \in Block(0) /\ memory[positions'[d]] # NULL
  <2>1. CASE Enter
    BY <1>1, <2>1, FirstChain DEF Enter, heads
  <2>2. CASE Turn
    BY <1>1, <2>2, FirstChain DEF Turn, WalkInv
  <2> QED
    BY <2>1, <2>2
<1> QED
  BY <1>1, <1>2, <1>3, <1>4, <1>5 DEF WalkInv

LEMMA NextChase == ChaseInv /\ [Next]_vars => ChaseInv'
<1> SUFFICES ASSUME ChaseInv, [Next]_vars PROVE ChaseInv'
  OBVIOUS
<1>1. CASE BuildChains
  BY <1>1, PrepareSteps, VisitSteps, CloseStep DEF BuildChains, NextChains
<1>2. CASE Enter \/ Turn
  BY <1>2, CallSteps
<1>3. CASE UNCHANGED vars
  <2>1. UNCHANGED <<exp, pc, c, i, j, selection, root, prev, memory, positions>>
    BY <1>3 DEF vars, initVars
  <2>2. /\ Chains' = Chains /\ Address' = Address /\ lines_per_chain' = lines_per_chain
        /\ \A d : Block(d)' = Block(d)
    BY <2>1 DEF Chains, Address, Block, links_per_chain, lines_per_chain
  <2>3. TypeInv' /\ VisitInv' /\ WalkInv'
    BY <2>1, <2>2 DEF ChaseInv, TypeInv, VisitInv, WalkInv, selection
  <2>4. LayoutInv'
    BY <2>1, <2>2 DEF ChaseInv, LayoutInv, Tied, Begun, Unwritten, Reached
  <2> QED
    BY <2>3, <2>4 DEF ChaseInv
<1> QED
  BY <1>1, <1>2, <1>3 DEF Next, Returned

-----------------------------------------------------------------------------
\* Links are written into the thread's own chains only, and the generated code
\* never follows one that was not written: for any number of chains, pages,
\* lines and links, any interval, also one that visits some lines repeatedly
\* and others never, and any stride (run.cpp:381-516 and 564-605).
THEOREM NoWildPointerCorrect == Spec => []NoWildPointer
<1>1. ChaseInv => NoWildPointer
  BY DEF ChaseInv, TypeInv, WalkInv, NoWildPointer, Block
<1> QED
  BY <1>1, InitChase, NextChase, PTL DEF Spec

-----------------------------------------------------------------------------
(* Numbers, places and steps that reach all of them.                       *)

LEMMA DivMod ==
  ASSUME NEW n \in Int, NEW s \in Nat \ {0}
  PROVE  n \div s \in Int /\ n % s \in 0 .. s - 1 /\ n = s * (n \div s) + (n % s)
OBVIOUS

LEMMA MulMono ==
  ASSUME NEW s \in Nat, NEW a \in Int, NEW b \in Int, a <= b
  PROVE  s * a <= s * b /\ s * a \in Int /\ s * b \in Int
<1>1. s * (b - a) >= 0
  OBVIOUS
<1>2. s * (b - a) = s * b - s * a
  OBVIOUS
<1> QED
  BY <1>1, <1>2

LEMMA DivModUnique ==
  ASSUME NEW s \in Nat \ {0}, NEW q \in Int, NEW r \in 0 .. s - 1
  PROVE  (s * q + r) \div s = q /\ (s * q + r) % s = r
<1> DEFINE n == s * q + r
           p == n \div s
           t == n % s
<1>1. n \in Int
  OBVIOUS
<1>2. p \in Int /\ t \in 0 .. s - 1 /\ n = s * p + t
  BY <1>1, DivMod
<1>3. n = s * q + r
  OBVIOUS
<1> HIDE DEF n, p, t
<1>4. ~(p <= q - 1)
  <2> SUFFICES ASSUME p <= q - 1 PROVE FALSE
    OBVIOUS
  <2>1. s * p <= s * (q - 1)
    BY <1>2, MulMono
  <2>2. s * (q - 1) = s * q - s
    OBVIOUS
  <2> QED
    BY <1>2, <1>3, <2>1, <2>2
<1>5. ~(q <= p - 1)
  <2> SUFFICES ASSUME q <= p - 1 PROVE FALSE
    OBVIOUS
  <2>1. s * q <= s * (p - 1)
    BY <1>2, MulMono
  <2>2. s * (p - 1) = s * p - s
    BY <1>2
  <2> QED
    BY <1>2, <1>3, <2>1, <2>2
<1>6. p = q /\ t = r
  BY <1>2, <1>3, <1>4, <1>5
<1> QED
  BY <1>6 DEF n, p, t

\* Of a set of numbers there is a least.
LEMMA LeastNumber ==
  ASSUME NEW T \in SUBSET Nat, T # {}
  PROVE  \E m \in T : \A n \in T : m <= n
<1>1. \E m \in T : \A n \in T : <<n, m>> \notin OpToRel(<, Nat)
  BY NatLessThanWellFounded, WFMin
<1>2. \A m, n \in Nat : n < m => <<n, m>> \in OpToRel(<, Nat)
  BY DEF OpToRel
<1>3. \A m, n \in Nat : ~(n < m) => m <= n
  OBVIOUS
<1> QED
  BY <1>1, <1>2, <1>3

Divides(n, a) == \E t \in Int : a = n * t

\* A multiple of a number that has no factor in common with n is a multiple
\* of n only if the multiplier is.
LEMMA CoprimeMultiple ==
  ASSUME NEW p \in Nat, NEW n \in Nat \ {0}, Coprime(p, n),
         NEW a \in 1 .. n - 1
  PROVE  ~Divides(n, p * a)
<1> SUFFICES ASSUME Divides(n, p * a) PROVE FALSE
  OBVIOUS
<1> DEFINE T == {m \in 1 .. n : Divides(n, p * m)}
<1>1. PICK m \in T : \A k \in T : m <= k
  <2>1. a \in T /\ T \subseteq Nat
    OBVIOUS
  <2> QED
    BY <2>1, LeastNumber
<1>2. m \in Nat \ {0} /\ m <= a /\ m <= n - 1
  <2>1. a \in T
    OBVIOUS
  <2> QED
    BY <1>1, <2>1
<1>3. PICK t \in Int : p * m = n * t
  BY DEF Divides
<1> DEFINE q == n \div m
           r == n % m
<1>4. q \in Int /\ r \in 0 .. m - 1 /\ n = m * q + r
  BY <1>2, DivMod
<1> HIDE DEF q, r
<1>5. r = 0
  <2> SUFFICES ASSUME r # 0 PROVE FALSE
    OBVIOUS
  <2>1. p * r = n * (p - t * q)
    <3>1. p * r = p * n - p * (m * q)
      BY <1>2, <1>4
    <3>2. p * (m * q) = (p * m) * q
      BY <1>2, <1>4
    <3>3. (n * t) * q = n * (t * q)
      BY <1>4
    <3>4. n * (p - t * q) = n * p - n * (t * q)
      BY <1>4
    <3> QED
      BY <1>3, <3>1, <3>2, <3>3, <3>4, <1>4
  <2>2. p - t * q \in Int
    BY <1>4
  <2>3. r \in 1 .. n
    BY <1>2, <1>4
  <2>4. Divides(n, p * r)
    BY <2>1, <2>2, Zenon DEF Divides
  <2> QED
    BY <1>1, <1>4, <2>3, <2>4
<1>6. n = m * q
  BY <1>2, <1>4, <1>5
<1>7. q \in 2 .. n
  <2>1. q >= 2
    <3>1. q <= 1 => m * q <= m * 1
      BY <1>2, <1>4, MulMono
    <3> QED
      BY <1>2, <1>4, <1>6, <3>1
  <2>2. 1 * q <= m * q
    <3>1. q * 1 <= q * m
      BY <1>2, <1>4, <2>1, MulMono
    <3> QED
      BY <1>2, <1>4, <3>1
  <2> QED
    BY <1>4, <1>6, <2>1, <2>2
<1>8. p = q * t
  <2>1. m * p = m * (q * t)
    <3>1. (m * q) * t = m * (q * t)
      BY <1>2, <1>4
    <3> QED
      BY <1>2, <1>3, <1>6, <3>1
  <2>2. ASSUME NEW x \in Int, NEW y \in Int, m * x = m * y PROVE x = y
    <3>1. m * (x - y) = 0
      BY <1>2, <2>2
    <3> QED
      BY <1>2, <3>1
  <2>3. q * t \in Int
    BY <1>4
  <2> QED
    BY <2>1, <2>2, <2>3
<1>9. p % q = 0 /\ n % q = 0
  <2>1. q \in Nat \ {0} /\ p = q * t + 0 /\ n = q * m + 0
    BY <1>2, <1>6, <1>7, <1>8
  <2>2. 0 \in 0 .. q - 1 /\ m \in Int /\ t \in Int
    BY <1>2, <1>7
  <2>3. (q * t + 0) % q = 0 /\ (q * m + 0) % q = 0
    BY <2>1, <2>2, DivModUnique
  <2> QED
    BY <2>1, <2>3
<1> QED
  BY <1>7, <1>9 DEF Coprime

\* Steps of such a number lead to n different places modulo n.
LEMMA DifferentPlaces ==
  ASSUME NEW p \in Nat, NEW n \in Nat \ {0}, Coprime(p, n), NEW o \in Int,
         NEW a \in 0 .. n - 1, NEW b \in 0 .. n - 1,
         (p * a + o) % n = (p * b + o) % n
  PROVE  a = b
<1>1. ASSUME NEW x \in 0 .. n - 1, NEW y \in 0 .. n - 1,
             (p * x + o) % n = (p * y + o) % n, x < y
      PROVE  FALSE
  <2> DEFINE u == p * x + o
             v == p * y + o
             s == u \div n
             t == v \div n
             r == u % n
  <2>1. u \in Int /\ v \in Int
    OBVIOUS
  <2>3. p * (y - x) = v - u
    OBVIOUS
  <2>4. v % n = r
    BY <1>1
  <2> HIDE DEF u, v
  <2>2. /\ s \in Int /\ r \in 0 .. n - 1 /\ u = n * s + r
        /\ t \in Int /\ v = n * t + (v % n)
    BY <2>1, DivMod
  <2> HIDE DEF s, t, r
  <2>5. p * (y - x) = n * (t - s)
    BY <2>1, <2>2, <2>3, <2>4
  <2>6. Divides(n, p * (y - x))
    <3>1. t - s \in Int
      BY <2>2
    <3> QED
      BY <2>5, <3>1, Zenon DEF Divides
  <2>7. y - x \in 1 .. n - 1
    BY <1>1
  <2> QED
    BY <2>6, <2>7, CoprimeMultiple
<1> QED
  BY <1>1

\* A list without repetitions has as many members as places.
LEMMA OneToOne ==
  ASSUME NEW n \in Nat, NEW T, NEW W \in [0 .. n - 1 -> T],
         \A k, m \in 0 .. n - 1 : W[k] = W[m] => k = m,
         NEW S, \A x : x \in S <=> \E k \in 0 .. n - 1 : x = W[k]
  PROVE  IsFiniteSet(S) /\ Cardinality(S) = n
<1>1. W \in Bijection(0 .. n - 1, S)
  BY DEF Bijection, Injection, Surjection, IsInjective
<1>2. ExistsBijection(0 .. n - 1, S)
  BY <1>1 DEF ExistsBijection
<1>3. IsFiniteSet(0 .. n - 1) /\ Cardinality(0 .. n - 1) = n
  BY FS_Interval
<1> QED
  BY <1>2, <1>3, FS_Bijection

-----------------------------------------------------------------------------
(* Lines and links.                                                        *)

LEMMA LinkFacts ==
  ASSUME exp \in Shapes, NEW d
  PROVE  /\ \A l \in Lines : LinkOf(d, l) \in Block(d)
         /\ \A l, m \in Lines : LinkOf(d, l) = LinkOf(d, m) => l = m
         /\ \A l \in Lines : Line(LinkOf(d, l)) = l
         /\ \A l \in Lines : Page(LinkOf(d, l)) = PageOf(l)
<1> DEFINE w == exp.links_per_line
           z == exp.lines_per_page
<1>1. w \in Nat \ {0} /\ z \in Nat \ {0} /\ links_per_page = z * w
      /\ Lines \subseteq Nat
  BY ShapeFacts, Sizes DEF links_per_page, Lines
<1>2. \A l \in Lines : LinkOf(d, l) \in Block(d)
  BY LineLink DEF LinkOf, Block, Lines
<1> HIDE DEF w, z
<1>3. ASSUME NEW l \in Lines PROVE (l * w) \div w = l
  <2>1. l * w = w * l + 0 /\ 0 \in 0 .. w - 1 /\ l \in Int
    BY <1>1
  <2> QED
    BY <1>1, <2>1, DivModUnique
<1>4. \A l, m \in Lines : LinkOf(d, l) = LinkOf(d, m) => l = m
  <2>1. \A l, m \in Lines : LinkOf(d, l) = LinkOf(d, m) => l * w = m * w
    BY DEF LinkOf, w
  <2> QED
    BY <1>3, <2>1
<1>5. \A l \in Lines : Line(LinkOf(d, l)) = l
  BY <1>3 DEF Line, LinkOf, w
<1>6. ASSUME NEW l \in Lines PROVE (l * w) \div (z * w) = l \div z
  <2> DEFINE q == l \div z
             r == l % z
  <2>1. q \in Int /\ r \in 0 .. z - 1 /\ l = z * q + r
    BY <1>1, DivMod
  <2> HIDE DEF q, r
  <2>2. l * w = (z * w) * q + r * w
    <3>1. (z * q + r) * w = (z * q) * w + r * w /\ (z * q) * w = (z * w) * q
      BY <1>1, <2>1
    <3> QED
      BY <2>1, <3>1
  <2>3. r * w \in 0 .. (z * w) - 1
    <3>1. r * w + 0 \in 0 .. z * w - 1
      BY <1>1, <2>1, RowMajor
    <3> QED
      BY <1>1, <2>1, <3>1
  <2>4. z * w \in Nat \ {0}
    BY <1>1, ProductPositive
  <2>5. (l * w) \div (z * w) = q
    BY <2>1, <2>2, <2>3, <2>4, DivModUnique
  <2> QED
    BY <2>5 DEF q
<1>7. \A l \in Lines : Page(LinkOf(d, l)) = PageOf(l)
  BY <1>1, <1>6 DEF Page, PageOf, LinkOf, w, z
<1> QED
  BY <1>2, <1>4, <1>5, <1>7

\* What only depends on the shape.
LEMMA SameShape ==
  ASSUME exp' = exp
  PROVE  /\ Chains' = Chains /\ Lines' = Lines /\ LinesToWalk' = LinesToWalk
         /\ lines_per_chain' = lines_per_chain /\ links_per_chain' = links_per_chain
         /\ \A d : Block(d)' = Block(d)
         /\ \A d, l : LinkOf(d, l)' = LinkOf(d, l)
         /\ \A l : PageOf(l)' = PageOf(l)
         /\ Regular' <=> Regular
BY DEF Chains, Lines, LinesToWalk, Block, LinkOf, PageOf, Regular, links_per_chain,
       lines_per_chain, Coprime, Abs

\* Of tours and rings, whatever else changes.
LEMMA SameTour ==
  ASSUME exp' = exp, NEW W, NEW n
  PROVE  (Tour(W, n)' <=> Tour(W, n)) /\ (Complete(W, n)' <=> Complete(W, n))
<1>1. Lines' = Lines /\ LinesToWalk' = LinesToWalk
  BY SameShape
<1>2. Tour(W, n)' <=> Tour(W, n)
  BY <1>1 DEF Tour
<1>3. Grouped(W, n)' <=> Grouped(W, n)
  BY DEF Grouped, PageOf
<1> QED
  BY <1>1, <1>2, <1>3 DEF Complete

\* One more visit, to a line not visited before.
LEMMA ExtendTour ==
  ASSUME TypeInv, NEW d \in Chains, d = c, NEW n \in Nat, local_ops = n,
         NEW W, Tour(W, n), Threaded(d, W, n),
         NEW l \in Lines, \A k \in 0 .. n - 1 : W[k] # l,
         Visit(l * exp.links_per_line), UNCHANGED <<exp, c>>
  PROVE  /\ local_ops' = n + 1
         /\ \E X \in [0 .. n -> Lines] :
              /\ \A k \in 0 .. n - 1 : X[k] = W[k]
              /\ X[n] = l
              /\ Tour(X, n + 1)' /\ Threaded(d, X, n + 1)'
<1> DEFINE X == [k \in 0 .. n |-> IF k = n THEN l ELSE W[k]]
<1>1. /\ local_ops' = n + 1
      /\ prev' = LinkOf(d, l)
      /\ IF root[d] = NULL
           THEN root' = [root EXCEPT ![d] = LinkOf(d, l)] /\ memory' = memory
           ELSE memory' = [memory EXCEPT ![prev] = LinkOf(d, l)] /\ root' = root
  BY DEF Visit, LinkOf
<1>2. /\ Lines' = Lines /\ \A m : LinkOf(d, m)' = LinkOf(d, m)
      /\ exp \in Shapes
  BY SameShape DEF TypeInv
<1>3. \A m \in Lines : LinkOf(d, m) \in Address /\ LinkOf(d, m) # NULL
  BY <1>2, LinkFacts, Blocks
<1>4. W \in [0 .. n - 1 -> Lines] /\ \A k, m \in 0 .. n - 1 : W[k] = W[m] => k = m
  BY DEF Tour
<1>5. /\ X \in [0 .. n -> Lines] /\ (n + 1) - 1 = n
      /\ X[n] = l /\ \A k \in 0 .. n - 1 : X[k] = W[k]
  BY <1>4
<1> HIDE DEF X
<1>6. \A k, m \in 0 .. n : X[k] = X[m] => k = m
  <2>1. \A k \in 0 .. n : k = n \/ k \in 0 .. n - 1
    OBVIOUS
  <2> QED
    BY <1>4, <1>5, <2>1
<1>7. Tour(X, n + 1)'
  BY <1>2, <1>5, <1>6 DEF Tour
<1>8. Threaded(d, X, n + 1)'
  <2>1. CASE n = 0
    <3>1. root'[d] = LinkOf(d, l)
      BY <1>1, <2>1 DEF Threaded, TypeInv
    <3> QED
      BY <1>1, <1>2, <1>5, <2>1, <3>1 DEF Threaded
  <2>2. CASE n # 0
    <3>1. /\ root[d] = LinkOf(d, W[0])
          /\ \A k \in 0 .. n - 2 : memory[LinkOf(d, W[k])] = LinkOf(d, W[k + 1])
          /\ prev = LinkOf(d, W[n - 1])
      BY <2>2 DEF Threaded
    <3>2. W[0] \in Lines /\ W[n - 1] \in Lines /\ X[0] = W[0]
      BY <1>4, <1>5, <2>2
    <3>3. root[d] # NULL
      BY <1>3, <3>1, <3>2
    <3>4. memory' = [memory EXCEPT ![prev] = LinkOf(d, l)] /\ root' = root
      BY <1>1, <3>3
    <3>5. \A a \in Address : memory'[a] = IF a = prev THEN LinkOf(d, l) ELSE memory[a]
      BY <3>4 DEF TypeInv
    <3>6. ASSUME NEW k \in 0 .. n - 1
          PROVE  memory'[LinkOf(d, X[k])] = LinkOf(d, X[k + 1])
      <4>1. X[k] = W[k] /\ W[k] \in Lines /\ LinkOf(d, W[k]) \in Address
        BY <1>3, <1>4, <1>5
      <4>2. CASE k = n - 1
        BY <1>5, <3>1, <3>5, <4>1, <4>2
      <4>3. CASE k # n - 1
        <5>1. k \in 0 .. n - 2 /\ k + 1 \in 0 .. n - 1 /\ n - 1 \in 0 .. n - 1
          BY <4>3
        <5>2. W[k] # W[n - 1]
          BY <1>4, <4>3, <5>1
        <5>3. LinkOf(d, W[k]) # prev
          BY <1>2, <3>1, <3>2, <4>1, <5>2, LinkFacts
        <5> QED
          BY <1>5, <3>1, <3>5, <4>1, <5>1, <5>3
      <4> QED
        BY <4>2, <4>3
    <3>7. /\ (n + 1) - 2 = n - 1 /\ n + 1 # 0
      OBVIOUS
    <3> QED
      BY <1>1, <1>2, <1>5, <3>1, <3>2, <3>4, <3>6, <3>7 DEF Threaded
  <2> QED
    BY <2>1, <2>2
<1> QED
  BY <1>1, <1>5, <1>7, <1>8

-----------------------------------------------------------------------------
(* Steps of the initialisation of a regular chain.                         *)

\* A step that writes nothing.
LEMMA SameThreads ==
  ASSUME UNCHANGED <<exp, root, prev, memory>>, NEW d, NEW W, NEW n, Threaded(d, W, n)
  PROVE  Threaded(d, W, n)'
BY DEF Threaded, LinkOf

LEMMA RingKept ==
  ASSUME exp \in Shapes, exp' = exp, NEW n \in Nat, NEW W \in [0 .. n - 1 -> Lines],
         Ring(0, W, n),
         root'[0] = root[0], \A a \in Block(0) : memory'[a] = memory[a]
  PROVE  Ring(0, W, n)'
<1>1. /\ \A l : LinkOf(0, l)' = LinkOf(0, l)
      /\ Complete(W, n)' <=> Complete(W, n)
  BY SameShape, SameTour
<1>2. \A k \in 0 .. n - 1 : memory'[LinkOf(0, W[k])] = memory[LinkOf(0, W[k])]
  BY LinkFacts
<1>3. n - 1 \in 0 .. n - 1 /\ \A k \in 0 .. n - 2 : k \in 0 .. n - 1
  BY DEF Ring
<1> QED
  BY <1>1, <1>2, <1>3 DEF Ring

\* The first chain is left alone by a step that does not write to it.
LEMMA RingInvKept ==
  ASSUME exp \in Shapes, RingInv, UNCHANGED <<exp, c, ops>>,
         c > 0 => root'[0] = root[0] /\ \A a \in Block(0) : memory'[a] = memory[a]
  PROVE  RingInv'
<1> SUFFICES ASSUME c > 0
             PROVE  /\ ops \in Nat /\ ops = Cardinality(LinesToWalk)
                    /\ \E W \in [0 .. ops - 1 -> Lines] : Ring(0, W, ops)'
  BY SameShape DEF RingInv
<1>1. /\ ops \in Nat /\ ops = Cardinality(LinesToWalk)
      /\ \E W \in [0 .. ops - 1 -> Lines] : Ring(0, W, ops)
  BY DEF RingInv
<1>2. PICK W \in [0 .. ops - 1 -> Lines] : Ring(0, W, ops)
  BY <1>1
<1>3. ASSUME NEW n, n = ops PROVE Ring(0, W, n)'
  BY <1>1, <1>2, <1>3, RingKept
<1>4. Ring(0, W, ops)'
  BY <1>3
<1> QED
  BY <1>1, <1>4

\* A visit writes to the chain being laid out only.
LEMMA VisitWrites ==
  ASSUME ChaseInv, pc \in Building, NEW link, Visit(link), c > 0
  PROVE  root'[0] = root[0] /\ \A a \in Block(0) : memory'[a] = memory[a]
<1>1. c \in Chains /\ 0 \in Chains
  BY ShapeFacts DEF ChaseInv, TypeInv, Chains
<1>2. CASE root[c] = NULL
  BY <1>1, <1>2 DEF Visit, ChaseInv, TypeInv
<1>3. CASE root[c] # NULL
  <2>1. prev \in Block(c)
    BY <1>1, <1>3 DEF ChaseInv, LayoutInv, Unwritten, Begun
  <2>2. memory' = [memory EXCEPT ![prev] = <<c, link>>] /\ root' = root
    BY <1>3 DEF Visit
  <2>3. \A a \in Block(0) : a # prev /\ a \in Address
    BY <1>1, <2>1, Blocks
  <2> QED
    BY <2>2, <2>3 DEF ChaseInv, TypeInv
<1> QED
  BY <1>2, <1>3

\* The line selected by interval and offset.
RandomLine == PageAt(i) * exp.lines_per_page + LineAt(j)

LEMMA RandomLineFacts ==
  ASSUME TypeInv
  PROVE  /\ PageAt(i) \in 0 .. exp.pages_per_chain - 1
         /\ LineAt(j) \in 0 .. exp.lines_per_page - 1
         /\ RandomLine \in Lines
         /\ PageOf(RandomLine) = PageAt(i)
         /\ RandomLink = RandomLine * exp.links_per_line
<1> DEFINE z == exp.lines_per_page
           n == exp.pages_per_chain
           w == exp.links_per_line
<1>1. z \in Nat \ {0} /\ n \in Nat \ {0} /\ w \in Nat \ {0}
  BY ShapeFacts DEF TypeInv
<1>2. PageAt(i) \in 0 .. n - 1
  <2>1. page_factor * i + page_offset \in Int
    BY DEF TypeInv
  <2> HIDE DEF n
  <2>2. (page_factor * i + page_offset) % n \in 0 .. n - 1
    BY <1>1, <2>1, DivMod
  <2> QED
    BY <2>2 DEF PageAt, n
<1>3. LineAt(j) \in 0 .. z - 1
  <2>1. line_factor * j + line_offset \in Int
    BY DEF TypeInv
  <2> HIDE DEF z
  <2>2. (line_factor * j + line_offset) % z \in 0 .. z - 1
    BY <1>1, <2>1, DivMod
  <2> QED
    BY <2>2 DEF LineAt, z
<1>4. RandomLine = PageAt(i) * z + LineAt(j)
  BY DEF RandomLine
<1>5. RandomLink = PageAt(i) * (z * w) + LineAt(j) * w
  BY DEF RandomLink, page, line_within_page, PageAt, LineAt, links_per_page
<1>6. Lines = 0 .. z * n - 1
  BY DEF Lines, lines_per_chain
<1>7. PageOf(RandomLine) = RandomLine \div z
  BY DEF PageOf
<1> HIDE DEF z, n, w
<1>8. RandomLine \in Lines
  <2>1. PageAt(i) * z + LineAt(j) \in 0 .. n * z - 1
    BY <1>1, <1>2, <1>3, RowMajor
  <2>2. n * z = z * n
    BY <1>1
  <2> QED
    BY <1>4, <1>6, <2>1, <2>2
<1>9. PageOf(RandomLine) = PageAt(i)
  <2>1. PageAt(i) * z + LineAt(j) = z * PageAt(i) + LineAt(j)
    BY <1>1, <1>2
  <2>2. PageAt(i) \in Int
    BY <1>1, <1>2
  <2>3. (z * PageAt(i) + LineAt(j)) \div z = PageAt(i)
    BY <1>1, <1>3, <2>2, DivModUnique
  <2> QED
    BY <1>4, <1>7, <2>1, <2>3
<1>10. RandomLink = RandomLine * w
  <2>1. ASSUME NEW a \in Int, NEW b \in Int
        PROVE  a * (z * w) + b * w = (a * z + b) * w
    BY <1>1
  <2> QED
    BY <1>2, <1>3, <1>4, <1>5, <2>1
<1> QED
  BY <1>2, <1>3, <1>8, <1>9, <1>10 DEF z, n, w

\* Chains of a regular shape.
RegularInv == ChaseInv /\ Regular /\ BuildInv /\ RingInv /\ CallInv

\* Steps that prepare the next visits keep the tour.
LEMMA PrepareTour ==
  ASSUME RegularInv, SelectPages \/ SelectLines \/ NextPage \/ StartStrided
  PROVE  BuildInv' /\ RingInv' /\ CallInv'
<1> USE DEF RegularInv
<1>1. /\ UNCHANGED <<exp, c, root, prev, memory, ops>>
      /\ pc \in Building /\ pc' \in {"page", "line", "forward", "reverse"}
      /\ exp \in Shapes
  BY DEF SelectPages, SelectLines, NextPage, StartStrided, ChaseInv, TypeInv, Building
<1>2. RingInv'
  BY <1>1, RingInvKept
<1>3. CallInv'
  BY <1>1 DEF CallInv, Coverage
<1>4. Lines' = Lines
  BY <1>1, SameShape
<1>5. /\ exp.lines_per_page \in Nat \ {0} /\ exp.pages_per_chain \in Nat \ {0}
      /\ exp.stride \in Int
  BY <1>1, ShapeFacts
<1>6. CASE pc = "chain"
  <2>1. local_ops' = 0 /\ pc' \in {"page", "forward", "reverse"}
    BY <1>6 DEF SelectPages, SelectLines, NextPage, StartStrided
  <2> DEFINE W == [k \in 0 .. 0 - 1 |-> 0]
  <2>2. W \in [0 .. 0 - 1 -> Lines] /\ 0 .. 0 - 1 = {}
    OBVIOUS
  <2> HIDE DEF W
  <2>3. Tour(W, 0)'
    BY <1>4, <2>2 DEF Tour
  <2>4. root[c] = NULL
    BY <1>6 DEF BuildInv
  <2>5. ASSUME NEW d, d = c PROVE Threaded(d, W, 0)'
    BY <1>1, <2>4, <2>5 DEF Threaded
  <2>6. Selected(W, 0)'
    <3>1. CASE SelectPages
      BY <1>5, <2>2, <3>1 DEF SelectPages, Selected, RandomTour
    <3>2. CASE StartStrided
      <4>1. last' = last
        BY <1>1 DEF last, lines_per_chain
      <4>2. exp.stride < 0 => last \in Int
        BY <1>1, LastInChain
      <4>3. CASE Forward /\ i' = 0 /\ pc' = "forward"
        BY <1>1, <1>5, <2>2, <4>3 DEF Selected, Forward
      <4>4. CASE Reverse /\ i' = last /\ pc' = "reverse"
        BY <1>1, <1>5, <2>2, <4>1, <4>2, <4>4 DEF Selected, Reverse
      <4> QED
        BY <3>2, <4>3, <4>4 DEF StartStrided
    <3> QED
      BY <1>6, <3>1, <3>2 DEF SelectLines, NextPage
  <2>7. Threaded(c, W, 0)'
    BY <1>1, <2>5
  <2> QED
    BY <1>1, <1>2, <1>3, <1>4, <2>1, <2>2, <2>3, <2>6, <2>7 DEF BuildInv
<1>7. CASE pc # "chain"
  <2>1. /\ UNCHANGED <<local_ops, page_factor, page_offset>>
        /\ (pc = "page" /\ SelectLines) \/ (pc = "line" /\ NextPage)
    BY <1>7 DEF SelectPages, SelectLines, NextPage, StartStrided, selection
  <2>2. local_ops \in Nat
    BY <2>1 DEF BuildInv, Building
  <2>3. PICK W \in [0 .. local_ops - 1 -> Lines] :
           Tour(W, local_ops) /\ Threaded(c, W, local_ops) /\ Selected(W, local_ops)
    BY <2>1 DEF BuildInv, Building
  <2>4. ASSUME NEW n, n = local_ops, NEW d, d = c
        PROVE  Tour(W, n)' /\ Threaded(d, W, n)' /\ Selected(W, n)'
    <3>1. Tour(W, n)' /\ Threaded(d, W, n)'
      BY <1>1, <2>3, <2>4, SameTour, SameThreads
    <3>2. RandomTour(W, n)'
      <4>1. RandomTour(W, n)
        BY <2>1, <2>3, <2>4 DEF Selected
      <4> QED
        BY <1>1, <2>1, <4>1 DEF RandomTour, PageAt, PageOf
    <3>3. CASE pc = "page" /\ SelectLines
      <4>1. i \in 0 .. exp.pages_per_chain /\ n = i * exp.lines_per_page
        BY <2>3, <2>4, <3>3 DEF Selected
      <4>2. /\ pc' = "line" /\ line_factor' \in Primes /\ i' = i /\ j' = 0
            /\ i < exp.pages_per_chain
        BY <3>3 DEF SelectLines
      <4> QED
        BY <1>1, <1>5, <3>1, <3>2, <4>1, <4>2 DEF Selected
    <3>4. CASE pc = "line" /\ NextPage
      <4>1. /\ i \in 0 .. exp.pages_per_chain - 1 /\ j \in 0 .. exp.lines_per_page
            /\ n = i * exp.lines_per_page + j
        BY <2>3, <2>4, <3>4 DEF Selected
      <4>2. pc' = "page" /\ i' = i + 1 /\ j = exp.lines_per_page
        BY <1>5, <3>4, <4>1 DEF NextPage
      <4>3. n = (i + 1) * exp.lines_per_page
        <5>1. ASSUME NEW a \in Int, NEW b \in Int PROVE a * b + b = (a + 1) * b
          OBVIOUS
        <5>2. i \in Int /\ exp.lines_per_page \in Int
          BY <1>5, <4>1
        <5>3. i * exp.lines_per_page + exp.lines_per_page = (i + 1) * exp.lines_per_page
          BY <5>1, <5>2, Zenon
        <5> QED
          BY <4>1, <4>2, <5>3
      <4> QED
        BY <1>1, <1>5, <3>1, <3>2, <4>1, <4>2, <4>3 DEF Selected
    <3> QED
      BY <2>1, <3>3, <3>4
  <2>5. Tour(W, local_ops)' /\ Threaded(c, W, local_ops)' /\ Selected(W, local_ops)'
    BY <1>1, <2>1, <2>4
  <2> QED
    BY <1>1, <1>2, <1>3, <1>4, <2>1, <2>2, <2>5 DEF BuildInv
<1> QED
  BY <1>2, <1>3, <1>6, <1>7

\* A visit of one more line of a regular chain.
LEMMA VisitTour ==
  ASSUME RegularInv, VisitLine \/ VisitForward \/ VisitReverse
  PROVE  BuildInv' /\ RingInv' /\ CallInv'
<1> USE DEF RegularInv
<1>1. /\ UNCHANGED <<exp, pc, c, selection, ops>> /\ pc \in {"line", "forward", "reverse"}
      /\ exp \in Shapes /\ i \in Int /\ j \in Int /\ c \in Chains /\ TypeInv
  <2>1. UNCHANGED <<exp, pc, c, selection, ops>> /\ pc \in {"line", "forward", "reverse"}
    BY DEF VisitLine, VisitForward, VisitReverse
  <2>2. TypeInv
    BY DEF ChaseInv
  <2>3. exp \in Shapes /\ i \in Int /\ j \in Int
    BY <2>2 DEF TypeInv
  <2>4. c \in Chains
    BY <2>1, <2>2, <2>3, ShapeFacts DEF TypeInv, Building, Chains
  <2> QED
    BY <2>1, <2>2, <2>3, <2>4
<1>2. /\ exp.lines_per_page \in Nat \ {0} /\ exp.pages_per_chain \in Nat \ {0}
      /\ exp.stride \in Int
  BY <1>1, ShapeFacts
<1>3. PICK link \in Int : Visit(link)
  <2>1. CASE VisitLine
    <3>1. RandomLink \in Int
      BY <1>1, RandomLinkInChain, Sizes
    <3> QED
      BY <2>1, <3>1 DEF VisitLine
  <2>2. CASE VisitForward \/ VisitReverse
    <3>1. i * exp.links_per_line \in Int
      BY <1>1, ShapeFacts
    <3> QED
      BY <2>2, <3>1 DEF VisitForward, VisitReverse
  <2> QED
    BY <2>1, <2>2
<1>4. RingInv'
  <2>1. c > 0 => root'[0] = root[0] /\ \A a \in Block(0) : memory'[a] = memory[a]
    BY <1>1, <1>3, VisitWrites DEF Building
  <2> QED
    BY <1>1, <2>1, RingInvKept
<1>5. CallInv'
  BY <1>1 DEF CallInv, Coverage
<1>6. Lines' = Lines /\ lines_per_chain \in Nat \ {0}
  BY <1>1, SameShape, Sizes
<1>7. local_ops \in Nat
  BY <1>1 DEF BuildInv, Building
<1>8. PICK W \in [0 .. local_ops - 1 -> Lines] :
         Tour(W, local_ops) /\ Threaded(c, W, local_ops) /\ Selected(W, local_ops)
  BY <1>1 DEF BuildInv, Building
\* The next line is one not visited before, and lengthens the tour.
<1>9. ASSUME NEW n, n = local_ops, NEW d, d = c
      PROVE  \E X \in [0 .. n -> Lines] :
               local_ops' = n + 1 /\ Tour(X, n + 1)' /\ Threaded(d, X, n + 1)'
               /\ Selected(X, n + 1)'
  <2>1. /\ n \in Nat /\ d \in Chains /\ Tour(W, n) /\ Threaded(d, W, n)
        /\ W \in [0 .. n - 1 -> Lines]
    BY <1>1, <1>7, <1>8, <1>9
  <2>2. CASE VisitLine
    <3> DEFINE z == exp.lines_per_page
    <3>1. /\ RandomTour(W, n) /\ line_factor \in Primes /\ pc = "line"
          /\ i \in 0 .. exp.pages_per_chain - 1 /\ j \in 0 .. z /\ n = i * z + j
          /\ \A m \in 0 .. j - 1 : W[i * z + m] = PageAt(i) * z + LineAt(m)
          /\ exp.access_pattern = "random" /\ page_factor \in Primes
          /\ \A k \in 0 .. n - 1 : PageOf(W[k]) = PageAt(k \div z)
      BY <1>8, <1>9, <2>2 DEF VisitLine, Selected, RandomTour
    <3>2. j < z /\ Visit(RandomLink) /\ j' = j + 1 /\ i' = i
      BY <2>2 DEF VisitLine
    <3>3. z \in Nat \ {0}
      BY <1>2
    <3>4. PageAt(i)' = PageAt(i) /\ z' = z
      BY <1>1, <3>2 DEF PageAt, selection
    <3>5. /\ Coprime(page_factor, exp.pages_per_chain) /\ page_factor \in Nat
          /\ Coprime(line_factor, z) /\ line_factor \in Nat
          /\ page_offset \in Int /\ line_offset \in Int
      BY <1>1, <3>1, ShapeFacts DEF Regular, TypeInv
    <3>6. /\ PageAt(i) \in 0 .. exp.pages_per_chain - 1 /\ LineAt(j) \in 0 .. z - 1
          /\ RandomLine \in Lines /\ PageOf(RandomLine) = PageAt(i)
          /\ RandomLink = RandomLine * exp.links_per_line
      BY <1>1, RandomLineFacts
    <3>7. RandomLine = PageAt(i) * z + LineAt(j)
      BY DEF RandomLine
    <3>8. \A a, b \in 0 .. exp.pages_per_chain - 1 : PageAt(a) = PageAt(b) => a = b
      BY <1>2, <3>5, DifferentPlaces DEF PageAt
    <3>9. \A a, b \in 0 .. z - 1 : LineAt(a) = LineAt(b) => a = b
      BY <1>2, <3>5, DifferentPlaces DEF LineAt
    <3>10. \A m : LineAt(m)' = LineAt(m) /\ PageAt(m)' = PageAt(m) /\ PageOf(m)' = PageOf(m)
      BY <1>1 DEF LineAt, PageAt, PageOf, selection
    <3> HIDE DEF z
    <3>11. ASSUME NEW k \in 0 .. n - 1
           PROVE  /\ k \div z \in 0 .. i
                  /\ k \div z = i => k - i * z \in 0 .. j - 1 /\ k = i * z + (k - i * z)
      <4> DEFINE q == k \div z
                 r == k % z
      <4>1. q \in Int /\ r \in 0 .. z - 1 /\ k = z * q + r
        BY <3>3, DivMod
      <4> HIDE DEF q, r
      <4>2. z * i = i * z /\ i * z \in Int /\ z * (i + 1) = i * z + z
        BY <3>1, <3>3
      <4>3. q <= i
        <5>1. i + 1 <= q => z * (i + 1) <= z * q
          BY <3>1, <3>3, <4>1, MulMono
        <5>2. z * q \in Int
          BY <3>3, <4>1
        <5>3. z * q < i * z + z
          <6>1. k < n /\ n < i * z + z /\ r >= 0 /\ r \in Int /\ k \in Int /\ n \in Int
            <7>1. k < n /\ k \in Int /\ n \in Int
              BY <2>1
            <7>2. r >= 0 /\ r \in Int
              BY <3>3, <4>1
            <7>3. n < i * z + z
              <8> DEFINE x == i * z
              <8>1. x \in Int /\ n = x + j /\ j \in Int /\ j < z
                BY <3>1, <3>2, <3>3, <4>2
              <8> HIDE DEF x
              <8>2. n < x + z
                BY <3>3, <8>1
              <8> QED
                BY <8>2 DEF x
            <7> QED
              BY <7>1, <7>2, <7>3
          <6> DEFINE x == i * z
                     y == z * q
          <6>2. x \in Int /\ y \in Int /\ z \in Int /\ n < x + z /\ k = y + r
            BY <3>3, <4>1, <4>2, <5>2, <6>1
          <6> HIDE DEF x, y
          <6>3. y < x + z
            BY <6>1, <6>2
          <6> QED
            BY <6>3 DEF x, y
        <5>4. ~(i + 1 <= q)
          <6> SUFFICES ASSUME z * (i + 1) <= z * q PROVE FALSE
            BY <5>1
          <6> QED
            BY <3>3, <4>2, <5>2, <5>3
        <5> QED
          BY <1>1, <4>1, <5>4
      <4>4. q >= 0
        <5>1. q <= -1 => z * q <= z * (-1)
          BY <3>3, <4>1, MulMono
        <5>2. z * (-1) = -z /\ z * q \in Int
          BY <3>3, <4>1
        <5> QED
          BY <3>3, <4>1, <5>1, <5>2
      <4>5. q = i => k - i * z \in 0 .. j - 1 /\ k = i * z + (k - i * z)
        BY <3>1, <4>1, <4>2
      <4>6. q \in 0 .. i
        BY <3>1, <4>1, <4>3, <4>4
      <4> QED
        BY <4>5, <4>6 DEF q
    <3>12. \A k \in 0 .. n - 1 : W[k] # RandomLine
      <4> SUFFICES ASSUME NEW k \in 0 .. n - 1, W[k] = RandomLine PROVE FALSE
        OBVIOUS
      <4>1. PageAt(k \div z) = PageAt(i)
        BY <3>1, <3>6
      <4>2. k \div z \in 0 .. exp.pages_per_chain - 1 /\ i \in 0 .. exp.pages_per_chain - 1
        BY <1>2, <3>1, <3>11
      <4>3. k \div z = i
        BY <3>8, <4>1, <4>2
      <4>4. PICK m \in 0 .. j - 1 : k = i * z + m
        BY <3>11, <4>3
      <4>5. W[k] = PageAt(i) * z + LineAt(m)
        BY <3>1, <4>4
      <4>6. m \in 0 .. z - 1 /\ j \in 0 .. z - 1 /\ m # j
        BY <3>1, <3>2, <3>3, <4>4
      <4>7. LineAt(m) \in Int /\ PageAt(i) * z \in Int
        <5>1. line_factor * m + line_offset \in Int
          BY <3>5, <4>4
        <5>2. (line_factor * m + line_offset) % z \in Int
          BY <3>3, <5>1, DivMod
        <5> QED
          BY <3>3, <3>6, <5>2 DEF LineAt, z
      <4>8. LineAt(m) = LineAt(j)
        BY <3>6, <3>7, <4>5, <4>7
      <4> QED
        BY <3>9, <4>6, <4>8
    <3>13. PICK X \in [0 .. n -> Lines] :
             /\ \A k \in 0 .. n - 1 : X[k] = W[k]
             /\ X[n] = RandomLine
             /\ Tour(X, n + 1)' /\ Threaded(d, X, n + 1)'
             /\ local_ops' = n + 1
      <4>1. TypeInv /\ d = c /\ local_ops = n /\ UNCHANGED <<exp, c>>
        BY <1>1, <1>9
      <4>2. Visit(RandomLine * exp.links_per_line)
        BY <3>2, <3>6
      <4> QED
        BY <2>1, <3>6, <3>12, <4>1, <4>2, ExtendTour
    <3>14. n \div z = i
      <4>1. j \in 0 .. z - 1 /\ n = z * i + j
        BY <3>1, <3>2, <3>3
      <4> QED
        BY <1>1, <3>3, <4>1, DivModUnique
    <3>15. \A k \in 0 .. (n + 1) - 1 : PageOf(X[k]) = PageAt(k \div z)
      <4>1. \A k \in 0 .. (n + 1) - 1 : k = n \/ k \in 0 .. n - 1
        BY <2>1
      <4> QED
        BY <3>1, <3>6, <3>13, <3>14, <4>1
    <3>16. \A m \in 0 .. (j + 1) - 1 : X[i * z + m] = PageAt(i) * z + LineAt(m)
      <4> SUFFICES ASSUME NEW m \in 0 .. j PROVE X[i * z + m] = PageAt(i) * z + LineAt(m)
        BY <3>1
      <4>1. CASE m = j
        BY <3>1, <3>7, <3>13, <4>1
      <4>2. CASE m # j
        <5>1. m \in 0 .. j - 1 /\ i * z >= 0 /\ i * z \in Int
          BY <3>1, <3>3, <4>2
        <5>2. i * z + m \in 0 .. n - 1
          BY <3>1, <5>1
        <5> QED
          BY <3>1, <3>13, <5>1, <5>2
      <4> QED
        BY <4>1, <4>2
    <3>17. n + 1 = i * z + (j + 1) /\ j + 1 \in 0 .. z
      <4>1. i * z \in Int
        BY <3>1, <3>3
      <4> QED
        BY <3>1, <3>2, <3>3, <4>1
    <3>18. RandomTour(X, n + 1)'
      BY <1>1, <3>1, <3>10, <3>15 DEF RandomTour, selection, z
    <3>19. Selected(X, n + 1)'
      BY <1>1, <3>1, <3>2, <3>10, <3>16, <3>17, <3>18 DEF Selected, selection, z
    <3> QED
      BY <3>13, <3>19
  <2>3. CASE VisitForward \/ VisitReverse
    <3> DEFINE s == exp.stride
               f == IF pc = "forward" THEN 0 ELSE last
    <3>1. /\ f \in Int /\ s \in Int /\ s # 0
          /\ i = f + n * s
          /\ \A k \in 0 .. n - 1 : W[k] = f + k * s
          /\ Visit(i * exp.links_per_line) /\ i' = i + s
          /\ pc \in {"forward", "reverse"}
          /\ pc = "forward" => Forward
          /\ pc = "reverse" => Reverse
      <4>1. s \in Int \ {0}
        BY <1>1, ShapeFacts
      <4>2. CASE VisitForward
        <5>1. pc = "forward" /\ Forward /\ i = n * s /\ \A k \in 0 .. n - 1 : W[k] = k * s
          BY <1>8, <1>9, <4>2 DEF VisitForward, Selected
        <5> QED
          BY <2>1, <4>1, <4>2, <5>1 DEF VisitForward
      <4>3. CASE VisitReverse
        <5>1. /\ pc = "reverse" /\ Reverse /\ i = last + n * s
              /\ \A k \in 0 .. n - 1 : W[k] = last + k * s
          BY <1>8, <1>9, <4>3 DEF VisitReverse, Selected
        <5>2. last \in Int
          BY <1>1, <5>1, LastInChain DEF Reverse
        <5> QED
          BY <4>1, <4>3, <5>1, <5>2 DEF VisitReverse
      <4> QED
        BY <2>3, <4>2, <4>3
    <3>2. i \in Lines
      BY <1>1, <1>6, <2>3 DEF VisitForward, VisitReverse, ChaseInv, VisitInv, Lines
    <3>3. last' = last
      BY <1>1 DEF last, lines_per_chain
    <3> HIDE DEF s, f
    <3>4. \A k \in 0 .. n - 1 : W[k] # i
      <4> SUFFICES ASSUME NEW k \in 0 .. n - 1, W[k] = i PROVE FALSE
        OBVIOUS
      <4>1. (n - k) * s = 0
        <5>1. (n - k) * s = n * s - k * s /\ n * s \in Int /\ k * s \in Int
          BY <2>1, <3>1
        <5> QED
          BY <3>1, <5>1
      <4> QED
        BY <2>1, <3>1, <4>1
    <3>5. PICK X \in [0 .. n -> Lines] :
            /\ \A k \in 0 .. n - 1 : X[k] = W[k]
            /\ X[n] = i
            /\ Tour(X, n + 1)' /\ Threaded(d, X, n + 1)'
            /\ local_ops' = n + 1
      <4>1. Visit(i * exp.links_per_line)
        BY <3>1
      <4> QED
        BY <1>1, <1>9, <2>1, <3>2, <3>4, <4>1, ExtendTour
    <3>6. \A k \in 0 .. (n + 1) - 1 : X[k] = f + k * s
      <4>1. \A k \in 0 .. (n + 1) - 1 : k = n \/ k \in 0 .. n - 1
        BY <2>1
      <4> QED
        BY <3>1, <3>5, <4>1
    <3>7. i' = f + (n + 1) * s
      <4>1. (n + 1) * s = n * s + s /\ n * s \in Int
        BY <2>1, <3>1
      <4> QED
        BY <3>1, <4>1
    <3>8. Selected(X, n + 1)'
      <4>1. CASE pc = "forward"
        <5>1. f = 0
          BY <4>1 DEF f
        <5>2. \A m \in Int : 0 + m * s = m * s
          BY <3>1
        <5>3. i' = (n + 1) * s /\ \A k \in 0 .. (n + 1) - 1 : X[k] = k * s
          BY <2>1, <3>6, <3>7, <5>1, <5>2
        <5> QED
          BY <1>1, <3>1, <4>1, <5>3 DEF Selected, Forward, s
      <4>2. CASE pc = "reverse"
        BY <1>1, <3>1, <3>3, <3>6, <3>7, <4>2 DEF Selected, Reverse, s, f
      <4> QED
        BY <3>1, <4>1, <4>2
    <3> QED
      BY <3>5, <3>8
  <2> QED
    BY <2>2, <2>3
<1>10. \E X \in [0 .. local_ops -> Lines] :
         /\ local_ops' = local_ops + 1
         /\ Tour(X, local_ops)' /\ Threaded(c, X, local_ops)' /\ Selected(X, local_ops)'
  <2>1. \A n, d : n = local_ops /\ d = c =>
          \E X \in [0 .. n -> Lines] :
               local_ops' = n + 1 /\ Tour(X, n + 1)' /\ Threaded(d, X, n + 1)'
               /\ Selected(X, n + 1)'
    BY <1>9
  <2> QED
    BY <1>1, <2>1
<1>11. local_ops' \in Nat /\ local_ops' - 1 = local_ops
  BY <1>7, <1>10
<1> QED
  BY <1>1, <1>4, <1>5, <1>6, <1>10, <1>11 DEF BuildInv

-----------------------------------------------------------------------------
(* Finished tours.                                                         *)

LEMMA CompleteCount ==
  ASSUME exp \in Shapes, NEW n \in Nat, NEW W \in [0 .. n - 1 -> Lines], Complete(W, n)
  PROVE  n = Cardinality(LinesToWalk) /\ n <= links_per_chain
<1> DEFINE S == {W[k] : k \in 0 .. n - 1}
<1>0. \A k, m \in 0 .. n - 1 : W[k] = W[m] => k = m
  BY DEF Complete, Tour
<1>1. IsFiniteSet(S) /\ Cardinality(S) = n
  <2>1. \A x : x \in S <=> \E k \in 0 .. n - 1 : x = W[k]
    OBVIOUS
  <2> HIDE DEF S
  <2> QED
    BY <1>0, <2>1, OneToOne
<1>2. S = LinesToWalk
  BY DEF Complete
<1>3. n <= lines_per_chain
  <2>1. lines_per_chain \in Nat \ {0}
    BY Sizes
  <2>2. IsFiniteSet(Lines) /\ Cardinality(Lines) = lines_per_chain
    <3>1. 0 \in Int /\ lines_per_chain - 1 \in Int /\ ~(0 > lines_per_chain - 1)
      BY <2>1
    <3>2. /\ IsFiniteSet(0 .. lines_per_chain - 1)
          /\ Cardinality(0 .. lines_per_chain - 1) = (lines_per_chain - 1) - 0 + 1
      BY <3>1, FS_Interval
    <3> QED
      BY <2>1, <3>2 DEF Lines
  <2>3. S \in SUBSET Lines
    OBVIOUS
  <2> QED
    BY <1>1, <2>2, <2>3, FS_Subset
<1>4. lines_per_chain <= links_per_chain
  <2>1. ASSUME NEW a \in Nat, NEW b \in Nat \ {0} PROVE a <= a * b
    <3>1. a * 1 <= a * b
      BY MulMono
    <3> QED
      BY <3>1
  <2> QED
    BY <2>1, Sizes, ShapeFacts
<1>5. n <= links_per_chain
  BY <1>3, <1>4, Sizes
<1>6. n = Cardinality(LinesToWalk)
  BY <1>1, <1>2
<1> QED
  BY <1>5, <1>6

LEMMA CompleteRandom ==
  ASSUME exp \in Shapes, NEW n, n = exp.pages_per_chain * exp.lines_per_page,
         NEW W, Tour(W, n), RandomTour(W, n)
  PROVE  n \in Nat \ {0} /\ Complete(W, n)
<1>1. n \in Nat \ {0} /\ n = lines_per_chain
  <2>1. /\ exp.pages_per_chain \in Nat \ {0} /\ exp.lines_per_page \in Nat \ {0}
    BY ShapeFacts
  <2>2. exp.pages_per_chain * exp.lines_per_page = exp.lines_per_page * exp.pages_per_chain
    BY <2>1
  <2> QED
    BY <2>1, <2>2, ProductPositive DEF lines_per_chain
<1>2. /\ W \in [0 .. n - 1 -> Lines] /\ Lines = 0 .. n - 1
      /\ \A k, m \in 0 .. n - 1 : W[k] = W[m] => k = m
  BY <1>1 DEF Tour, Lines
<1> DEFINE S == {W[k] : k \in 0 .. n - 1}
<1>3. Cardinality(S) = n
  <2>1. n \in Nat
    BY <1>1
  <2>2. \A x : x \in S <=> \E k \in 0 .. n - 1 : x = W[k]
    OBVIOUS
  <2> HIDE DEF S
  <2> QED
    BY <1>2, <2>1, <2>2, OneToOne
<1>4. IsFiniteSet(Lines) /\ Cardinality(Lines) = n
  BY <1>1, <1>2, FS_Interval
<1>5. S \in SUBSET Lines
  BY <1>2
<1> HIDE DEF S
<1>6. S = Lines
  BY <1>3, <1>4, <1>5, FS_Subset
<1>7. S = LinesToWalk
  BY <1>6 DEF LinesToWalk, Lines, RandomTour
<1>8. Grouped(W, n)
  BY DEF Grouped, RandomTour
<1> QED
  BY <1>1, <1>7, <1>8 DEF Complete, S

LEMMA CompleteForward ==
  ASSUME exp \in Shapes, Forward, NEW n \in Nat, NEW W, Tour(W, n),
         \A k \in 0 .. n - 1 : W[k] = k * exp.stride,
         ~(n * exp.stride < lines_per_chain)
  PROVE  n # 0 /\ Complete(W, n)
<1> DEFINE s == exp.stride
<1>1. s \in Nat \ {0} /\ lines_per_chain \in Nat \ {0} /\ Abs(s) = s
  BY ShapeFacts, Sizes DEF Forward, Abs
<1>2. W \in [0 .. n - 1 -> Lines]
  BY DEF Tour
<1>3. LinesToWalk = {l \in Lines : l % s = 0}
  BY <1>1 DEF LinesToWalk, Lines, Forward
<1>4. \A k \in 0 .. n - 1 : W[k] = k * s
  OBVIOUS
<1>5. n * s >= lines_per_chain
  BY <1>1
<1>6. s = 1 => Grouped(W, n)
  <2> SUFFICES ASSUME s = 1 PROVE \A k \in 0 .. n - 1 : W[k] = k
    BY DEF Grouped, PageOf
  <2> QED
    OBVIOUS
<1> HIDE DEF s
<1>7. n # 0
  BY <1>1, <1>5
<1>8. ASSUME NEW k \in 0 .. n - 1 PROVE W[k] \in LinesToWalk
  <2>1. W[k] = s * k + 0 /\ k \in Int /\ 0 \in 0 .. s - 1
    BY <1>1, <1>4
  <2>2. W[k] % s = 0
    BY <1>1, <2>1, DivModUnique
  <2> QED
    BY <1>2, <1>3, <2>2
<1>9. ASSUME NEW l \in LinesToWalk PROVE \E k \in 0 .. n - 1 : W[k] = l
  <2> DEFINE q == l \div s
             r == l % s
  <2>1. l \in 0 .. lines_per_chain - 1 /\ r = 0
    BY <1>3 DEF Lines
  <2>2. q \in Int /\ l = s * q + r
    <3>1. l \in Int
      BY <2>1
    <3> QED
      BY <1>1, <3>1, DivMod, Zenon
  <2> HIDE DEF q, r
  <2>3. l = q * s
    BY <1>1, <2>1, <2>2
  <2>4. q >= 0
    <3>1. ASSUME q <= -1 PROVE s * q <= s * (-1)
      BY <1>1, <2>2, <3>1, MulMono
    <3> QED
      BY <1>1, <2>1, <2>2, <3>1
  <2>5. q < n
    <3>1. ASSUME n <= q PROVE s * n <= s * q
      BY <1>1, <2>2, <3>1, MulMono
    <3> QED
      BY <1>1, <1>5, <2>1, <2>2, <3>1
  <2> QED
    BY <1>4, <2>2, <2>3, <2>4, <2>5
<1>10. {W[k] : k \in 0 .. n - 1} = LinesToWalk
  BY <1>8, <1>9
<1> QED
  BY <1>1, <1>6, <1>7, <1>10 DEF Complete, s

LEMMA CompleteReverse ==
  ASSUME exp \in Shapes, Reverse, NEW n \in Nat, NEW W, Tour(W, n),
         \A k \in 0 .. n - 1 : W[k] = last + k * exp.stride,
         ~(0 <= last + n * exp.stride)
  PROVE  n # 0 /\ Complete(W, n)
<1> DEFINE s == -exp.stride
           size == lines_per_chain
           top == (size - 1) \div s
<1>1. /\ s \in Nat \ {0} /\ size \in Nat \ {0} /\ Abs(exp.stride) = s
      /\ exp.stride = -s
  BY ShapeFacts, Sizes DEF Reverse, Abs
<1>2. W \in [0 .. n - 1 -> Lines] /\ Lines = 0 .. size - 1
  BY DEF Tour, Lines
<1>3. LinesToWalk = {l \in Lines : l % s = 0}
  BY <1>1 DEF LinesToWalk, Lines, Reverse
<1>4. last = top * s
  BY DEF last
<1>5. last \in 0 .. size - 1
  BY LastInChain DEF Reverse
<1> HIDE DEF size
<1>6. top \in Int /\ (size - 1) % s \in 0 .. s - 1 /\ size - 1 = s * top + ((size - 1) % s)
  <2>1. size - 1 \in Int
    BY <1>1
  <2> QED
    BY <1>1, <2>1, DivMod, Zenon
<1>7. /\ \A k \in 0 .. n - 1 : W[k] = last + k * exp.stride
      /\ last + n * exp.stride < 0
  BY <1>1, <1>5
<1> HIDE DEF s, top
<1>8. /\ \A k \in 0 .. n - 1 : W[k] = s * (top - k)
      /\ s * (top - n) < 0
  <2>1. \A k \in Int : top * s + k * (-s) = s * (top - k)
    BY <1>1, <1>6
  <2> QED
    BY <1>1, <1>4, <1>7, <2>1
<1>9. n # 0
  BY <1>1, <1>4, <1>5, <1>7
<1>10. ASSUME NEW k \in 0 .. n - 1 PROVE W[k] \in LinesToWalk
  <2>1. W[k] = s * (top - k) + 0 /\ top - k \in Int /\ 0 \in 0 .. s - 1
    BY <1>1, <1>2, <1>6, <1>8
  <2>2. W[k] % s = 0
    <3>1. (s * (top - k) + 0) % s = 0
      BY <1>1, <2>1, DivModUnique, Zenon
    <3> QED
      BY <2>1, <3>1
  <2> QED
    BY <1>2, <1>3, <2>2
<1>11. top < n
  <2>1. ASSUME n <= top PROVE s * 0 <= s * (top - n)
    BY <1>1, <1>6, <2>1, MulMono
  <2> QED
    BY <1>1, <1>6, <1>8, <2>1
<1>12. ASSUME NEW l \in LinesToWalk PROVE \E k \in 0 .. n - 1 : W[k] = l
  <2> DEFINE q == l \div s
             r == l % s
  <2>1. l \in 0 .. size - 1 /\ r = 0
    BY <1>2, <1>3
  <2>2. q \in Int /\ l = s * q + r
    <3>1. l \in Int
      BY <2>1
    <3> QED
      BY <1>1, <3>1, DivMod, Zenon
  <2> HIDE DEF q, r
  <2>3. q >= 0
    <3>1. ASSUME q <= -1 PROVE s * q <= s * (-1)
      BY <1>1, <2>2, <3>1, MulMono
    <3> QED
      BY <1>1, <2>1, <2>2, <3>1
  <2>4. q <= top
    <3>1. ASSUME top + 1 <= q PROVE s * (top + 1) <= s * q
      BY <1>1, <1>6, <2>2, <3>1, MulMono
    <3>2. s * (top + 1) = s * top + s
      BY <1>1, <1>6
    <3>3. s * top + s > size - 1
      BY <1>1, <1>6
    <3>4. s * top \in Int /\ s * q \in Int
      BY <1>1, <1>6, <2>2
    <3>5. ~(top + 1 <= q)
      BY <1>1, <2>1, <2>2, <3>1, <3>2, <3>3, <3>4
    <3> QED
      BY <1>6, <2>2, <3>5
  <2>5. top - q \in 0 .. n - 1 /\ top - (top - q) = q
    BY <1>6, <1>11, <2>2, <2>3, <2>4
  <2>6. W[top - q] = s * q + 0
    BY <1>1, <1>8, <2>2, <2>5
  <2> QED
    BY <2>1, <2>2, <2>5, <2>6
<1>13. {W[k] : k \in 0 .. n - 1} = LinesToWalk
  BY <1>10, <1>12
<1>14. s = 1 => Grouped(W, n)
  <2> SUFFICES ASSUME s = 1 PROVE Grouped(W, n)
    OBVIOUS
  <2> DEFINE z == exp.lines_per_page
             pages == exp.pages_per_chain
  <2>1. z \in Nat \ {0} /\ pages \in Nat \ {0} /\ size = z * pages
    BY ShapeFacts DEF lines_per_chain, size
  <2>2. \A k \in 0 .. n - 1 : W[k] = size - 1 - k
    <3>1. top = size - 1
      <4>1. (size - 1) % s = 0
        BY <1>6
      <4> QED
        BY <1>1, <1>6, <4>1
    <3> QED
      BY <1>6, <1>8, <3>1
  <2>3. ASSUME NEW k \in 0 .. n - 1
        PROVE  W[k] \div z = pages - 1 - (k \div z)
    <3> DEFINE q == k \div z
               r == k % z
    <3>1. q \in Int /\ r \in 0 .. z - 1 /\ k = z * q + r
      <4>1. k \in Int
        OBVIOUS
      <4> QED
        BY <2>1, <4>1, DivMod, Zenon
    <3> HIDE DEF q, r, z, pages
    <3>2. W[k] = z * (pages - 1 - q) + (z - 1 - r)
      <4>1. z * (pages - 1 - q) = z * pages - z - z * q
        BY <2>1, <3>1
      <4>2. z * q \in Int /\ z * pages \in Int
        BY <2>1, <3>1
      <4>3. W[k] = size - 1 - k
        BY <2>2
      <4> QED
        BY <2>1, <3>1, <4>1, <4>2, <4>3
    <3>3. pages - 1 - q \in Int /\ z - 1 - r \in 0 .. z - 1
      BY <2>1, <3>1
    <3>4. W[k] \div z = pages - 1 - q
      BY <2>1, <3>2, <3>3, DivModUnique
    <3> QED
      BY <3>4 DEF q, z
  <2> QED
    BY <2>3 DEF Grouped, PageOf
<1> QED
  BY <1>1, <1>9, <1>13, <1>14 DEF Complete

\* When an initialisation ends, its tour is complete.
LEMMA VisitedTour ==
  ASSUME TypeInv, Visited, NEW n \in Nat, NEW W \in [0 .. n - 1 -> Lines],
         Tour(W, n), Selected(W, n)
  PROVE  n # 0 /\ Complete(W, n)
<1>1. exp \in Shapes /\ exp.pages_per_chain \in Nat \ {0} /\ i \in Int
  BY ShapeFacts DEF TypeInv
<1>2. CASE pc = "page" /\ ~(i < exp.pages_per_chain)
  <2>1. RandomTour(W, n) /\ i = exp.pages_per_chain /\ n = i * exp.lines_per_page
    BY <1>1, <1>2 DEF Selected
  <2> QED
    BY <1>1, <2>1, CompleteRandom
<1>3. CASE pc = "forward" /\ ~(i < lines_per_chain)
  BY <1>1, <1>3, CompleteForward DEF Selected
<1>4. CASE pc = "reverse" /\ ~(0 <= i)
  BY <1>1, <1>4, CompleteReverse DEF Selected
<1> QED
  BY <1>2, <1>3, <1>4 DEF Visited

\* The end of an initialisation makes a ring.
LEMMA CloseTour ==
  ASSUME RegularInv, Close
  PROVE  BuildInv' /\ RingInv' /\ CallInv'
<1> USE DEF RegularInv
<1>1. /\ UNCHANGED <<exp, root, prev>> /\ c' = c + 1 /\ ops' = local_ops
      /\ memory' = [memory EXCEPT ![prev] = root[c]]
      /\ exp \in Shapes /\ c \in Chains /\ c \in Nat /\ TypeInv
      /\ exp.chains_per_thread \in Nat \ {0}
      /\ c < exp.chains_per_thread /\ Visited
      /\ pc' = IF c + 1 < exp.chains_per_thread THEN "chain" ELSE "bench"
      /\ pc \in Building \ {"chain"}
  BY ShapeFacts DEF ChaseInv, TypeInv, Building, Chains, Close, Visited
<1>2. Lines' = Lines /\ LinesToWalk' = LinesToWalk /\ Chains' = Chains
      /\ \A d, l : LinkOf(d, l)' = LinkOf(d, l)
  BY <1>1, SameShape
<1>3. CallInv'
  BY <1>1 DEF CallInv, Coverage
<1>4. BuildInv'
  <2>1. ASSUME c + 1 < exp.chains_per_thread PROVE root[c + 1] = NULL
    <3>1. c + 1 \in Chains /\ c + 1 > c
      BY <1>1, <2>1 DEF Chains
    <3> QED
      BY <3>1 DEF ChaseInv, LayoutInv, Unwritten
  <2> QED
    BY <1>1, <2>1 DEF BuildInv, Building
<1>5. local_ops \in Nat
  BY <1>1 DEF BuildInv
<1>6. PICK W \in [0 .. local_ops - 1 -> Lines] :
         Tour(W, local_ops) /\ Threaded(c, W, local_ops) /\ Selected(W, local_ops)
  BY <1>1 DEF BuildInv
<1>7. local_ops # 0 /\ Complete(W, local_ops)
  BY <1>1, <1>5, <1>6, VisitedTour
<1>8. local_ops = Cardinality(LinesToWalk)
  BY <1>1, <1>5, <1>7, CompleteCount
<1>9. /\ root[c] = LinkOf(c, W[0]) /\ prev = LinkOf(c, W[local_ops - 1])
      /\ \A k \in 0 .. local_ops - 2 : memory[LinkOf(c, W[k])] = LinkOf(c, W[k + 1])
  BY <1>6, <1>7 DEF Threaded
<1>10. prev \in Block(c) /\ prev \in Address
  <2>1. local_ops - 1 \in 0 .. local_ops - 1
    BY <1>5, <1>7
  <2> QED
    BY <1>1, <1>9, <2>1, LinkFacts, Blocks
<1>11. \A a \in Address : memory'[a] = IF a = prev THEN root[c] ELSE memory[a]
  BY <1>1, <1>10 DEF TypeInv
<1>12. \E X \in [0 .. local_ops - 1 -> Lines] :
         \A n : n = local_ops => Ring(0, X, n)'
  <2>1. CASE c = 0
    <3> SUFFICES ASSUME NEW n, n = local_ops PROVE Ring(0, W, n)'
      OBVIOUS
    <3>1. n \in Nat \ {0} /\ n > 0 /\ n - 1 \in 0 .. n - 1
      BY <1>5, <1>7
    <3>2. Complete(W, n)'
      BY <1>1, <1>7, SameTour
    <3>3. \A k \in 0 .. n - 1 : LinkOf(0, W[k]) \in Address
      BY <1>1, <2>1, LinkFacts, Blocks
    <3>4. \A k \in 0 .. n - 2 : LinkOf(0, W[k]) # prev
      <4> SUFFICES ASSUME NEW k \in 0 .. n - 2, LinkOf(0, W[k]) = LinkOf(0, W[n - 1])
                   PROVE  FALSE
        BY <1>9, <2>1
      <4>1. k \in 0 .. n - 1 /\ k # n - 1
        BY <3>1
      <4>2. W[k] = W[n - 1]
        BY <1>1, <3>1, <4>1, LinkFacts
      <4> QED
        BY <1>6, <3>1, <4>1, <4>2 DEF Tour
    <3>5. \A k \in 0 .. n - 2 : memory'[LinkOf(0, W[k])] = LinkOf(0, W[k + 1])
      <4>1. \A k \in 0 .. n - 2 : k \in 0 .. n - 1
        BY <3>1
      <4> QED
        BY <1>9, <1>11, <2>1, <3>3, <3>4, <4>1
    <3>6. memory'[LinkOf(0, W[n - 1])] = LinkOf(0, W[0])
      BY <1>9, <1>10, <1>11, <2>1
    <3> QED
      BY <1>1, <1>2, <1>9, <2>1, <3>1, <3>2, <3>5, <3>6 DEF Ring
  <2>2. CASE c > 0
    <3>1. ops = local_ops /\ \E X \in [0 .. ops - 1 -> Lines] : Ring(0, X, ops)
      BY <1>8, <2>2 DEF RingInv
    <3>2. PICK X \in [0 .. local_ops - 1 -> Lines] : Ring(0, X, local_ops)
      BY <3>1
    <3>3. 0 \in Chains /\ \A a \in Block(0) : memory'[a] = memory[a]
      <4>1. 0 \in Chains
        BY <1>1 DEF Chains
      <4> QED
        BY <1>1, <1>10, <1>11, <2>2, <4>1, Blocks
    <3>4. ASSUME NEW n, n = local_ops PROVE Ring(0, X, n)'
      BY <1>1, <1>5, <3>2, <3>3, <3>4, RingKept
    <3> QED
      BY <3>4
  <2> QED
    BY <1>1, <2>1, <2>2
<1>13. PICK X \in [0 .. local_ops - 1 -> Lines] :
         \A n : n = local_ops => Ring(0, X, n)'
  BY <1>12
<1>14. ops' = local_ops /\ ops' = Cardinality(LinesToWalk) /\ Ring(0, X, ops)'
  BY <1>1, <1>8, <1>13
<1>15. RingInv'
  BY <1>2, <1>5, <1>14 DEF RingInv
<1> QED
  BY <1>3, <1>4, <1>15

-----------------------------------------------------------------------------
(* The call.                                                               *)

\* Its steps leave the chains alone.
LEMMA CallKeeps ==
  ASSUME RegularInv, Enter \/ Turn
  PROVE  /\ UNCHANGED <<exp, c, i, j, selection, root, prev, memory, local_ops, ops>>
         /\ exp \in Shapes /\ c > 0 /\ 0 \in Chains
         /\ pc \in {"bench", "loop"} /\ pc' \in {"loop", "returned"}
         /\ BuildInv' /\ RingInv'
         /\ ops \in Nat /\ ops = Cardinality(LinesToWalk)
         /\ \E W \in [0 .. ops - 1 -> Lines] : Ring(0, W, ops)
<1> USE DEF RegularInv
<1>1. /\ UNCHANGED <<exp, c, i, j, selection, root, prev, memory, local_ops, ops>>
      /\ pc \in {"bench", "loop"} /\ pc' \in {"loop", "returned"}
  BY DEF Enter, Turn
<1>2. exp \in Shapes /\ c > 0 /\ 0 \in Chains
  <2>1. exp \in Shapes /\ c = exp.chains_per_thread
    BY <1>1 DEF ChaseInv, TypeInv, Building
  <2>2. exp.chains_per_thread \in Nat \ {0}
    BY <2>1, ShapeFacts
  <2> QED
    BY <2>1, <2>2 DEF Chains
<1>3. RingInv'
  BY <1>1, <1>2, RingInvKept
<1>4. BuildInv'
  BY <1>1 DEF BuildInv, Building
<1> QED
  BY <1>1, <1>2, <1>3, <1>4 DEF RingInv

LEMMA EnterTour ==
  ASSUME RegularInv, Enter
  PROVE  BuildInv' /\ RingInv' /\ CallInv'
<1>1. /\ UNCHANGED <<exp, c, root, memory, ops>> /\ exp \in Shapes /\ 0 \in Chains
      /\ BuildInv' /\ RingInv' /\ ops \in Nat
      /\ \E W \in [0 .. ops - 1 -> Lines] : Ring(0, W, ops)
  BY CallKeeps
<1>2. PICK W \in [0 .. ops - 1 -> Lines] : Ring(0, W, ops)
  BY <1>1
<1>3. /\ pc' = "loop" /\ steps' = 0 /\ walked' = {}
      /\ \A d \in Chains : positions'[d] = root[0]
  BY <1>1 DEF Enter, heads
<1>4. /\ Lines' = Lines /\ Chains' = Chains /\ \A l : LinkOf(0, l)' = LinkOf(0, l)
  BY <1>1, SameShape
<1>5. Ring(0, W, ops)'
  <2>1. ASSUME NEW n, n = ops PROVE Ring(0, W, n)'
    BY <1>1, <1>2, <2>1, RingKept
  <2> QED
    BY <1>1, <2>1
<1>6. At(W)'
  <2>1. steps' \in 0 .. ops - 1
    BY <1>1, <1>2, <1>3 DEF Ring
  <2>2. {LinkOf(0, W[k]) : k \in 1 .. 0} = {}
    OBVIOUS
  <2>3. root[0] = LinkOf(0, W[0])
    BY <1>2 DEF Ring
  <2> QED
    BY <1>1, <1>3, <1>4, <1>5, <2>1, <2>2, <2>3 DEF At
<1>7. CallInv'
  BY <1>1, <1>3, <1>4, <1>6 DEF CallInv, Coverage
<1> QED
  BY <1>1, <1>7

LEMMA TurnTour ==
  ASSUME RegularInv, Turn
  PROVE  BuildInv' /\ RingInv' /\ CallInv'
<1>1. /\ UNCHANGED <<exp, c, root, memory, ops>> /\ exp \in Shapes /\ 0 \in Chains
      /\ BuildInv' /\ RingInv' /\ ops \in Nat /\ ops = Cardinality(LinesToWalk)
  BY CallKeeps
<1>2. pc = "loop"
  BY DEF Turn
<1>3. PICK W \in [0 .. ops - 1 -> Lines] : At(W)
  BY <1>2 DEF RegularInv, CallInv
<1>4. /\ Ring(0, W, ops) /\ steps \in 0 .. ops - 1
      /\ \A d \in Chains : positions[d] = LinkOf(0, W[steps])
      /\ walked = {LinkOf(0, W[k]) : k \in 1 .. steps}
  BY <1>3 DEF At
<1>5. /\ root[0] = LinkOf(0, W[0]) /\ heads[0] = root[0]
      /\ \A k \in 0 .. ops - 2 : memory[LinkOf(0, W[k])] = LinkOf(0, W[k + 1])
      /\ memory[LinkOf(0, W[ops - 1])] = LinkOf(0, W[0])
      /\ ops > 0 /\ Complete(W, ops)
      /\ \A k, m \in 0 .. ops - 1 : W[k] = W[m] => k = m
  BY <1>1, <1>4 DEF Ring, heads, Complete, Tour
<1>6. steps < CountedTurns
  <2>1. ops <= links_per_chain
    BY <1>1, <1>5, CompleteCount
  <2> QED
    BY <1>1, <1>4, <2>1, Sizes DEF CountedTurns
<1>7. /\ \A d \in Chains : positions'[d] = memory[LinkOf(0, W[steps])]
      /\ steps' = steps + 1
      /\ walked' = walked \cup {memory[LinkOf(0, W[steps])]}
      /\ pc' = IF memory[LinkOf(0, W[steps])] = LinkOf(0, W[0]) THEN "returned" ELSE "loop"
  <2>1. \A d \in Chains : positions'[d] = memory[LinkOf(0, W[steps])]
    BY <1>4 DEF Turn
  <2>2. steps' = steps + 1 /\ walked' = walked \cup {positions'[d] : d \in Chains}
        /\ pc' = IF positions'[0] = heads[0] THEN "returned" ELSE "loop"
    BY <1>6 DEF Turn
  <2> QED
    BY <1>1, <1>5, <2>1, <2>2
<1>8. /\ Lines' = Lines /\ Chains' = Chains /\ LinesToWalk' = LinesToWalk
      /\ \A l : LinkOf(0, l)' = LinkOf(0, l)
  BY <1>1, SameShape
\* The next link of the tour ...
<1>9. CASE steps < ops - 1
  <2>1. /\ steps + 1 \in 0 .. ops - 1 /\ steps + 1 # 0 /\ 0 \in 0 .. ops - 1
        /\ memory[LinkOf(0, W[steps])] = LinkOf(0, W[steps + 1])
    <3>1. ops \in Nat /\ steps \in 0 .. ops - 1
      BY <1>1, <1>4
    <3>2. steps + 1 \in 0 .. ops - 1 /\ steps + 1 # 0 /\ 0 \in 0 .. ops - 1
      BY <1>9, <3>1
    <3>3. steps \in 0 .. ops - 2
      BY <1>9, <3>1
    <3> QED
      BY <1>5, <3>2, <3>3
  <2>2. LinkOf(0, W[steps + 1]) # LinkOf(0, W[0])
    BY <1>1, <1>5, <2>1, LinkFacts
  <2>3. pc' = "loop"
    BY <1>7, <2>1, <2>2
  <2>4. walked' = {LinkOf(0, W[k]) : k \in 1 .. steps + 1}
    <3>1. 1 .. steps + 1 = (1 .. steps) \cup {steps + 1}
      BY <1>4
    <3> QED
      BY <1>4, <1>7, <2>1, <3>1
  <2>5. Ring(0, W, ops)'
    <3>1. ASSUME NEW n, n = ops PROVE Ring(0, W, n)'
      BY <1>1, <1>4, <3>1, RingKept
    <3> QED
      BY <1>1, <3>1
  <2>6. At(W)'
    BY <1>1, <1>7, <1>8, <2>1, <2>4, <2>5 DEF At
  <2> QED
    BY <1>1, <1>8, <2>3, <2>6 DEF CallInv, Coverage
\* ... or the first again.
<1>10. CASE steps = ops - 1
  <2>1. pc' = "returned" /\ steps' = ops
    BY <1>1, <1>4, <1>5, <1>7, <1>10
  <2>2. walked' = {LinkOf(0, W[k]) : k \in 0 .. ops - 1}
    <3>1. 0 .. ops - 1 = (1 .. ops - 1) \cup {0}
      BY <1>1, <1>5
    <3> QED
      BY <1>4, <1>5, <1>7, <1>10, <3>1
  <2>3. \A k \in 0 .. ops - 1 : Line(LinkOf(0, W[k])) = W[k]
    BY <1>1, LinkFacts
  <2>4. {Line(a) : a \in walked'} = LinesToWalk
    BY <1>5, <2>2, <2>3 DEF Complete
  <2>5. \A a : Line(a)' = Line(a)
    BY <1>1 DEF Line
  <2>6. CoverageOf(LinesToWalk)'
    BY <1>8, <2>4, <2>5 DEF CoverageOf
  <2> QED
    BY <1>1, <1>8, <2>1, <2>6 DEF CallInv, Coverage
<1> QED
  BY <1>1, <1>4, <1>9, <1>10

-----------------------------------------------------------------------------
LEMMA TourInvCorrect == Spec => [](ChaseInv /\ TourInv)
<1>1. Init => TourInv
  <2> SUFFICES ASSUME Init PROVE BuildInv /\ RingInv /\ CallInv
    BY DEF TourInv
  <2>1. exp \in Shapes /\ exp.chains_per_thread \in Nat \ {0}
    BY ShapeFacts DEF Init, InitChains
  <2>2. BuildInv
    BY <2>1 DEF Init, InitChains, BuildInv, Building, Chains
  <2> QED
    BY <2>2 DEF Init, InitChains, RingInv, CallInv, Coverage
<1>2. ChaseInv /\ TourInv /\ [Next]_vars => TourInv'
  <2> SUFFICES ASSUME ChaseInv, TourInv, [Next]_vars, Regular'
               PROVE  BuildInv' /\ RingInv' /\ CallInv'
    BY DEF TourInv
  <2>1. exp' = exp
    BY DEF Next, BuildChains, NextChains, SelectPages, SelectLines, VisitLine, NextPage,
           StartStrided, VisitForward, VisitReverse, Close, Enter, Turn, Returned,
           vars, initVars
  <2>2. RegularInv
    BY <2>1, SameShape DEF RegularInv, TourInv
  <2>3. CASE BuildChains
    BY <2>2, <2>3, PrepareTour, VisitTour, CloseTour DEF BuildChains, NextChains
  <2>4. CASE Enter \/ Turn
    BY <2>2, <2>4, EnterTour, TurnTour
  <2>5. CASE UNCHANGED vars
    <3>1. UNCHANGED <<exp, pc, c, i, j, selection, root, prev, memory, local_ops, ops,
                      positions, steps, walked>>
      BY <2>5 DEF vars, initVars
    <3>2. RingInv'
      BY <2>2, <3>1, RingInvKept DEF RegularInv, ChaseInv, TypeInv
    <3>3. BuildInv'
      BY <2>2, <3>1 DEF RegularInv, BuildInv, Tour, Threaded, Selected, RandomTour, Lines,
           LinkOf, PageOf, PageAt, LineAt, Forward, Reverse, last, lines_per_chain, selection
    <3>4. CallInv'
      <4>1. /\ Lines' = Lines /\ Chains' = Chains /\ LinesToWalk' = LinesToWalk
            /\ \A d, l : LinkOf(d, l)' = LinkOf(d, l)
            /\ Regular' <=> Regular
        BY <3>1, SameShape
      <4>2. ASSUME NEW W, NEW n, n = ops PROVE Ring(0, W, n)' <=> Ring(0, W, n)
        <5>1. Complete(W, n)' <=> Complete(W, n)
          BY <3>1, SameTour
        <5> QED
          BY <3>1, <4>1, <5>1 DEF Ring
      <4>3. ASSUME NEW W, At(W) PROVE At(W)'
        <5>1. Ring(0, W, ops)'
          BY <3>1, <4>2, <4>3 DEF At
        <5> QED
          BY <3>1, <4>1, <4>3, <5>1 DEF At
      <4>4. Coverage' <=> Coverage
        BY <3>1, <4>1 DEF Coverage, CoverageOf, Line
      <4>5. CallInv
        BY <2>2 DEF RegularInv
      <4> QED
        BY <3>1, <4>1, <4>3, <4>4, <4>5 DEF CallInv
    <3> QED
      BY <3>2, <3>3, <3>4
  <2> QED
    BY <2>3, <2>4, <2>5 DEF Next, Returned
<1> QED
  BY <1>1, <1>2, InitChase, NextChase, PTL DEF Spec

\* A call that returned has been at each line that the pattern selects and has
\* made one load for each of them, the number of which is the one published as
\* the operations per chain: for every shape of the chains, every stride, and
\* every choice of the random numbers when no interval has a factor in common
\* with the number of pages or of lines (run.cpp:381-516 and 564-605).
THEOREM CoverageCorrect == Spec => []Coverage
<1>1. TourInv => Coverage
  BY DEF TourInv, CallInv, Coverage
<1> QED
  BY <1>1, TourInvCorrect, PTL

\* In a grouped tour, when the page changes all lines of the page left have
\* been visited.
LEMMA GroupVisited ==
  ASSUME exp \in Shapes, NEW n \in Nat, NEW W \in [0 .. n - 1 -> Lines],
         Tour(W, n), Grouped(W, n),
         NEW k \in 0 .. n - 2, PageOf(W[k + 1]) # PageOf(W[k])
  PROVE  \A l \in LinesOf(PageOf(W[k])) : \E m \in 0 .. k : W[m] = l
<1> DEFINE z == exp.lines_per_page
           p == PageOf(W[k])
           q == k \div z
           r == k % z
<1>1. z \in Nat \ {0}
  BY ShapeFacts
<1>2. q \in Int /\ r \in 0 .. z - 1 /\ k = z * q + r
  <2>1. k \in Int
    OBVIOUS
  <2> HIDE DEF z
  <2> QED
    BY <1>1, <2>1, DivMod, Zenon
<1>3. k \in 0 .. n - 1 /\ k + 1 \in 0 .. n - 1
  OBVIOUS
<1>4. (k + 1) \div z # q
  BY <1>3 DEF Grouped
<1>5. W \in [0 .. n - 1 -> Lines] /\ \A a, b \in 0 .. n - 1 : W[a] = W[b] => a = b
  BY DEF Tour
<1>6. \A m \in 0 .. n - 1 : m \div z = q => W[m] \div z = p
  BY <1>3 DEF Grouped, PageOf
<1>7. \A m \in 0 .. n - 1 : W[m] \in Nat
  <2>1. lines_per_chain \in Nat
    BY Sizes
  <2> QED
    BY <1>5, <2>1 DEF Lines
<1>8. p \in Int
  <2>1. W[k] \in Int
    BY <1>3, <1>7
  <2> HIDE DEF z
  <2>2. W[k] \div z \in Int
    BY <1>1, <2>1, DivMod
  <2> QED
    BY <2>2 DEF PageOf, z
<1>9. \A l \in LinesOf(p) : l \in Int /\ l \div z = p
  BY DEF LinesOf
<1> HIDE DEF z, p, q, r
<1>10. r = z - 1
  <2>1. r # z - 1 => r + 1 \in 0 .. z - 1 /\ k + 1 = z * q + (r + 1)
    <3>1. z * q \in Int
      BY <1>1, <1>2
    <3> QED
      BY <1>1, <1>2, <3>1
  <2> QED
    BY <1>1, <1>2, <1>4, <2>1, DivModUnique
<1>11. ASSUME NEW s \in 0 .. z - 1
       PROVE  /\ z * q + s \in 0 .. k /\ z * q + s \in 0 .. n - 1
              /\ (z * q + s) \div z = q
  <2>1. q >= 0
    <3>1. ASSUME q <= -1 PROVE z * q <= z * (-1)
      BY <1>1, <1>2, <3>1, MulMono
    <3>2. z * q \in Int /\ k >= 0 /\ z * (-1) = -z
      BY <1>1, <1>2
    <3> QED
      BY <1>1, <1>2, <3>1, <3>2
  <2>2. z * 0 <= z * q /\ z * q \in Int
    BY <1>1, <1>2, <2>1, MulMono
  <2>3. z * 0 = 0 /\ k = z * q + (z - 1) /\ s \in Int /\ s <= z - 1 /\ 0 <= s
    BY <1>1, <1>2, <1>10
  <2>4. z * q + s \in 0 .. k
    BY <1>1, <2>2, <2>3
  <2>5. (z * q + s) \div z = q
    BY <1>1, <1>2, DivModUnique
  <2> QED
    BY <1>3, <2>4, <2>5
<1> DEFINE V == [s \in 0 .. z - 1 |-> W[z * q + s]]
           I == z * p .. z * p + (z - 1)
           G == {V[s] : s \in 0 .. z - 1}
<1>12. ASSUME NEW l \in Int, l \div z = p PROVE l \in I
  <2> DEFINE t == l % z
  <2>1. t \in 0 .. z - 1 /\ l = z * p + t
    BY <1>1, <1>12, DivMod
  <2> HIDE DEF t
  <2>2. z * p \in Int
    BY <1>1, <1>8
  <2> QED
    BY <1>1, <2>1, <2>2
<1>13. V \in [0 .. z - 1 -> I]
  BY <1>6, <1>7, <1>11, <1>12
<1>14. \A s, t \in 0 .. z - 1 : V[s] = V[t] => s = t
  <2>1. z * q \in Int
    BY <1>1, <1>2
  <2>2. \A s, t \in 0 .. z - 1 : z * q + s = z * q + t => s = t
    BY <2>1
  <2> QED
    BY <1>5, <1>11, <2>2
<1>15. IsFiniteSet(I) /\ Cardinality(I) = z
  <2>1. ASSUME NEW lo \in Int, NEW hi \in Int, hi = lo + (z - 1)
        PROVE  IsFiniteSet(lo .. hi) /\ Cardinality(lo .. hi) = z
    <3>1. /\ IsFiniteSet(lo .. hi)
          /\ Cardinality(lo .. hi) = IF lo > hi THEN 0 ELSE hi - lo + 1
      BY FS_Interval
    <3>2. ~(lo > hi) /\ hi - lo + 1 = z
      BY <1>1, <2>1
    <3> QED
      BY <3>1, <3>2
  <2>2. z * p \in Int /\ z * p + (z - 1) \in Int
    BY <1>1, <1>8
  <2> QED
    BY <2>1, <2>2
<1>16. \A x : x \in G <=> \E s \in 0 .. z - 1 : x = V[s]
  OBVIOUS
<1>17. G \in SUBSET I
  BY <1>13
<1>18. \A s \in 0 .. z - 1 : V[s] = W[z * q + s]
  OBVIOUS
<1> HIDE DEF V, I, G
<1>19. Cardinality(G) = z
  <2>1. z \in Nat
    BY <1>1
  <2> QED
    BY <1>13, <1>14, <1>16, <2>1, OneToOne
<1>20. G = I
  BY <1>15, <1>17, <1>19, FS_Subset
<1>21. \A l \in LinesOf(p) : \E m \in 0 .. k : W[m] = l
  BY <1>9, <1>11, <1>12, <1>16, <1>18, <1>20
<1> QED
  BY <1>21 DEF p

\* The walk turns to another page only when all lines of the page it leaves
\* have been visited: for chains of every shape walked in steps of one line,
\* and every choice of the random numbers when no interval has a factor in
\* common with the number of pages or of lines (run.cpp:381-516 and 564-605).
THEOREM PageByPageCorrect == Spec => PageByPage
<1> DEFINE Leaves(d) ==
             /\ pc = "loop" /\ pc' = "loop"
             /\ Regular /\ Abs(exp.stride) = 1
             /\ steps > 0
             /\ Page(positions'[d]) # Page(positions[d])
             => LinesOf(Page(positions[d])) \subseteq {Line(a) : a \in walked \cup {root[0]}}
<1>1. ChaseInv /\ TourInv /\ [Next]_vars => [\A d \in Chains : Leaves(d)]_vars
  <2> SUFFICES ASSUME ChaseInv, TourInv, [Next]_vars, ~UNCHANGED vars,
                      NEW d \in Chains, pc = "loop", pc' = "loop",
                      Regular, Abs(exp.stride) = 1,
                      Page(positions'[d]) # Page(positions[d])
               PROVE  LinesOf(Page(positions[d])) \subseteq
                        {Line(a) : a \in walked \cup {root[0]}}
    OBVIOUS
  <2>1. Turn
    BY DEF Next, BuildChains, NextChains, SelectPages, SelectLines, VisitLine, NextPage,
           StartStrided, VisitForward, VisitReverse, Close, Visited, Enter, Returned
  <2>2. RegularInv
    BY DEF RegularInv, TourInv
  <2>3. exp \in Shapes /\ ops \in Nat
    BY <2>1, <2>2, CallKeeps
  <2>4. PICK W \in [0 .. ops - 1 -> Lines] : At(W)
    BY <2>2 DEF RegularInv, CallInv
  <2>5. /\ Ring(0, W, ops) /\ steps \in 0 .. ops - 1
        /\ positions[d] = LinkOf(0, W[steps])
        /\ walked = {LinkOf(0, W[k]) : k \in 1 .. steps}
    BY <2>4 DEF At
  <2>6. /\ root[0] = LinkOf(0, W[0]) /\ ops > 0
        /\ \A k \in 0 .. ops - 2 : memory[LinkOf(0, W[k])] = LinkOf(0, W[k + 1])
        /\ memory[LinkOf(0, W[ops - 1])] = LinkOf(0, W[0])
        /\ Tour(W, ops) /\ Grouped(W, ops)
    BY <2>5 DEF Ring, Complete
  <2>7. 0 \in Chains
    BY <2>1, <2>2, CallKeeps
  <2>8. positions'[d] = memory[LinkOf(0, W[steps])]
    BY <2>1, <2>5 DEF Turn
  <2>9. steps \in 0 .. ops - 2
    <3>1. positions'[0] # root[0]
      <4>1. heads[0] = root[0]
        BY <2>7 DEF heads
      <4>2. positions'[0] # heads[0]
        BY <2>1 DEF Turn
      <4> QED
        BY <4>1, <4>2
    <3>2. positions'[0] = memory[LinkOf(0, W[steps])]
      BY <2>1, <2>4, <2>7 DEF Turn, At
    <3> QED
      BY <2>3, <2>5, <2>6, <3>1, <3>2
  <2>10. /\ Page(positions[d]) = PageOf(W[steps])
         /\ Page(positions'[d]) = PageOf(W[steps + 1])
         /\ \A k \in 0 .. ops - 1 : Line(LinkOf(0, W[k])) = W[k]
    <3>1. steps + 1 \in 0 .. ops - 1 /\ positions'[d] = LinkOf(0, W[steps + 1])
      BY <2>3, <2>6, <2>8, <2>9
    <3> QED
      BY <2>3, <2>5, <3>1, LinkFacts
  <2>11. \A l \in LinesOf(PageOf(W[steps])) : \E m \in 0 .. steps : W[m] = l
    BY <2>3, <2>6, <2>9, <2>10, GroupVisited
  <2>12. \A m \in 0 .. steps : LinkOf(0, W[m]) \in walked \cup {root[0]}
                               /\ Line(LinkOf(0, W[m])) = W[m]
    <3>1. \A m \in 0 .. steps : m = 0 \/ m \in 1 .. steps
      OBVIOUS
    <3>2. \A m \in 0 .. steps : m \in 0 .. ops - 1
      BY <2>3, <2>5
    <3> QED
      BY <2>5, <2>6, <2>10, <3>1, <3>2
  <2> QED
    BY <2>10, <2>11, <2>12
<1> QED
  BY <1>1, TourInvCorrect, PTL DEF PageByPage, Spec
=============================================================================
