----------------------------- MODULE ChunkTree -----------------------------
(***************************************************************************)
(* The chunks that AsmJit's memory manager finds by address, as its        *)
(* red-black tree keeps them (RbTree): the operating system returns        *)
(* memory anywhere, so chunks come and go in every order of addresses.     *)
(*                                                                         *)
(* Only the tree is modelled here, with as many chunks as make every       *)
(* rotation happen; what is inside a chunk is in MemoryManager.            *)
(***************************************************************************)
EXTENDS RbTree

CONSTANTS
  Base,       \* the addresses at which the operating system may put a chunk
  ChunkSize   \* how much a chunk spans

ASSUME ChunkAssumption ==
  /\ ChunkSize \in Nat \ {0}
  /\ \A a, b \in Base : a < b => a + ChunkSize <= b

VARIABLES
  tree,       \* the structs, their links, colours and data
  chunks      \* the structs that are linked: [struct -> address]

vars == <<tree, chunks>>

Chunk(a) == [mem |-> a, size |-> ChunkSize]

NoChunk == [mem |-> 0, size |-> 0]

Init ==
  /\ tree = NewTree(NoChunk)
  /\ chunks = << >>

\* allocFreeable: createNode and insertNode.
Insert(s, a) ==
  /\ s \notin DOMAIN chunks
  /\ \A x \in DOMAIN chunks : chunks[x] # a
  /\ tree' = InsertNode(Fresh(tree, s, Chunk(a)), s)
  /\ chunks' = [x \in DOMAIN chunks \cup {s} |-> IF x = s THEN a ELSE chunks[x]]

\* free: removeNode and ASMJIT_FREE of what it returns.  The struct that keeps
\* its place takes the data of the dropped one.
Remove(s) ==
  /\ s \in DOMAIN chunks
  /\ LET r == RemoveNode(tree, s)
     IN  /\ tree' = Fresh(r.tree, r.dropped, NoChunk)
         /\ chunks' = [x \in DOMAIN chunks \ {r.dropped} |->
                         IF x = s THEN chunks[r.dropped] ELSE chunks[x]]

Next ==
  \/ \E s \in Struct, a \in Base : Insert(s, a)
  \/ \E s \in Struct : Remove(s)

Spec == Init /\ [][Next]_vars

-----------------------------------------------------------------------------
\* After every insertion and removal the tree is a red-black search tree: no
\* red struct below a red one, the same number of black ones on every path and
\* every subtree on its side of the address (checkTree, asserted at
\* MemoryManager.cpp:556 and 680).
TreeOK == RedBlack(tree)

\* A block is always found in the chunk it was cut from, and an address
\* outside every chunk in none: free and shrink never work on another chunk's
\* bits, whatever was inserted and removed before.
FindsChunk ==
  \A a \in Base, d \in 0..ChunkSize :
    LET holder == {s \in DOMAIN chunks : a + d \in chunks[s] .. (chunks[s] + ChunkSize - 1)}
    IN  IF holder = {} THEN FindPtr(tree, a + d) = NULL
                       ELSE FindPtr(tree, a + d) \in holder

\* Removing a chunk loses no other one: the structs that stay linked are the
\* ones the tree reaches, and together they hold every other address.
NothingLost ==
  [][\A s \in Struct :
       Remove(s) => /\ InTree(tree') = DOMAIN chunks'
                    /\ {Mem(tree', x) : x \in InTree(tree')}
                         = {Mem(tree, x) : x \in InTree(tree)} \ {Mem(tree, s)}]_vars
=============================================================================
