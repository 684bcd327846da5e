------------------------------ MODULE ChainInit ------------------------------
(***************************************************************************)
(* How one thread lays its chains out in memory: random_mem_init,          *)
(* forward_mem_init and reverse_mem_init (src/run.cpp).                    *)
(*                                                                         *)
(* A chain is a block of memory of pages of lines of links; one link of a  *)
(* line is used.  The initialisation visits the lines, each visit making   *)
(* the link visited before point to this one, and closes the chain by      *)
(* making the last link point to the first.  The random numbers are any    *)
(* numbers: which thread gets which is in RandomState.                     *)
(***************************************************************************)
EXTENDS Integers, FiniteSets

CONSTANTS
  Shapes,   \* what an Experiment may say of the chains of a thread
  Primes    \* the members of prime_table that random() may select

\* prime_table: the primes up to 163 that are not 2^n - 1.
PrimeTable ==
  {5, 11, 13, 17, 19, 23, 37, 41, 43, 47, 53, 61, 71, 73, 79, 83, 89, 97,
   101, 103, 109, 113, 131, 137, 139, 149, 151, 157, 163}

Shape ==
  [chains_per_thread : Nat \ {0}, pages_per_chain : Nat \ {0},
   lines_per_page : Nat \ {0}, links_per_line : Nat \ {0},
   access_pattern : {"random", "strided"}, stride : Int \ {0}]

ASSUME ChainInitAssumption ==
  /\ Shapes \subseteq Shape
  /\ Primes \subseteq PrimeTable

VARIABLES
  exp,            \* the shape of this experiment
  pc,             \* where run() is in setting up the chains
  c,              \* the chain being initialised
  i,              \* page of the random, line of the strided initialisation
  j,              \* line within the page
  page_factor, page_offset,
  line_factor, line_offset,
  root,           \* first link of each chain, or NULL
  prev,           \* link visited last
  memory,         \* next pointers; NULL stands for memory not written yet
  local_ops,      \* local_ops_per_chain
  ops             \* Run::_ops_per_chain

selection == <<page_factor, page_offset, line_factor, line_offset>>
initVars ==
  <<exp, pc, c, i, j, selection, root, prev, memory, local_ops, ops>>

NULL == <<-1, -1>>

Chains == 0 .. exp.chains_per_thread - 1
links_per_page == exp.lines_per_page * exp.links_per_line
lines_per_chain == exp.lines_per_page * exp.pages_per_chain
links_per_chain == lines_per_chain * exp.links_per_line

\* mem + link, in the block of the chain.
Address == Chains \X (0 .. links_per_chain - 1)

InitChains ==
  /\ exp \in Shapes
  /\ pc = "chain"
  /\ c = 0 /\ i = 0 /\ j = 0
  /\ page_factor = 0 /\ page_offset = 0
  /\ line_factor = 0 /\ line_offset = 0
  /\ root = [d \in Chains |-> NULL]
  /\ prev = NULL
  /\ memory = [a \in Address |-> NULL]
  /\ local_ops = 0 /\ ops = 0

\* The body of the loops: the first visit sets root, each other one links
\* the line to the line visited before.
Visit(link) ==
  /\ local_ops' = local_ops + 1
  /\ prev' = <<c, link>>
  /\ IF root[c] = NULL
       THEN root' = [root EXCEPT ![c] = <<c, link>>] /\ UNCHANGED memory
       ELSE memory' = [memory EXCEPT ![prev] = <<c, link>>] /\ UNCHANGED root

-----------------------------------------------------------------------------
(* random_mem_init                                                         *)

\* The interval and the offset at which pages are visited.
SelectPages ==
  /\ pc = "chain" /\ exp.access_pattern = "random"
  /\ page_factor' \in Primes
  /\ page_offset' \in 0 .. exp.pages_per_chain - 1
  /\ i' = 0 /\ local_ops' = 0
  /\ pc' = "page"
  /\ UNCHANGED <<exp, c, j, line_factor, line_offset, root, prev, memory, ops>>

\* The interval and the offset at which the lines of the page are visited.
SelectLines ==
  /\ pc = "page" /\ i < exp.pages_per_chain
  /\ line_factor' \in Primes
  /\ line_offset' \in 0 .. exp.lines_per_page - 1
  /\ j' = 0
  /\ pc' = "line"
  /\ UNCHANGED <<exp, c, i, page_factor, page_offset, root, prev, memory,
                 local_ops, ops>>

\* A mutated page, selected for every line.
PageOfLine == (page_factor * j + page_offset) % exp.pages_per_chain

page == (page_factor * i + page_offset) % exp.pages_per_chain
line_within_page == (line_factor * j + line_offset) % exp.lines_per_page

\* Mutated links: lines a link apart share a line.
RandomLinkPacked == page * links_per_page + line_within_page

RandomLink == page * links_per_page + line_within_page * exp.links_per_line

VisitLine ==
  /\ pc = "line" /\ j < exp.lines_per_page
  /\ Visit(RandomLink)
  /\ j' = j + 1
  /\ UNCHANGED <<exp, pc, c, i, selection, ops>>

NextPage ==
  /\ pc = "line" /\ ~(j < exp.lines_per_page)
  /\ i' = i + 1
  /\ pc' = "page"
  /\ UNCHANGED <<exp, c, j, selection, root, prev, memory, local_ops, ops>>

-----------------------------------------------------------------------------
(* forward_mem_init and reverse_mem_init                                   *)

Forward == exp.access_pattern = "strided" /\ 0 < exp.stride
Reverse == exp.access_pattern = "strided" /\ exp.stride < 0

\* The last line a forward walk with this stride would visit.
last == LET stride == -exp.stride
        IN  ((lines_per_chain - 1) \div stride) * stride

StartStrided ==
  /\ pc = "chain"
  /\ \/ Forward /\ i' = 0 /\ pc' = "forward"
     \/ Reverse /\ i' = last /\ pc' = "reverse"
  /\ local_ops' = 0
  /\ UNCHANGED <<exp, c, j, selection, root, prev, memory, ops>>

VisitForward ==
  /\ pc = "forward" /\ i < lines_per_chain
  /\ Visit(i * exp.links_per_line)
  /\ i' = i + exp.stride
  /\ UNCHANGED <<exp, pc, c, j, selection, ops>>

VisitReverse ==
  /\ pc = "reverse" /\ 0 <= i
  /\ Visit(i * exp.links_per_line)
  /\ i' = i + exp.stride
  /\ UNCHANGED <<exp, pc, c, j, selection, ops>>

-----------------------------------------------------------------------------
(* The end of each of them.                                                *)

Visited ==
  \/ pc = "page" /\ ~(i < exp.pages_per_chain)
  \/ pc = "forward" /\ ~(i < lines_per_chain)
  \/ pc = "reverse" /\ ~(0 <= i)

\* Mutated ends: one leaves the chain open, one ties the last link to itself.
CloseSelf ==
  /\ Visited
  /\ memory' = [memory EXCEPT ![prev] = prev]
  /\ ops' = local_ops
  /\ c' = c + 1
  /\ pc' = IF c + 1 < exp.chains_per_thread THEN "chain" ELSE "bench"
  /\ UNCHANGED <<exp, i, j, selection, root, prev, local_ops>>

CloseOpen ==
  /\ Visited
  /\ ops' = local_ops
  /\ c' = c + 1
  /\ pc' = IF c + 1 < exp.chains_per_thread THEN "chain" ELSE "bench"
  /\ UNCHANGED <<exp, i, j, selection, root, prev, memory, local_ops>>

\* prev->next = root; the operations are published; run() turns to the next
\* chain or to the benchmark.
Close ==
  /\ Visited
  /\ memory' = [memory EXCEPT ![prev] = root[c]]
  /\ ops' = local_ops
  /\ c' = c + 1
  /\ pc' = IF c + 1 < exp.chains_per_thread THEN "chain" ELSE "bench"
  /\ UNCHANGED <<exp, i, j, selection, root, prev, local_ops>>

NextChains ==
  \/ SelectPages \/ SelectLines \/ VisitLine \/ NextPage
  \/ StartStrided \/ VisitForward \/ VisitReverse
  \/ Close
=============================================================================
