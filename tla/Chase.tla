-------------------------------- MODULE Chase --------------------------------
(***************************************************************************)
(* One call of the function that chase_pointers generates (src/run.cpp),   *)
(* on the chains that ChainInit laid out: what the benchmark times.        *)
(*                                                                         *)
(* The function has a register `positions' for each chain of the thread    *)
(* and follows all of them until the first is back at its head.            *)
(***************************************************************************)
EXTENDS ChainInit

VARIABLES
  positions,   \* registers of the generated function
  steps,       \* history: turns of its loop
  walked       \* history: links it has been at

vars == <<initVars, positions, steps, walked>>

\* Every head is loaded from the first element of the array of roots.
heads == [d \in Chains |-> root[0]]

Init ==
  /\ InitChains
  /\ positions = [d \in Chains |-> NULL]
  /\ steps = 0
  /\ walked = {}

BuildChains == NextChains /\ UNCHANGED <<positions, steps, walked>>

\* The prologue: every position starts at the first head.
Enter ==
  /\ pc = "bench"
  /\ positions' = [d \in Chains |-> heads[0]]
  /\ steps' = 0
  /\ walked' = {}
  /\ pc' = "loop"
  /\ UNCHANGED <<exp, c, i, j, selection, root, prev, memory, local_ops, ops>>

\* The history counts turns up to one more than any ring has links.
CountedTurns == links_per_chain + 1

\* One turn of the loop: follow every position, then compare the first.
Turn ==
  /\ pc = "loop"
  /\ positions' = [d \in Chains |-> memory[positions[d]]]
  /\ steps' = IF steps < CountedTurns THEN steps + 1 ELSE steps
  /\ walked' = walked \cup {positions'[d] : d \in Chains}
  /\ pc' = IF positions'[0] = heads[0] THEN "returned" ELSE "loop"
  /\ UNCHANGED <<exp, c, i, j, selection, root, prev, memory, local_ops, ops>>

Returned == pc = "returned" /\ UNCHANGED vars

Next == BuildChains \/ Enter \/ Turn \/ Returned

Spec == Init /\ [][Next]_vars

\* A thread that is not blocked keeps running.
FairSpec == Spec /\ WF_vars(Next)

-----------------------------------------------------------------------------
(* Properties.                                                             *)

\* Links are written into the thread's own chains only, and the generated code
\* never follows one that was not written or leaves the chain it started in.
NoWildPointer ==
  /\ prev \in Address \cup {NULL}
  /\ pc = "loop" => \A d \in Chains : /\ positions[d] \in {0} \X (0 .. links_per_chain - 1)
                                      /\ memory[positions[d]] # NULL

\* Every call of the benchmark returns, even where an interval has a factor
\* in common with what it steps through and lines are visited repeatedly.
BenchReturns == <>(pc = "returned")

Coprime(p, n) == \A d \in 2 .. n : ~(p % d = 0 /\ n % d = 0)

\* Every interval steps through all pages, and all lines of a page.  Powers of
\* two are such numbers: the table has odd primes only.
Regular ==
  exp.access_pattern = "random" =>
    \A p \in Primes : /\ Coprime(p, exp.pages_per_chain)
                      /\ Coprime(p, exp.lines_per_page)

Abs(n) == IF n < 0 THEN -n ELSE n

Line(a) == a[2] \div exp.links_per_line
Page(a) == a[2] \div links_per_page
LinesOf(p) == {l \in 0 .. lines_per_chain - 1 : l \div exp.lines_per_page = p}

\* The lines a walk through a chain has to touch.
LinesToWalk ==
  IF exp.access_pattern = "random" THEN 0 .. lines_per_chain - 1
  ELSE {l \in 0 .. lines_per_chain - 1 : l % Abs(exp.stride) = 0}

CoverageOf(lines) == {Line(a) : a \in walked} = lines

\* A call walks through all pages within the chain (README:6): each line that
\* the pattern selects, once, and `ops' is the number of loads it made: the
\* latency main prints is the time divided by it.
Coverage ==
  pc = "returned" /\ Regular =>
    /\ CoverageOf(LinesToWalk)
    /\ steps = Cardinality(LinesToWalk)
    /\ steps = ops

\* "Within a selected page all cache lines are referenced before the next
\* page is selected" (README:6).
PageByPage ==
  [][\A d \in Chains :
       /\ pc = "loop" /\ pc' = "loop"
       /\ Regular /\ Abs(exp.stride) = 1
       /\ steps > 0
       /\ Page(positions'[d]) # Page(positions[d])
       => LinesOf(Page(positions[d])) \subseteq
            {Line(a) : a \in walked \cup {root[0]}}]_vars

\* "One iteration walks through all pages within a chain" (README:6), whatever
\* the number of pages and of lines in a page.
WholeChain == pc = "returned" => CoverageOf(LinesToWalk)

\* "two memory fetches will take place concurrently from the same thread"
\* (README:12): a call walks each of the chains of the thread.
AllChainsWalked == pc = "returned" => \A d \in Chains : root[d] \in walked
=============================================================================
