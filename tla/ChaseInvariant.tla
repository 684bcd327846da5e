---------------------------- MODULE ChaseInvariant ----------------------------
(***************************************************************************)
(* The inductive invariants behind the safety properties of Chase: one     *)
(* that holds for chains of every shape, and one for the regular shapes,   *)
(* where each line is visited at most once.                                *)
(***************************************************************************)
EXTENDS Chase

Building == {"chain", "page", "line", "forward", "reverse"}

\* The links of a chain.
Block(d) == {d} \X (0 .. links_per_chain - 1)

-----------------------------------------------------------------------------
(* Any shape.                                                              *)

TypeInv ==
  /\ exp \in Shapes
  /\ pc \in Building \cup {"bench", "loop", "returned"}
  /\ c \in Nat
  /\ IF pc \in Building THEN c < exp.chains_per_thread ELSE c = exp.chains_per_thread
  /\ root \in [Chains -> Address \cup {NULL}]
  /\ prev \in Address \cup {NULL}
  /\ memory \in [Address -> Address \cup {NULL}]
  /\ {i, j, page_factor, page_offset, line_factor, line_offset} \subseteq Int

\* A chain leads to link a.
Reached(d, a) == a = root[d] \/ \E b \in Block(d) : memory[b] = a

Unwritten(d) == root[d] = NULL /\ \A a \in Block(d) : memory[a] = NULL

\* What a chain leads to is written, but for the link visited last.
Begun(d) ==
  /\ root[d] \in Block(d)
  /\ prev \in Block(d)
  /\ \A a \in Block(d) : Reached(d, a) => a = prev \/ memory[a] # NULL

\* What a chain leads to is written.
Tied(d) ==
  /\ root[d] \in Block(d)
  /\ \A a \in Block(d) : Reached(d, a) => memory[a] # NULL

LayoutInv ==
  \A d \in Chains :
    /\ \A a \in Block(d) : memory[a] \in Block(d) \cup {NULL}
    /\ d < c => Tied(d)
    /\ d = c => Unwritten(d) \/ Begun(d)
    /\ d > c => Unwritten(d)

\* The loops stay in the chain, and have visited a link when they end.
VisitInv ==
  /\ pc = "page" => i >= 0 /\ (i > 0 => root[c] # NULL)
  /\ pc = "line" => i >= 0 /\ j >= 0 /\ (j > 0 => root[c] # NULL)
  /\ pc = "forward" => exp.stride > 0 /\ i >= 0 /\ (i > 0 => root[c] # NULL)
  /\ pc = "reverse" => exp.stride < 0 /\ i < lines_per_chain /\ (i < 0 => root[c] # NULL)

WalkInv ==
  pc = "loop" =>
    \A d \in Chains : positions[d] \in Block(0) /\ memory[positions[d]] # NULL

ChaseInv == TypeInv /\ LayoutInv /\ VisitInv /\ WalkInv

-----------------------------------------------------------------------------
(* Regular shapes.  A tour is the order in which the lines of a chain are  *)
(* visited: the k-th visit is to line W[k].                                *)

Lines == 0 .. lines_per_chain - 1

\* The link of line l that is used.
LinkOf(d, l) == <<d, l * exp.links_per_line>>

PageOf(l) == l \div exp.lines_per_page

\* No line is visited twice.
Tour(W, n) ==
  /\ W \in [0 .. n - 1 -> Lines]
  /\ \A k, m \in 0 .. n - 1 : W[k] = W[m] => k = m

\* The visits come in groups as large as a page, each within one page.
Grouped(W, n) ==
  \A k, m \in 0 .. n - 1 :
    k \div exp.lines_per_page = m \div exp.lines_per_page => PageOf(W[k]) = PageOf(W[m])

\* The links of chain d lead through the tour, from its root to `prev'.
Threaded(d, W, n) ==
  IF n = 0 THEN root[d] = NULL
  ELSE /\ root[d] = LinkOf(d, W[0])
       /\ \A k \in 0 .. n - 2 : memory[LinkOf(d, W[k])] = LinkOf(d, W[k + 1])
       /\ prev = LinkOf(d, W[n - 1])

\* The page of the m-th group of visits, and the line of its m-th visit.
PageAt(m) == (page_factor * m + page_offset) % exp.pages_per_chain
LineAt(m) == (line_factor * m + line_offset) % exp.lines_per_page

\* The first n visits of the random initialisation.
RandomTour(W, n) ==
  /\ exp.access_pattern = "random"
  /\ page_factor \in Primes
  /\ \A k \in 0 .. n - 1 : PageOf(W[k]) = PageAt(k \div exp.lines_per_page)

\* The first visits of each initialisation, as its loop counters tell.
Selected(W, n) ==
  /\ pc = "page" =>
       /\ RandomTour(W, n)
       /\ i \in 0 .. exp.pages_per_chain /\ n = i * exp.lines_per_page
  /\ pc = "line" =>
       /\ RandomTour(W, n)
       /\ line_factor \in Primes
       /\ i \in 0 .. exp.pages_per_chain - 1 /\ j \in 0 .. exp.lines_per_page
       /\ n = i * exp.lines_per_page + j
       /\ \A m \in 0 .. j - 1 :
            W[i * exp.lines_per_page + m] = PageAt(i) * exp.lines_per_page + LineAt(m)
  /\ pc = "forward" =>
       /\ Forward
       /\ i = n * exp.stride
       /\ \A k \in 0 .. n - 1 : W[k] = k * exp.stride
  /\ pc = "reverse" =>
       /\ Reverse
       /\ i = last + n * exp.stride
       /\ \A k \in 0 .. n - 1 : W[k] = last + k * exp.stride

\* A finished tour: every line of the pattern, page by page.
Complete(W, n) ==
  /\ Tour(W, n)
  /\ {W[k] : k \in 0 .. n - 1} = LinesToWalk
  /\ Abs(exp.stride) = 1 => Grouped(W, n)

\* The links of chain d lead through the tour and back to its root.
Ring(d, W, n) ==
  /\ n > 0 /\ Complete(W, n)
  /\ root[d] = LinkOf(d, W[0])
  /\ \A k \in 0 .. n - 2 : memory[LinkOf(d, W[k])] = LinkOf(d, W[k + 1])
  /\ memory[LinkOf(d, W[n - 1])] = LinkOf(d, W[0])

\* The tour of the chain being laid out.
BuildInv ==
  /\ pc = "chain" => root[c] = NULL
  /\ pc \in Building \ {"chain"} =>
       /\ local_ops \in Nat
       /\ \E W \in [0 .. local_ops - 1 -> Lines] :
            Tour(W, local_ops) /\ Threaded(c, W, local_ops) /\ Selected(W, local_ops)

\* The first chain stays the ring it was made.
RingInv ==
  c > 0 =>
    /\ ops \in Nat /\ ops = Cardinality(LinesToWalk)
    /\ \E W \in [0 .. ops - 1 -> Lines] : Ring(0, W, ops)

\* The registers are where the tour says, and what they left is behind them.
At(W) ==
  /\ Ring(0, W, ops)
  /\ steps \in 0 .. ops - 1
  /\ \A d \in Chains : positions[d] = LinkOf(0, W[steps])
  /\ walked = {LinkOf(0, W[k]) : k \in 1 .. steps}

CallInv ==
  /\ pc = "loop" => \E W \in [0 .. ops - 1 -> Lines] : At(W)
  /\ Coverage

TourInv == Regular => BuildInv /\ RingInv /\ CallInv
=============================================================================
