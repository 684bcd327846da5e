------------------------------- MODULE MCChase -------------------------------
(***************************************************************************)
(* Chase, instantiated for TLC.  Every shape is small; the primes are      *)
(* chosen by their remainders: 5, 11 and 13 leave 1, 3 and 1 modulo 4, and *)
(* 2, 2 and 1 modulo 3.                                                    *)
(***************************************************************************)
EXTENDS Chase

RandomShape(chains, pages, lines, links) ==
  [chains_per_thread |-> chains, pages_per_chain |-> pages,
   lines_per_page |-> lines, links_per_line |-> links,
   access_pattern |-> "random", stride |-> 1]

StridedShape(chains, pages, lines, stride) ==
  [chains_per_thread |-> chains, pages_per_chain |-> pages,
   lines_per_page |-> lines, links_per_line |-> 2,
   access_pattern |-> "strided", stride |-> stride]

\* Pages and lines that some prime of the table divides are among them.
MCRandomShapes ==
  {RandomShape(1, 1, 4, 1), RandomShape(1, 2, 4, 2), RandomShape(1, 3, 2, 2),
   RandomShape(1, 4, 1, 1), RandomShape(1, 2, 5, 1), RandomShape(1, 5, 1, 2),
   RandomShape(2, 2, 1, 1)}

MCStridedShapes ==
  {StridedShape(chains, pages, lines, stride) :
     chains \in 1 .. 2, pages \in 1 .. 3, lines \in 1 .. 4,
     stride \in {-9, -3, -2, -1, 1, 2, 3, 9}}

MCShapes == MCRandomShapes \cup MCStridedShapes

MCIrregularShapes == {RandomShape(1, 5, 2, 1)}

MCTwoChains == {StridedShape(2, 2, 2, 1)}
=============================================================================
