---------------------------- MODULE MCExperiment ----------------------------
(***************************************************************************)
(* Experiment, instantiated for TLC by MCExperiment*.cfg.  Sizes in bytes  *)
(* are small, with pointers of two bytes; lines are chosen that hold no    *)
(* link, one, more than one, and a broken number, pages and chains that    *)
(* are multiples of them and that are not.                                 *)
(***************************************************************************)
EXTENDS Experiment

MCValues ==
  [bytes_per_line |-> {0, 1, 2, 3, 4}, bytes_per_page |-> {0, 4, 5},
   bytes_per_chain |-> {0, 1, 9, 16}, chains_per_thread |-> {0, 2},
   num_threads |-> {0, 3}, experiments |-> {0, 2},
   seconds |-> {0, 5}, iterations |-> {0, 7}, loop_length |-> {0, 4},
   stride |-> {0, 1, 3}]

\* One thread; as many chains in each; fewer, no, and more chains than in the
\* first.
MCMaps == {<<0>>, <<1>>, <<2>>, <<1, 1>>, <<2, 2, 2>>, <<2, 1>>, <<2, 0>>,
           <<1, 2>>}
=============================================================================
