----------------------------- MODULE Experiment -----------------------------
(***************************************************************************)
(* From the command line to the shape of the benchmark:                    *)
(* Experiment::parse_args and what it calls (src/experiment.cpp), up to    *)
(* main()'s decision to create the threads (src/main.cpp).                 *)
(*                                                                         *)
(* The arguments are taken one option at a time; any option may come next, *)
(* be given again, or be the last and lack its value.  Numbers are those   *)
(* that parse_number and parse_real return.  In this build there is one    *)
(* NUMA domain, so a placement decides the sizes of the tables only.       *)
(***************************************************************************)
EXTENDS Integers, Sequences, FiniteSets

CONSTANTS
  Values,        \* for each numeric option, the numbers it may be given
  Maps,          \* the values of -n map: chains listed for each thread
  PointerSize,   \* sizeof(Chain)
  MaxOptions     \* bound on the number of options

\* The options that set one positive number, named for the field they set.
Sizes == {"bytes_per_line", "bytes_per_page", "bytes_per_chain",
          "chains_per_thread", "num_threads", "experiments"}

ASSUME ExperimentAssumption ==
  /\ Values \in [Sizes \cup {"seconds", "iterations", "loop_length", "stride"}
                   -> SUBSET Nat]
  /\ Maps \subseteq Seq(Nat) \ {<< >>}
  /\ PointerSize \in Nat \ {0}
  /\ MaxOptions \in Nat

VARIABLES
  pc,       \* where main() and parse_args are
  count,    \* options taken
  usage,    \* -h was given
  exp,      \* the fields of the Experiment
  tables    \* sizes of thread_domain and random_state, and of chain_domain's
            \* rows; Unallocated until then

vars == <<pc, count, usage, exp, tables>>

Unallocated == [threads |-> 0, chains |-> 0]

\* The defaults that matter (experiment.h), with small sizes: a page of two
\* lines and a chain of two pages.
Defaults ==
  [bytes_per_line |-> PointerSize, bytes_per_page |-> 2 * PointerSize,
   bytes_per_chain |-> 4 * PointerSize, chains_per_thread |-> 1,
   num_threads |-> 1, experiments |-> 1,
   seconds |-> 1, iterations |-> 0, loop_length |-> 0,
   access_pattern |-> "random", stride |-> 1,
   numa_placement |-> "local", placement_map |-> << >>,
   lines_per_page |-> 2, pages_per_chain |-> 2,
   links_per_line |-> 1, links_per_page |-> 2,
   lines_per_chain |-> 4, links_per_chain |-> 4,
   bytes_per_thread |-> 4 * PointerSize, bytes_per_test |-> 4 * PointerSize]

Init ==
  /\ pc = "options" /\ count = 0
  /\ usage = FALSE
  /\ exp = Defaults
  /\ tables = Unallocated

-----------------------------------------------------------------------------
(* The loop over the arguments.                                            *)

Option == pc = "options" /\ count < MaxOptions /\ count' = count + 1

\* if (this->field == 0) error: the loop is left.
RejectIf(invalid) == pc' = IF invalid THEN "rejected" ELSE "options"

\* -l, -p, -c, -r, -t and -e.
ParseSize ==
  /\ Option
  /\ \E field \in Sizes : \E v \in Values[field] :
       exp' = [exp EXCEPT ![field] = v] /\ RejectIf(v = 0)
  /\ UNCHANGED <<usage, tables>>

\* -s asks for calibration ...
ParseSeconds ==
  /\ Option
  /\ \E v \in Values["seconds"] :
       exp' = [exp EXCEPT !.seconds = v, !.iterations = 0] /\ RejectIf(v = 0)
  /\ UNCHANGED <<usage, tables>>

\* A mutated -i that leaves the seconds in place.
ParseIterationsOnly ==
  /\ Option
  /\ \E v \in Values["iterations"] :
       exp' = [exp EXCEPT !.iterations = v] /\ RejectIf(v = 0)
  /\ UNCHANGED <<usage, tables>>

\* ... and -i replaces it.
ParseIterations ==
  /\ Option
  /\ \E v \in Values["iterations"] :
       exp' = [exp EXCEPT !.iterations = v, !.seconds = 0] /\ RejectIf(v = 0)
  /\ UNCHANGED <<usage, tables>>

\* -g: what is tested is the number of experiments.
ParseLoop ==
  /\ Option
  /\ \E v \in Values["loop_length"] : exp' = [exp EXCEPT !.loop_length = v]
  /\ RejectIf(exp.experiments = 0)
  /\ UNCHANGED <<usage, tables>>

\* A mutated -a that lets a stride of zero pass.
ParseAnyAccess ==
  /\ Option
  /\ \/ exp' = [exp EXCEPT !.access_pattern = "random"] /\ RejectIf(FALSE)
     \/ \E v \in Values["stride"], sign \in {1, -1} :
          /\ exp' = [exp EXCEPT !.access_pattern = "strided",
                                !.stride = sign * v]
          /\ RejectIf(FALSE)
  /\ UNCHANGED <<usage, tables>>

\* -a random, -a forward <stride>, -a reverse <stride>.
ParseAccess ==
  /\ Option
  /\ \/ exp' = [exp EXCEPT !.access_pattern = "random"] /\ RejectIf(FALSE)
     \/ \E v \in Values["stride"], sign \in {1, -1} :
          /\ exp' = [exp EXCEPT !.access_pattern = "strided",
                                !.stride = sign * v]
          /\ RejectIf(v = 0)
  /\ UNCHANGED <<usage, tables>>

\* -n local, xor <mask>, add <offset> or map <map>.
ParsePlacement ==
  /\ Option
  /\ \/ \E p \in {"local", "xor", "add"} :
          exp' = [exp EXCEPT !.numa_placement = p]
     \/ \E map \in Maps :
          exp' = [exp EXCEPT !.numa_placement = "map", !.placement_map = map]
  /\ RejectIf(FALSE)
  /\ UNCHANGED <<usage, tables>>

ParseHelp ==
  /\ Option
  /\ usage' = TRUE
  /\ UNCHANGED <<pc, exp, tables>>

\* -x, -o and -f change nothing that is modelled.
ParseOther == Option /\ UNCHANGED <<pc, usage, exp, tables>>

\* An unknown option, an unknown pattern, format, hint or placement, or a
\* value that is missing.  The first half of an incomplete -a or -n is lost
\* with everything else: main() returns.
ParseError ==
  /\ Option
  /\ pc' = "rejected"
  /\ UNCHANGED <<usage, exp, tables>>

\* No argument is left: with -h the usage is printed and parse_args returns 0.
EndOfOptions ==
  /\ pc = "options"
  /\ pc' = IF usage THEN "run" ELSE "geometry"
  /\ UNCHANGED <<count, usage, exp, tables>>

-----------------------------------------------------------------------------
(* The geometry of the working set.                                        *)

\* Mutated and real division of a size into parts, rounded up.
PartsDown(size, part) == size \div part

Parts(size, part) == (size + part - 1) \div part

Geometry ==
  /\ pc = "geometry"
  /\ LET lines == Parts(exp.bytes_per_page, exp.bytes_per_line)
         page  == exp.bytes_per_line * lines
         pages == Parts(exp.bytes_per_chain, page)
         chain == page * pages
         links == exp.bytes_per_line \div PointerSize
     IN  exp' = [exp EXCEPT
                   !.lines_per_page   = lines,
                   !.bytes_per_page   = page,
                   !.pages_per_chain  = pages,
                   !.bytes_per_chain  = chain,
                   !.bytes_per_thread = chain * exp.chains_per_thread,
                   !.bytes_per_test   =
                      chain * exp.chains_per_thread * exp.num_threads,
                   !.links_per_line   = links,
                   !.links_per_page   = lines * links,
                   !.lines_per_chain  = lines * pages,
                   !.links_per_chain  = lines * pages * links]
  /\ pc' = "placement"
  /\ UNCHANGED <<count, usage, tables>>

-----------------------------------------------------------------------------
(* The tables for the threads.                                             *)

\* The switch, then alloc_local, alloc_xor or alloc_add.
AllocTables ==
  /\ pc = "placement" /\ exp.numa_placement \in {"local", "xor", "add"}
  /\ tables' = [threads |-> exp.num_threads, chains |-> exp.chains_per_thread]
  /\ pc' = "run"
  /\ UNCHANGED <<count, usage, exp>>

\* The chains of the first thread: commas are counted, so at least one.
FirstChains(map) == IF map[1] = 0 THEN 1 ELSE map[1]

Malformed(map) == \E t \in 2 .. Len(map) : FirstChains(map) < map[t]

\* Mutated maps: one does not override -t, one leaves the totals of the
\* options.
AllocMapThreadsKept ==
  /\ pc = "placement" /\ exp.numa_placement = "map"
  /\ ~Malformed(exp.placement_map)
  /\ tables' = [threads |-> Len(exp.placement_map),
                chains |-> FirstChains(exp.placement_map)]
  /\ exp' = [exp EXCEPT !.chains_per_thread = tables'.chains]
  /\ pc' = "run"
  /\ UNCHANGED <<count, usage>>

AllocMapTotalsKept ==
  /\ pc = "placement" /\ exp.numa_placement = "map"
  /\ ~Malformed(exp.placement_map)
  /\ tables' = [threads |-> Len(exp.placement_map),
                chains |-> FirstChains(exp.placement_map)]
  /\ exp' = [exp EXCEPT !.num_threads = tables'.threads,
                        !.chains_per_thread = tables'.chains]
  /\ pc' = "run"
  /\ UNCHANGED <<count, usage>>

\* alloc_map overrides the numbers of threads and of chains, and computes the
\* totals again.
AllocMap ==
  /\ pc = "placement" /\ exp.numa_placement = "map"
  /\ ~Malformed(exp.placement_map)
  /\ LET threads == Len(exp.placement_map)
         chains  == FirstChains(exp.placement_map)
     IN  /\ tables' = [threads |-> threads, chains |-> chains]
         /\ exp' = [exp EXCEPT
                      !.num_threads = threads,
                      !.chains_per_thread = chains,
                      !.bytes_per_thread = exp.bytes_per_chain * chains,
                      !.bytes_per_test = exp.bytes_per_chain * chains * threads]
  /\ pc' = "run"
  /\ UNCHANGED <<count, usage>>

\* "Malformed map.": exit(1).
MapError ==
  /\ pc = "placement" /\ exp.numa_placement = "map"
  /\ Malformed(exp.placement_map)
  /\ pc' = "rejected"
  /\ UNCHANGED <<count, usage, exp, tables>>

\* main() returns, or creates the threads of the experiment.
Decided == pc \in {"rejected", "run"} /\ UNCHANGED vars

Next ==
  \/ ParseSize \/ ParseSeconds \/ ParseIterations \/ ParseLoop \/ ParseAccess
  \/ ParsePlacement \/ ParseHelp \/ ParseOther \/ ParseError \/ EndOfOptions
  \/ Geometry \/ AllocTables \/ AllocMap \/ MapError \/ Decided

Spec == Init /\ [][Next]_vars

-----------------------------------------------------------------------------
(* Properties.                                                             *)

\* Types; a table, once allocated, is not empty.
TypeOK ==
  /\ pc \in {"options", "rejected", "geometry", "placement", "run"}
  /\ count \in 0 .. MaxOptions
  /\ usage \in BOOLEAN
  /\ DOMAIN exp = DOMAIN Defaults
  /\ exp.access_pattern \in {"random", "strided"}
  /\ exp.numa_placement \in {"local", "xor", "add", "map"}
  /\ exp.stride \in Int
  /\ tables = Unallocated \/ (0 < tables.threads /\ 0 < tables.chains)

\* parse_args returned after working through the options and placement.
Prepared == pc = "run" /\ ~usage

\* However -s and -i follow each other, run() either calibrates for a number
\* of seconds or runs a fixed number of iterations (experiment.cpp:120, 205,
\* run.cpp:150, 199): exactly one of them is set, so the prediction without
\* seconds is never made.
OneMode == Prepared => (0 < exp.seconds) # (0 < exp.iterations)

\* main() creates num_threads threads and each asks for chains_per_thread
\* chains; there is a random state and a row of the domains for each, whether
\* the numbers came from -t and -r, in any order, or from a map that
\* overrides them.
TablesFit ==
  Prepared => /\ tables.threads = exp.num_threads
              /\ tables.chains = exp.chains_per_thread

\* The sizes that are printed agree with those the chains are laid out by,
\* also after a map changed the number of threads and chains.
SizesAgree ==
  Prepared =>
    /\ exp.bytes_per_page = exp.lines_per_page * exp.bytes_per_line
    /\ exp.bytes_per_chain = exp.lines_per_chain * exp.bytes_per_line
    /\ exp.bytes_per_test =
         exp.num_threads * (exp.chains_per_thread * exp.bytes_per_chain)
    /\ exp.links_per_chain = exp.pages_per_chain * exp.links_per_page
    /\ exp.links_per_chain * PointerSize <= exp.bytes_per_chain

\* "we round up page and chain sizes when needed" (experiment.cpp:458): to
\* the next multiple and no further, even though the size of the page that
\* the chain is rounded to is itself rounded.
RoundsUp ==
  [][pc = "geometry" =>
       /\ exp'.bytes_per_page - exp.bytes_per_page \in 0 .. exp.bytes_per_line - 1
       /\ exp'.bytes_per_chain - exp.bytes_per_chain
            \in 0 .. exp'.bytes_per_page - 1]_vars

\* What the threads assume of an experiment (the assumptions of Run,
\* RandomState and ChainInit): somebody runs it, at least once, on chains with
\* a page, a line and a stride that goes somewhere, and with a link in each
\* line, "one pointer from each cache line" (run.cpp:386).  The last of these
\* is promised for lines that hold a pointer, and for no others: -l accepts a
\* shorter line, and the chain is then allocated without a single link
\* (experiment.cpp:465, run.cpp:105).
FitToRun ==
  Prepared =>
    /\ 0 < exp.num_threads /\ 0 < exp.experiments
    /\ 0 < exp.chains_per_thread
    /\ 0 < exp.pages_per_chain /\ 0 < exp.lines_per_page
    /\ exp.stride # 0
    /\ IF PointerSize <= exp.bytes_per_line
         THEN 0 < exp.links_per_line /\ exp.lines_per_chain <= exp.links_per_chain
         ELSE exp.links_per_line = 0 /\ exp.links_per_chain = 0
=============================================================================
