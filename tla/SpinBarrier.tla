----------------------------- MODULE SpinBarrier -----------------------------
(***************************************************************************)
(* The barrier all benchmark threads share (src/spinbarrier.cpp), a        *)
(* wrapper of a pthread barrier with one participant per thread.           *)
(*                                                                         *)
(* `blocked' is the set of threads inside barrier().  The caller moves its *)
(* program counter past the call when it enters; it is held back while it  *)
(* is in `blocked'.                                                        *)
(***************************************************************************)
EXTENDS Integers, FiniteSets

CONSTANT NumThreads   \* e.num_threads, at least 1 (parse_args rejects 0)

ASSUME NumThreadsAssumption == NumThreads \in Nat \ {0}

VARIABLE blocked

\* Thread ids in order of construction of the array of Runs (thread.cpp).
Threads == 0 .. NumThreads - 1

\* main.cpp constructs the barrier with the number of threads.
limit == NumThreads

BarrierInit == blocked = {}

\* Mutated barriers: one opens an arrival too early, one waits for one more.
BarrierEarly(t) ==
  blocked' = IF Cardinality(blocked) + 2 >= limit THEN {} ELSE blocked \cup {t}

BarrierLate(t) ==
  blocked' = IF Cardinality(blocked) = limit THEN {} ELSE blocked \cup {t}

\* barrier(): the last participant releases everybody, itself included.
Barrier(t) ==
  blocked' = IF Cardinality(blocked) + 1 = limit THEN {} ELSE blocked \cup {t}

=============================================================================
