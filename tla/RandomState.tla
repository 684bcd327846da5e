----------------------------- MODULE RandomState -----------------------------
(***************************************************************************)
(* How the threads share random() while they lay out their chains          *)
(* (Run::random_mem_init, src/run.cpp).                                    *)
(*                                                                         *)
(* The C library has one active generator state for the whole process.     *)
(* Experiment::parse_args makes a state for every thread (src/             *)
(* experiment.cpp); under the global mutex a thread activates its own and  *)
(* draws two numbers, once for a chain and once for each of its pages; at  *)
(* the end of a chain it publishes the number of operations under the same *)
(* mutex.  A number is abstracted to the state it is drawn from and its    *)
(* index there; what the numbers are used for is in ChainInit.             *)
(***************************************************************************)
EXTENDS Integers, Sequences

CONSTANTS
  NumThreads,        \* exp->num_threads
  ChainsPerThread,   \* exp->chains_per_thread
  PagesPerChain,     \* exp->pages_per_chain
  LinesPerPage       \* exp->lines_per_page

ASSUME RandomStateAssumption ==
  /\ NumThreads \in Nat \ {0}
  /\ ChainsPerThread \in Nat \ {0}
  /\ PagesPerChain \in Nat \ {0}
  /\ LinesPerPage \in Nat \ {0}

VARIABLES
  pc,          \* where each thread is in random_mem_init
  owner,       \* holder of Run::global_mutex, or Nobody
  active,      \* the thread whose state random() uses
  position,    \* numbers already drawn from the state of each thread
  drawn,       \* the numbers each thread has received
  page,        \* pages the thread has begun of its chain
  chain,       \* chains the thread has finished
  ops          \* Run::_ops_per_chain

vars == <<pc, owner, active, position, drawn, page, chain, ops>>

Threads == 0 .. NumThreads - 1
Nobody == -1

\* initstate() activates each new state; the last one stays active.
Init ==
  /\ pc = [t \in Threads |-> "lock"]
  /\ owner = Nobody
  /\ active = NumThreads - 1
  /\ position = [t \in Threads |-> 0]
  /\ drawn = [t \in Threads |-> << >>]
  /\ page = [t \in Threads |-> 0]
  /\ chain = [t \in Threads |-> 0]
  /\ ops = 0

Goto(t, from, to) == pc[t] = from /\ pc' = [pc EXCEPT ![t] = to]

\* random(): the next number of the active state.
Random(t) ==
  /\ drawn' = [drawn EXCEPT ![t] = Append(@, <<active, position[active]>>)]
  /\ position' = [position EXCEPT ![active] = @ + 1]

\* global_mutex.lock() before a session of draws.
Lock(t) ==
  /\ Goto(t, "lock", "setState")
  /\ owner = Nobody
  /\ owner' = t
  /\ UNCHANGED <<active, position, drawn, page, chain, ops>>

\* A mutated session that activates the state once per chain, not per page.
SetStateOnce(t) ==
  /\ Goto(t, "setState", "factor")
  /\ active' = IF page[t] = 0 THEN t ELSE active
  /\ UNCHANGED <<owner, position, drawn, page, chain, ops>>

\* setstate(exp->random_state[thread_id()]).
SetState(t) ==
  /\ Goto(t, "setState", "factor")
  /\ active' = t
  /\ UNCHANGED <<owner, position, drawn, page, chain, ops>>

\* The number that selects page_factor or line_factor ...
DrawFactor(t) ==
  /\ Goto(t, "factor", "offset")
  /\ Random(t)
  /\ UNCHANGED <<owner, active, page, chain, ops>>

\* ... and the one that selects page_offset or line_offset.
DrawOffset(t) ==
  /\ Goto(t, "offset", "unlock")
  /\ Random(t)
  /\ UNCHANGED <<owner, active, page, chain, ops>>

\* A mutated end of a session that keeps the mutex.
UnlockForgotten(t) ==
  /\ Goto(t, "unlock", IF page[t] < PagesPerChain THEN "lock" ELSE "lockOps")
  /\ page' = [page EXCEPT ![t] = IF @ < PagesPerChain THEN @ + 1 ELSE @]
  /\ UNCHANGED <<owner, active, position, drawn, chain, ops>>

\* global_mutex.unlock(); the thread lays out the page, if it has begun one,
\* and turns to the next page or to the end of the chain.
Unlock(t) ==
  /\ Goto(t, "unlock", IF page[t] < PagesPerChain THEN "lock" ELSE "lockOps")
  /\ owner' = Nobody
  /\ page' = [page EXCEPT ![t] = IF @ < PagesPerChain THEN @ + 1 ELSE @]
  /\ UNCHANGED <<active, position, drawn, chain, ops>>

LockOps(t) ==
  /\ Goto(t, "lockOps", "writeOps")
  /\ owner = Nobody
  /\ owner' = t
  /\ UNCHANGED <<active, position, drawn, page, chain, ops>>

\* A mutated count that adds up over the threads.
WriteOpsAdded(t) ==
  /\ Goto(t, "writeOps", "unlockOps")
  /\ ops' = ops + page[t] * LinesPerPage
  /\ UNCHANGED <<owner, active, position, drawn, page, chain>>

\* One operation was counted for every line of every page.
WriteOps(t) ==
  /\ Goto(t, "writeOps", "unlockOps")
  /\ ops' = page[t] * LinesPerPage
  /\ UNCHANGED <<owner, active, position, drawn, page, chain>>

\* The next chain, or the end of the thread's initialisation.
UnlockOps(t) ==
  /\ Goto(t, "unlockOps", IF chain[t] + 1 < ChainsPerThread THEN "lock"
                          ELSE "ready")
  /\ owner' = Nobody
  /\ chain' = [chain EXCEPT ![t] = @ + 1]
  /\ page' = [page EXCEPT ![t] = 0]
  /\ UNCHANGED <<active, position, drawn, ops>>

Thread(t) ==
  \/ Lock(t) \/ SetState(t) \/ DrawFactor(t) \/ DrawOffset(t) \/ Unlock(t)
  \/ LockOps(t) \/ WriteOps(t) \/ UnlockOps(t)

Ready == \A t \in Threads : pc[t] = "ready"

\* The threads go on to the benchmark.
Terminating == Ready /\ UNCHANGED vars

Next == (\E t \in Threads : Thread(t)) \/ Terminating

Spec == Init /\ [][Next]_vars

FairSpec == Spec /\ \A t \in Threads : WF_vars(Thread(t))

-----------------------------------------------------------------------------
(* Properties.                                                             *)

Label == {"lock", "setState", "factor", "offset", "unlock",
          "lockOps", "writeOps", "unlockOps", "ready"}

Locked == {"setState", "factor", "offset", "unlock", "writeOps", "unlockOps"}

\* Types, and the bounds of the loops over pages and chains.
TypeOK ==
  /\ pc \in [Threads -> Label]
  /\ owner \in Threads \cup {Nobody}
  /\ active \in Threads
  /\ position \in [Threads -> Nat]
  /\ drawn \in [Threads -> Seq(Threads \X Nat)]
  /\ page \in [Threads -> 0 .. PagesPerChain]
  /\ chain \in [Threads -> 0 .. ChainsPerThread]
  /\ ops \in Nat

\* random() is not thread safe (run.cpp:394): only one thread is between
\* lock() and unlock() of the mutex, its holder.
MutualExclusion ==
  \A t \in Threads : pc[t] \in Locked <=> owner = t

\* However the threads interleave, thread t receives exactly the numbers
\* 0, 1, 2, ... of the state that was initialised for it (run.cpp:397-411).
OwnStream ==
  \A t \in Threads : \A k \in 1 .. Len(drawn[t]) : drawn[t][k] = <<t, k - 1>>

\* Two numbers were drawn for each chain and two for each of its pages, of
\* the thread's own state and of no other.
DrawsPerChain ==
  \A t \in Threads :
    pc[t] \in {"lockOps", "writeOps", "unlockOps", "ready"} =>
      /\ position[t] = Len(drawn[t])
      /\ LET chains == chain[t] + IF pc[t] = "ready" THEN 0 ELSE 1
         IN  Len(drawn[t]) = 2 * ((PagesPerChain + 1) * chains)

\* The number of operations that main prints does not depend on the thread
\* that published it last (run.cpp:435, main.cpp:94).
OpsAgree ==
  \A t \in Threads :
    pc[t] = "unlockOps" \/ 0 < chain[t] => ops = PagesPerChain * LinesPerPage

\* Every thread gets its chains initialised although the mutex is not fair.
EveryoneReady == <>Ready
=============================================================================
