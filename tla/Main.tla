-------------------------------- MODULE Main --------------------------------
(***************************************************************************)
(* main() (src/main.cpp) around the benchmark threads: it creates one      *)
(* after the other while the first already run, joins them in the same     *)
(* order and prints what they measured.  A thread passes through           *)
(* Thread::start_routine (src/thread.cpp), which is to pin it to a CPU,    *)
(* before it runs Run::run().                                              *)
(*                                                                         *)
(* The result of pthread_create is ignored: a thread that could not be     *)
(* created is joined all the same, by a handle that was never initialised. *)
(***************************************************************************)
EXTENDS RunProperties

CONSTANTS
  Cpus,       \* the CPUs of the machine
  Allowed,    \* the CPUs the process may use
  MayFail     \* whether pthread_create may fail (the limit of threads)

ASSUME MainAssumption ==
  /\ Cpus \subseteq Nat /\ Allowed \subseteq Cpus /\ Allowed # {}
  /\ MayFail \in BOOLEAN

VARIABLES
  mpc,        \* where main() is
  next,       \* its loop counter
  created,    \* the threads pthread_create has created
  entered,    \* those of them that are past start_routine's own code
  mask        \* the kernel's affinity mask of each thread

mainVars == <<mpc, next, created, entered, mask>>

allVars == <<blocked, pc, iters, elapsed, iterations, seconds, tmp, i, e,
             mpc, next, created, entered, mask>>

\* What names a thread to pthread_join and to the kernel: an address, and a
\* small number.
Handle(t) == [handle |-> t]
Tid(t)    == [tid |-> t]

MainInit ==
  /\ Init
  /\ mpc = "create"
  /\ next = 0
  /\ created = {}
  /\ entered = {}
  /\ mask = [t \in Threads |-> Allowed]

\* To the next thread, or on to `to' after the last one.
Advance(to) ==
  IF next + 1 < NumThreads THEN next' = next + 1 /\ UNCHANGED mpc
                           ELSE next' = 0 /\ mpc' = to

\* r[i].start(), whatever it returns.
Create ==
  /\ mpc = "create"
  /\ \/ created' = created \cup {next}
     \/ MayFail /\ UNCHANGED created
  /\ Advance("join")
  /\ UNCHANGED <<vars, entered, mask>>

\* sched_setaffinity(pid, cpus): no process has that number, or the mask of
\* the one that has it is replaced.
SetAffinity(pid, cpus) ==
  mask' = [t \in Threads |-> IF Tid(t) = pid THEN cpus ELSE mask[t]]

\* How many of the CPUs 0 to 7 the process may use.
Count == Cardinality(Allowed \cap 0 .. 7)

\* Thread::start_routine up to the call of run(): id % count is where the
\* thread is to stay.  With no CPU below 8 the division kills the process.
StartRoutine(t) ==
  /\ mpc \in {"create", "join"}
  /\ t \in created \ entered
  /\ IF Count = 0
     THEN mpc' = "killed" /\ UNCHANGED <<entered, mask>>
     ELSE /\ SetAffinity(Handle(t), {t % Count})
          /\ entered' = entered \cup {t}
          /\ UNCHANGED mpc
  /\ UNCHANGED <<vars, next, created>>

RunThread(t) ==
  /\ mpc \in {"create", "join"}
  /\ t \in entered
  /\ Thread(t)
  /\ UNCHANGED mainVars

\* A mutated wait that does not wait.
JoinNow ==
  /\ mpc = "join"
  /\ next \in created
  /\ Advance("print")
  /\ UNCHANGED <<vars, created, entered, mask>>

\* r[i].wait(): until the thread has returned.
Join ==
  /\ mpc = "join"
  /\ next \in created
  /\ pc[next] = "done"
  /\ Advance("print")
  /\ UNCHANGED <<vars, created, entered, mask>>

\* pthread_join of a handle that was never written: it may report an error,
\* which is ignored, or end the process.
JoinGarbage ==
  /\ mpc = "join"
  /\ next \notin created
  /\ \/ Advance("print")
     \/ mpc' = "killed" /\ UNCHANGED next
  /\ UNCHANGED <<vars, created, entered, mask>>

\* Output::print; main() returns and ends the process.
Report ==
  /\ mpc = "print"
  /\ mpc' = "returned"
  /\ UNCHANGED <<vars, next, created, entered, mask>>

Over ==
  /\ mpc \in {"returned", "killed"}
  /\ UNCHANGED allVars

MainNext ==
  \/ Create \/ Join \/ JoinGarbage \/ Report \/ Over
  \/ \E t \in Threads : StartRoutine(t) \/ RunThread(t)

\* The operating system keeps scheduling main() and every thread.
MainSpec ==
  /\ MainInit /\ [][MainNext]_allVars
  /\ WF_allVars(Create) /\ WF_allVars(Join) /\ WF_allVars(JoinGarbage) /\ WF_allVars(Report)
  /\ \A t \in Threads : WF_allVars(StartRoutine(t)) /\ WF_allVars(RunThread(t))

-----------------------------------------------------------------------------
MainTypeOK ==
  /\ mpc \in {"create", "join", "print", "returned", "killed"}
  /\ next \in Threads
  /\ entered \subseteq created /\ created \subseteq Threads
  /\ mask \in [Threads -> SUBSET Cpus]

\* What main() prints is final: no thread of the process is still in run()
\* when the results are read, and they are those of all experiments or, when
\* no thread at all could be created, of none.
PrintsFinal ==
  mpc \in {"print", "returned"} =>
    /\ \A t \in created : pc[t] = "done"
    /\ IF created = {} THEN seconds = << >> ELSE created = Threads /\ SamplesMatch

\* The first threads wait for those that main() has yet to create: none leaves
\* the first barrier, and no call is timed, before the last one is there.
NobodyStartsEarly ==
  \A t \in Threads : pc[t] \notin {"decide", "initIters", "test"} /\ t \notin blocked
                       => entered = Threads

\* As long as every thread is created, main() returns.
MainReturns == <>(mpc = "returned") \/ <>(mpc = "join" /\ created # Threads)
=============================================================================
