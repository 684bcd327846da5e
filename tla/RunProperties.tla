--------------------------- MODULE RunProperties ----------------------------
(***************************************************************************)
(* What Run::run() (src/run.cpp) has to guarantee.                         *)
(***************************************************************************)
EXTENDS Run

-----------------------------------------------------------------------------
(* Types.                                                                  *)

\* Every variable has the type its declaration in the code gives it; no
\* experiment is run beyond the last, and no empty
\* sample is kept.
TypeOK ==
  /\ blocked \subseteq Threads
  /\ pc \in [Threads -> Label]
  /\ iters \in Int
  /\ elapsed \in Int
  /\ iterations \in Int
  /\ seconds \in Seq({d \in Deltas : 0 < d})
  /\ tmp \in [Threads -> Int]
  /\ i \in [Threads -> Int]
  /\ e \in [Threads -> 0 .. Experiments]

-----------------------------------------------------------------------------
(* Shared memory.  What thread t accesses in its next step, when it is not *)
(* held at the barrier.                                                    *)

Reads(t) ==
  CASE pc[t] = "decide"    -> {"iterations"}
    [] pc[t] = "test"      -> {"elapsed"}
    [] pc[t] = "calBench"  -> {"iters"}
    [] pc[t] = "shiftLoad" -> {"iters"}
    [] pc[t] = "predict" /\ t = 0 -> {"iters", "elapsed"}
    [] pc[t] = "expBench"  -> {"iterations"}
    [] OTHER               -> {}

Writes(t) ==
  CASE pc[t] \in {"initIters", "shiftStore"} -> {"iters"}
    [] pc[t] = "calStop" /\ t = 0 -> {"elapsed"}
    [] pc[t] = "predict" /\ t = 0 -> {"iterations"}
    [] pc[t] = "record"  /\ t = 0 -> {"seconds"}
    [] OTHER                      -> {}

\* No thread is about to write v while another is about to access it.
RaceFree(v) ==
  \A t, u \in Threads \ blocked :
    t # u /\ v \in Writes(t) => v \notin Reads(u) \cup Writes(u)

\* The barriers order every write of `elapsed' and of `iterations' by thread
\* 0 with the unlocked reads of all the others (run.cpp:150-230).
PublishedRaceFree == RaceFree("elapsed") /\ RaceFree("iterations")

\* While any thread still counts the calls of a calibration round against
\* the shared `iters' (run.cpp:173), no thread has begun to shift it.
RoundStable ==
  \A t, u \in Threads \ blocked :
    pc[t] = "calBench" => pc[u] \notin {"initIters", "shiftLoad", "shiftStore"}

-----------------------------------------------------------------------------
(* The barrier.                                                            *)

\* The stretches of code between two calls of the barrier.
Sections ==
  { {"decide", "initIters", "test", "shiftLoad", "shiftStore", "predict"},
    {"calStart"}, {"calBench"}, {"calStop"}, {"begin"}, {"expStart"},
    {"expBench"}, {"expStop"}, {"record"}, {"free", "done"} }

\* The threads stay in lockstep: those that are not held are in one section
\* of the code, and those that are held at the barrier wait at one call of it.
Lockstep ==
  /\ \E s \in Sections : \A t \in Threads \ blocked : pc[t] \in s
  /\ \A t, u \in blocked : pc[t] = pc[u]

-----------------------------------------------------------------------------
(* What is measured.                                                       *)

\* The calls a loop from 0 to n makes.
LoopCount(n) == IF n < 0 THEN 0 ELSE n

\* Thread 0 starts the timer of an experiment before any thread makes a call
\* and stops it after every thread made all of its calls, no more, no fewer
\* (run.cpp:219-307); so it does with a round of the calibration.
TimedWork ==
  /\ At(0, "expStart") => \A t \in Threads \ blocked : pc[t] # "expBench"
  /\ At(0, "expStop")  => \A t \in Threads : i[t] = iterations
  /\ At(0, "calStop")  => \A t \in Threads : i[t] = LoopCount(iters)

\* A round of the calibration at least doubles the one before, and at most
\* doubles it once for every thread: each thread shifts the same `iters'.  At
\* the start of a round i still counts the calls of the round before.
RoundGrowth ==
  \A t \in Threads \ blocked :
    pc[t] = "calStart" /\ elapsed # 0
      => iters \in 2 * i[t] .. 2 ^ NumThreads * i[t]

\* Calls at the measured speed that fill the requested time.
Needed(calls, ticks) == AtLeastOne(RoundUp(Seconds * calls, ticks))

\* However the threads' shifts interleave, the schedule fills at least the
\* requested time at the measured speed, and overshoots it by at most the
\* shifts of the other threads; and it is made once.
ScheduleBounds ==
  [][iterations' # iterations =>
       /\ iterations = 0
       /\ iterations' >= Needed(i[0], elapsed)
       /\ iterations' <= Needed(2 ^ (NumThreads - 1) * i[0], elapsed)]_vars

\* "run each experiment for <number> seconds" (experiment.cpp:402): the
\* schedule is the number of calls that fills the requested time at the speed
\* the last round measured.
ScheduleExact ==
  [][iterations' # iterations => iterations' = Needed(i[0], elapsed)]_vars

\* One sample per experiment, unless the timer saw no time pass: the samples
\* never outnumber the experiments finished, and nothing is recorded twice.
SamplesMatch ==
  /\ Len(seconds) <= e[0]
  /\ (\A d \in Deltas : 0 < d) => Len(seconds) = e[0]
  /\ pc[0] \in {"free", "done"} => e[0] = Experiments

\* All threads work on the same experiment: two that are both held, or both
\* not held, have finished equally many; and nobody runs ahead of the others
\* by more than the experiment thread 0 is recording.
SameExperiment ==
  \A t, u \in Threads :
    \/ e[t] = e[u]
    \/ At(t, "record") /\ u \in blocked /\ e[u] = e[t] + 1
    \/ At(u, "record") /\ t \in blocked /\ e[t] = e[u] + 1

-----------------------------------------------------------------------------
(* Liveness.                                                               *)

\* Every thread returns from run(): the calibration ends, no barrier waits
\* for a thread that will not come.
Termination == <>Done

-----------------------------------------------------------------------------
(* Refinement.                                                             *)

\* An experiment is being timed from the barrier after the start of the timer
\* to the barrier after its end.
Timing == \E t \in Threads \ blocked : pc[t] \in {"expBench", "expStop"}

Closed == IF At(0, "record") THEN e[0] + 1 ELSE e[0]

B == INSTANCE Benchmark WITH
       Callers   <- Threads,
       Intervals <- Experiments,
       Samples   <- {d \in Deltas : 0 < d},
       scheduled <- iterations,
       timing    <- Timing,
       calls     <- IF Timing THEN i ELSE [t \in Threads |-> 0],
       closed    <- Closed,
       pending   <- At(0, "record"),
       samples   <- seconds

\* run() implements the abstract measurement.
Measures == B!BSpec
=============================================================================
