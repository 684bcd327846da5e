--------------------------------- MODULE Run ---------------------------------
(***************************************************************************)
(* Run::run() (src/run.cpp): what every benchmark thread executes.         *)
(*                                                                         *)
(* The threads first calibrate (unless -i fixed the number of iterations): *)
(* they repeat rounds of `iters' benchmark calls, shifting `iters' left    *)
(* after each round, until a round took longer than `Bound'; thread 0 then *)
(* predicts `iterations'.  Afterwards they run `Experiments' experiments   *)
(* of `iterations' calls each, which thread 0 times.  Every step is fenced *)
(* by the shared barrier; `iters', `elapsed' and `iterations' are plain    *)
(* shared memory (two function statics and a field of the Experiment).     *)
(*                                                                         *)
(* Time is counted in ticks of one benchmark call.                         *)
(***************************************************************************)
EXTENDS SpinBarrier, Sequences

CONSTANTS
  Experiments,   \* exp->experiments
  Iterations0,   \* exp->iterations as parsed: 0 asks for calibration
  Seconds,       \* exp->seconds, in ticks
  OneSecond,     \* ticks in a second
  Bound,         \* the calibration bound, max(0.2, 10 * resolution), in ticks:
                 \* 0.2 s for every thread, each of which measures the
                 \* resolution for itself, unless it is worse than 20 ms
  Noise,         \* ticks a calibration round may take beyond its calls
  Deltas,        \* what the timer may measure for one experiment
  IntMax,        \* largest value of the loop counters (`int')
  LongHalf       \* 2^63 of `int64', scaled down

ASSUME RunAssumption ==
  /\ Experiments \in Nat \ {0}
  /\ Iterations0 \in Nat
  /\ Seconds \in Nat
  /\ OneSecond \in Nat \ {0}
  /\ Bound \in Nat
  /\ Noise \subseteq Nat
  /\ Deltas \subseteq Int
  /\ IntMax \in Nat \ {0}
  /\ LongHalf \in Nat \ {0, 1}

VARIABLES
  pc,          \* where each thread is in run()
  iters,       \* static: calls per calibration round
  elapsed,     \* static: length of the last calibration round
  iterations,  \* exp->iterations
  seconds,     \* Run::_seconds
  tmp,         \* register of the load-shift-store of iters, per thread
  i,           \* counter of the innermost loop, per thread
  e            \* number of the experiment, per thread

vars == <<blocked, pc, iters, elapsed, iterations, seconds, tmp, i, e>>

Label ==
  {"decide", "initIters", "test", "calStart", "calBench", "calStop",
   "shiftLoad", "shiftStore", "predict", "begin",
   "expStart", "expBench", "expStop", "record", "free", "done"}

Int64 == -LongHalf .. LongHalf - 1

-----------------------------------------------------------------------------
(* Arithmetic of the code.                                                 *)

\* A mutated shift that only adds one.
ShiftSlow(v) == v + 1

\* iters << 1 on a two's complement int64.
ShiftLeft(v) ==
  LET d == 2 * v
  IN  IF d >= LongHalf THEN d - 2 * LongHalf
      ELSE IF d < -LongHalf THEN d + 2 * LongHalf
      ELSE d

\* i++ on a two's complement int (the build is unoptimised: CMakeLists.txt).
Increment(n) == IF n = IntMax THEN -IntMax - 1 ELSE n + 1

AtLeastOne(n) == IF n < 1 THEN 1 ELSE n

\* (int64)(0.9999 + a / b): the quotient rounded up.
RoundUp(a, b) == (a + b - 1) \div b

\* A mutated prediction without the factor 0.5.
PredictTwice(n, ticks) ==
  IF 0 < Seconds THEN AtLeastOne(RoundUp(Seconds * n, ticks))
                 ELSE AtLeastOne(RoundUp(OneSecond * n, ticks))

\* The number of iterations thread 0 schedules; the factor 0.5 undoes the
\* shift that follows the last round.
Predict(n, ticks) ==
  IF 0 < Seconds THEN AtLeastOne(RoundUp(Seconds * n, 2 * ticks))
                 ELSE AtLeastOne(RoundUp(OneSecond * n, ticks))

-----------------------------------------------------------------------------
Init ==
  /\ BarrierInit
  /\ pc = [t \in Threads |-> "decide"]
  /\ iters = 1
  /\ elapsed = 0
  /\ iterations = Iterations0
  /\ seconds = << >>
  /\ tmp = [t \in Threads |-> 0]
  /\ i = [t \in Threads |-> 0]
  /\ e = [t \in Threads |-> 0]

\* Thread t, not held at the barrier, executes the code at `from'.
At(t, from) == t \notin blocked /\ pc[t] = from

Goto(t, to) == pc' = [pc EXCEPT ![t] = to]

\* Thread t calls barrier() and continues at `to' once it is released.
BarrierThen(t, to) == Barrier(t) /\ Goto(t, to)

-----------------------------------------------------------------------------
(* Calibration.                                                            *)

\* Set-up of the thread's own chains and code, then the shared test that
\* chooses between calibrating and going straight to the experiments.
Decide(t) ==
  /\ At(t, "decide")
  /\ IF iterations = 0
       THEN Goto(t, "initIters") /\ UNCHANGED blocked
       ELSE BarrierThen(t, "expStart")
  /\ UNCHANGED <<iters, elapsed, iterations, seconds, tmp, i, e>>

\* Every thread initialises the shared iters.
InitIters(t) ==
  /\ At(t, "initIters")
  /\ iters' = 1
  /\ Goto(t, "test")
  /\ UNCHANGED <<blocked, elapsed, iterations, seconds, tmp, i, e>>

\* elapsed <= bound: another round, or the end of the loop.
Test(t) ==
  /\ At(t, "test")
  /\ IF elapsed <= Bound
       THEN BarrierThen(t, "calStart")
       ELSE Goto(t, "predict") /\ UNCHANGED blocked
  /\ UNCHANGED <<iters, elapsed, iterations, seconds, tmp, i, e>>

\* Thread 0 reads the timer (istart is its own); everybody resets i.
CalStart(t) ==
  /\ At(t, "calStart")
  /\ i' = [i EXCEPT ![t] = 0]
  /\ BarrierThen(t, "calBench")
  /\ UNCHANGED <<iters, elapsed, iterations, seconds, tmp, e>>

\* One call of the generated function, or the end of the round.
CalBench(t) ==
  /\ At(t, "calBench")
  /\ IF i[t] < iters
       THEN /\ i' = [i EXCEPT ![t] = Increment(@)]
            /\ UNCHANGED <<blocked, pc>>
       ELSE BarrierThen(t, "calStop") /\ UNCHANGED i
  /\ UNCHANGED <<iters, elapsed, iterations, seconds, tmp, e>>

\* A mutated stop where every thread skips the barrier after the timing.
CalStopNoBarrier(t) ==
  /\ At(t, "calStop")
  /\ IF t = 0 THEN \E n \in Noise : elapsed' = i[0] + n
              ELSE UNCHANGED elapsed
  /\ Goto(t, "shiftLoad")
  /\ UNCHANGED <<blocked, iters, iterations, seconds, tmp, i, e>>

\* Thread 0 reads the timer and publishes the length of the round.
CalStop(t) ==
  /\ At(t, "calStop")
  /\ IF t = 0 THEN \E n \in Noise : elapsed' = i[0] + n
              ELSE UNCHANGED elapsed
  /\ BarrierThen(t, "shiftLoad")
  /\ UNCHANGED <<iters, iterations, seconds, tmp, i, e>>

\* iters = iters << 1 by every thread, unlocked: the load ...
ShiftLoad(t) ==
  /\ At(t, "shiftLoad")
  /\ tmp' = [tmp EXCEPT ![t] = iters]
  /\ Goto(t, "shiftStore")
  /\ UNCHANGED <<blocked, iters, elapsed, iterations, seconds, i, e>>

\* ... and the store.
ShiftStore(t) ==
  /\ At(t, "shiftStore")
  /\ iters' = ShiftLeft(tmp[t])
  /\ Goto(t, "test")
  /\ UNCHANGED <<blocked, elapsed, iterations, seconds, tmp, i, e>>

\* Thread 0 schedules the experiments.
PredictIterations(t) ==
  /\ At(t, "predict")
  /\ iterations' = IF t = 0 THEN Predict(iters, elapsed) ELSE iterations
  /\ BarrierThen(t, "begin")
  /\ UNCHANGED <<iters, elapsed, seconds, tmp, i, e>>

-----------------------------------------------------------------------------
(* Experiments.                                                            *)

Begin(t) ==
  /\ At(t, "begin")
  /\ BarrierThen(t, "expStart")
  /\ UNCHANGED <<iters, elapsed, iterations, seconds, tmp, i, e>>

ExpStart(t) ==
  /\ At(t, "expStart")
  /\ i' = [i EXCEPT ![t] = 0]
  /\ BarrierThen(t, "expBench")
  /\ UNCHANGED <<iters, elapsed, iterations, seconds, tmp, e>>

\* Mutated experiments: one call too few, and no barrier before the timer is
\* stopped.
ExpBenchShort(t) ==
  /\ At(t, "expBench")
  /\ IF i[t] + 1 < iterations
       THEN /\ i' = [i EXCEPT ![t] = Increment(@)]
            /\ UNCHANGED <<blocked, pc>>
       ELSE BarrierThen(t, "expStop") /\ UNCHANGED i
  /\ UNCHANGED <<iters, elapsed, iterations, seconds, tmp, e>>

ExpBenchNoBarrier(t) ==
  /\ At(t, "expBench")
  /\ IF i[t] < iterations
       THEN /\ i' = [i EXCEPT ![t] = Increment(@)]
            /\ UNCHANGED pc
       ELSE Goto(t, "expStop") /\ UNCHANGED i
  /\ UNCHANGED <<blocked, iters, elapsed, iterations, seconds, tmp, e>>

ExpBench(t) ==
  /\ At(t, "expBench")
  /\ IF i[t] < iterations
       THEN /\ i' = [i EXCEPT ![t] = Increment(@)]
            /\ UNCHANGED <<blocked, pc>>
       ELSE BarrierThen(t, "expStop") /\ UNCHANGED i
  /\ UNCHANGED <<iters, elapsed, iterations, seconds, tmp, e>>

ExpStop(t) ==
  /\ At(t, "expStop")
  /\ BarrierThen(t, "record")
  /\ UNCHANGED <<iters, elapsed, iterations, seconds, tmp, i, e>>

\* Mutated records: one experiment too many, and no barrier before the next.
RecordOnceMore(t) ==
  /\ At(t, "record")
  /\ IF t = 0
       THEN \E d \in Deltas :
              seconds' = IF 0 < d THEN Append(seconds, d) ELSE seconds
       ELSE UNCHANGED seconds
  /\ e' = [e EXCEPT ![t] = @ + 1]
  /\ BarrierThen(t, IF e[t] + 1 <= Experiments THEN "expStart" ELSE "free")
  /\ UNCHANGED <<iters, elapsed, iterations, tmp, i>>

RecordNoBarrier(t) ==
  /\ At(t, "record")
  /\ IF t = 0
       THEN \E d \in Deltas :
              seconds' = IF 0 < d THEN Append(seconds, d) ELSE seconds
       ELSE UNCHANGED seconds
  /\ e' = [e EXCEPT ![t] = @ + 1]
  /\ Goto(t, IF e[t] + 1 < Experiments THEN "expStart" ELSE "free")
  /\ UNCHANGED <<blocked, iters, elapsed, iterations, tmp, i>>

\* Thread 0 records the time of an experiment that took any; everybody
\* turns to the next experiment or to the last barrier.
Record(t) ==
  /\ At(t, "record")
  /\ IF t = 0
       THEN \E d \in Deltas :
              seconds' = IF 0 < d THEN Append(seconds, d) ELSE seconds
       ELSE UNCHANGED seconds
  /\ e' = [e EXCEPT ![t] = @ + 1]
  /\ BarrierThen(t, IF e[t] + 1 < Experiments THEN "expStart" ELSE "free")
  /\ UNCHANGED <<iters, elapsed, iterations, tmp, i>>

\* delete[] of the thread's chains, and return.
Free(t) ==
  /\ At(t, "free")
  /\ Goto(t, "done")
  /\ UNCHANGED <<blocked, iters, elapsed, iterations, seconds, tmp, i, e>>

-----------------------------------------------------------------------------
Thread(t) ==
  \/ Decide(t) \/ InitIters(t) \/ Test(t) \/ CalStart(t) \/ CalBench(t)
  \/ CalStop(t) \/ ShiftLoad(t) \/ ShiftStore(t) \/ PredictIterations(t)
  \/ Begin(t) \/ ExpStart(t) \/ ExpBench(t) \/ ExpStop(t) \/ Record(t)
  \/ Free(t)

Done == \A t \in Threads : pc[t] = "done"

\* The process returns to main() once every thread is done.
Terminating == Done /\ UNCHANGED vars

Next == (\E t \in Threads : Thread(t)) \/ Terminating

Spec == Init /\ [][Next]_vars

\* The operating system keeps scheduling every thread.
FairSpec == Spec /\ \A t \in Threads : WF_vars(Thread(t))

=============================================================================
