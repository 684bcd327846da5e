---------------------------- MODULE RunInvariant -----------------------------
(***************************************************************************)
(* The inductive invariant behind the safety properties of Run::run().     *)
(***************************************************************************)
EXTENDS RunProperties

Running == Threads \ blocked

\* Labels between the barrier that ends a round and the one that starts the
\* next, or the experiments.
Between == {"decide", "initIters", "test", "shiftLoad", "shiftStore", "predict"}

Calibration ==
  {"initIters", "test", "calStart", "calBench", "calStop",
   "shiftLoad", "shiftStore", "predict", "begin"}

\* The section of a label, named by one of its labels.
Section(l) ==
  IF l \in Between THEN "decide" ELSE IF l = "done" THEN "free" ELSE l

\* Where a running thread continues after its next call of the barrier.
Dest(t) ==
  CASE pc[t] \in Between      -> IF Iterations0 # 0 THEN "expStart"
                              ELSE IF elapsed <= Bound THEN "calStart"
                              ELSE "begin"
    [] pc[t] = "calStart"  -> "calBench"
    [] pc[t] = "calBench"  -> "calStop"
    [] pc[t] = "calStop"   -> "shiftLoad"
    [] pc[t] = "begin"     -> "expStart"
    [] pc[t] = "expStart"  -> "expBench"
    [] pc[t] = "expBench"  -> "expStop"
    [] pc[t] = "expStop"   -> "record"
    [] pc[t] = "record"    -> IF e[t] + 1 < Experiments THEN "expStart"
                              ELSE "free"
    [] OTHER               -> "none"

\* Somebody runs, all that run are in one section, and the threads held at
\* the barrier are where the running ones will go.
BarrierInv ==
  /\ Running # {}
  /\ \A t, u \in Running : Section(pc[t]) = Section(pc[u])
  /\ \A t \in Running, b \in blocked : pc[b] = Dest(t)

\* What a thread's place in the code says of the shared calibration.
CalibrationInv ==
  \A t \in Threads :
    /\ pc[t] = "decide" => iterations = Iterations0
    /\ pc[t] \in {"decide", "initIters"} => elapsed = 0
    /\ pc[t] \in Calibration => Iterations0 = 0
    /\ pc[t] \in {"predict", "begin"} => elapsed > Bound

\* The experiments finished by each thread.
ExperimentInv ==
  /\ \A t, u \in Running : e[t] = e[u]
  /\ \A t \in Running, b \in blocked :
       e[b] = IF pc[t] = "record" THEN e[t] + 1 ELSE e[t]
  /\ \A t \in Threads :
       IF pc[t] \in {"free", "done"} THEN e[t] = Experiments
                                     ELSE e[t] < Experiments

\* The calls made by each thread in the current loop.
WorkInv ==
  \A t \in Threads :
    /\ pc[t] = "expBench" => i[t] <= iterations
    /\ pc[t] \in {"expStop", "record"} => i[t] = iterations
    /\ pc[t] = "calBench" => i[t] <= LoopCount(iters) /\ (iters < 0 => i[t] = 0)
    /\ pc[t] = "calStop" \/ (pc[t] = "shiftLoad" /\ t \in blocked)
         => i[t] = LoopCount(iters)

SampleInv ==
  /\ Len(seconds) <= e[0]
  /\ (\A d \in Deltas : 0 < d) => Len(seconds) = e[0]

\* Numbers that are never negative.
NumberInv == elapsed \in Nat /\ iterations \in Nat

\* Strong enough to be preserved by every step of every thread.
IInv ==
  /\ TypeOK
  /\ NumberInv
  /\ BarrierInv
  /\ CalibrationInv
  /\ ExperimentInv
  /\ WorkInv
  /\ SampleInv

-----------------------------------------------------------------------------
(* The growth of the calibration.                                          *)

\* The calls of the longest round: one, or all doublings of what fits the bound.
Top == IF Bound = 0 THEN 1 ELSE 2 ^ NumThreads * Bound

\* No doubling that leads into another round shifts the bit of `iters' out.
NoRoundLost == 2 ^ NumThreads * Bound < LongHalf

\* No doubling at all, that after the last round included, loses the bit.
NoShiftLost == 2 ^ NumThreads * Top < LongHalf

Rounds == {"calStart", "calBench", "calStop"}

\* The threads that have stored the shift that follows a round.
Stored == {t \in Threads : t \in blocked \/ pc[t] \in {"test", "predict"}}

Shifting == elapsed # 0 /\ \E t \in Running : pc[t] \in Between

\* The timer of a round shows at least its calls; nothing is shifted before
\* the first round.
ElapsedInv ==
  /\ elapsed = 0 => iters = 1
  /\ pc[0] = "shiftLoad" /\ 0 \in blocked => elapsed >= i[0]
  /\ \A t \in Running : pc[t] \in {"shiftLoad", "shiftStore"} => elapsed # 0

\* A round makes at least one call, and no more than the longest one.
RoundInv == (\E t \in Running : pc[t] \in Rounds) => iters \in 1 .. Top

\* Between two rounds all threads remember the calls of the last one.  When no
\* shift can lose the bit, `iters' and what the threads have loaded of it are
\* at most that number, doubled once by each thread that has stored, and at
\* least twice that number as soon as one has.
ShiftInv ==
  Shifting =>
    /\ \A t \in Threads : i[t] = i[0]
    /\ i[0] \in 1 .. Top /\ i[0] <= elapsed
    /\ 2 ^ NumThreads * i[0] < LongHalf =>
         /\ iters \in i[0] .. 2 ^ Cardinality(Stored) * i[0]
         /\ Stored # {} => 2 * i[0] <= iters
         /\ \A t \in Running : pc[t] = "shiftStore" =>
              tmp[t] \in i[0] .. 2 ^ Cardinality(Stored) * i[0]

\* Nothing is scheduled before the prediction.
UnscheduledInv ==
  pc[0] \in Calibration \ {"begin"} => iterations = 0

GrowthInv ==
  ElapsedInv /\ RoundInv /\ RoundGrowth /\ ShiftInv /\ UnscheduledInv
=============================================================================
