----------------------------- MODULE RunProofs ------------------------------
(***************************************************************************)
(* Proofs of the safety properties of Run::run() (src/run.cpp), for every  *)
(* number of threads, of experiments and of iterations, and that run()     *)
(* implements the abstract measurement of Benchmark; and then about main() *)
(* (src/main.cpp) and the threads it creates and joins, whichever of them  *)
(* cannot be created.                                                      *)
(***************************************************************************)
EXTENDS RunInvariant, Main, FiniteSetTheorems, TLAPS

USE NumThreadsAssumption, RunAssumption

-----------------------------------------------------------------------------
(* The barrier.                                                            *)

\* Counting arrivals is knowing who arrived: the barrier opens exactly when
\* all other threads are held at it.
LEMMA LastArrival ==
  ASSUME blocked \subseteq Threads, NEW t \in Threads, t \notin blocked
  PROVE  Cardinality(blocked) + 1 = limit <=> blocked \cup {t} = Threads
<1>1. IsFiniteSet(Threads) /\ Cardinality(Threads) = NumThreads
  BY FS_Interval DEF Threads
<1>2. IsFiniteSet(blocked)
  BY <1>1, FS_Subset
<1>3. /\ IsFiniteSet(blocked \cup {t})
      /\ Cardinality(blocked \cup {t}) = Cardinality(blocked) + 1
  BY <1>2, FS_AddElement
<1>4. blocked \cup {t} \subseteq Threads
  OBVIOUS
<1>5. Cardinality(blocked \cup {t}) = Cardinality(Threads)
        => blocked \cup {t} = Threads
  BY <1>1, <1>4, FS_Subset
<1> QED
  BY <1>1, <1>3, <1>5 DEF limit

\* A call of the barrier either holds the caller back or, from the last
\* thread, releases everybody.
LEMMA BarrierStep ==
  ASSUME blocked \subseteq Threads, NEW t \in Threads, t \notin blocked,
         Barrier(t)
  PROVE  \/ blocked \cup {t} = Threads /\ blocked' = {}
         \/ blocked \cup {t} # Threads /\ blocked' = blocked \cup {t}
BY LastArrival DEF Barrier

\* Running threads agree on where the next barrier leads.
LEMMA SameDest ==
  ASSUME BarrierInv, ExperimentInv, NEW t \in Running, NEW u \in Running
  PROVE  Dest(t) = Dest(u)
<1>1. Section(pc[t]) = Section(pc[u]) /\ e[t] = e[u]
  BY DEF BarrierInv, ExperimentInv
<1> QED
  BY <1>1 DEF Section, Dest, Between

\* A call of the barrier that leads where the others are led preserves
\* BarrierInv.
LEMMA Arrive ==
  ASSUME TypeOK, BarrierInv, ExperimentInv,
         NEW t \in Running, BarrierThen(t, Dest(t)),
         elapsed' = elapsed \/ pc[t] = "calStop",
         \A u \in Threads \ {t} : e'[u] = e[u]
  PROVE  BarrierInv'
<1>1. /\ t \in Threads /\ t \notin blocked /\ blocked \subseteq Threads
      /\ pc' = [pc EXCEPT ![t] = Dest(t)] /\ pc \in [Threads -> Label]
  BY DEF TypeOK, Running, BarrierThen, Goto
<1>2. CASE blocked \cup {t} = Threads /\ blocked' = {}
  <2>1. \A u \in Threads : pc'[u] = Dest(t)
    BY <1>1, <1>2 DEF BarrierInv
  <2> QED
    BY <1>1, <1>2, <2>1 DEF BarrierInv, Running
<1>3. CASE blocked \cup {t} # Threads /\ blocked' = blocked \cup {t}
  <2>1. Running' # {} /\ Running' = Running \ {t}
    BY <1>1, <1>3 DEF Running
  <2>2. \A u \in Running' : pc'[u] = pc[u] /\ e'[u] = e[u] /\ u \in Running
    BY <1>1, <2>1 DEF Running
  <2>3. \A u, v \in Running' : Section(pc[u])' = Section(pc[v])'
    BY <2>2 DEF BarrierInv, Section
  <2>4. ASSUME NEW u \in Running' PROVE Dest(u)' = Dest(u)
    <3>1. Section(pc[u]) = Section(pc[t])
      BY <2>2 DEF BarrierInv
    <3>2. pc[u] \in Between => elapsed' = elapsed
      BY <3>1 DEF Section, Between
    <3> QED
      BY <2>2, <3>2 DEF Dest
  <2>5. ASSUME NEW u \in Running', NEW b \in blocked' PROVE pc'[b] = Dest(u)'
    <3>1. Dest(u)' = Dest(t)
      BY <2>2, <2>4, SameDest
    <3>2. CASE b = t
      BY <1>1, <3>1, <3>2
    <3>3. CASE b \in blocked
      BY <1>1, <3>1, <3>3 DEF BarrierInv
    <3> QED
      BY <1>3, <3>2, <3>3
  <2> QED
    BY <2>1, <2>3, <2>5 DEF BarrierInv
<1> QED
  BY <1>1, <1>2, <1>3, BarrierStep DEF BarrierThen

\* So does a step of a thread within its section.
LEMMA Move ==
  ASSUME TypeOK, BarrierInv,
         NEW t \in Running, NEW to \in Label, Goto(t, to),
         Section(to) = Section(pc[t]),
         UNCHANGED <<blocked, elapsed, e>>
  PROVE  BarrierInv'
<1>1. pc' = [pc EXCEPT ![t] = to] /\ pc \in [Threads -> Label]
      /\ Running' = Running /\ Running \subseteq Threads
      /\ blocked \subseteq Threads /\ t \notin blocked /\ t \in Threads
  BY DEF TypeOK, Running, Goto
<1>2. \A u \in Running : Section(pc'[u]) = Section(pc[u])
  BY <1>1
<1>3. \A b \in blocked : pc'[b] = pc[b]
  BY <1>1
<1>4. \A u \in Running : Dest(u)' = Dest(u)
  BY <1>1, <1>2 DEF Dest, Section, Between
<1>5. \A u, v \in Running' : Section(pc[u])' = Section(pc[v])'
  BY <1>1, <1>2 DEF BarrierInv, Section
<1> QED
  BY <1>1, <1>3, <1>4, <1>5 DEF BarrierInv

\* A call of the barrier other than the one after an experiment leaves the
\* number of experiments finished as it is.
LEMMA ArriveExperiment ==
  ASSUME TypeOK, BarrierInv, ExperimentInv,
         NEW t \in Running, NEW to \in Label, BarrierThen(t, to),
         pc[t] \notin {"record", "free", "done"},
         to \notin {"free", "done"},
         UNCHANGED e
  PROVE  ExperimentInv'
<1>1. /\ t \in Threads /\ t \notin blocked /\ blocked \subseteq Threads
      /\ pc' = [pc EXCEPT ![t] = to] /\ pc \in [Threads -> Label]
  BY DEF TypeOK, Running, BarrierThen, Goto
<1>2. \A u \in Running : pc[u] # "record"
  BY <1>1 DEF BarrierInv, Section, Between
<1>3. \A u \in Threads : e[u] = e[t]
  BY <1>2 DEF ExperimentInv, Running
<1>4. \A u \in Threads : IF pc'[u] \in {"free", "done"}
                           THEN e[u] = Experiments ELSE e[u] < Experiments
  BY <1>1 DEF ExperimentInv
<1>5. CASE blocked' = {}
  <2>1. Running' = Threads
    BY <1>5 DEF Running
  <2> QED
    BY <1>3, <1>4, <1>5, <2>1 DEF ExperimentInv
<1>6. CASE blocked' = blocked \cup {t}
  <2>1. \A u \in Running' : u \in Running /\ pc'[u] # "record"
    BY <1>1, <1>2, <1>6 DEF Running
  <2>2. Running' \subseteq Threads /\ blocked' \subseteq Threads
    BY <1>1, <1>6 DEF Running
  <2> QED
    BY <1>3, <1>4, <2>1, <2>2 DEF ExperimentInv
<1> QED
  BY <1>1, <1>5, <1>6, BarrierStep DEF BarrierThen

LEMMA MoveExperiment ==
  ASSUME TypeOK, ExperimentInv,
         NEW t \in Running, NEW to \in Label, Goto(t, to),
         pc[t] \notin {"record", "free", "done"},
         to \notin {"record", "free", "done"},
         UNCHANGED <<blocked, e>>
  PROVE  ExperimentInv'
<1>1. /\ t \in Threads /\ Running' = Running /\ Running \subseteq Threads
      /\ pc' = [pc EXCEPT ![t] = to] /\ pc \in [Threads -> Label]
  BY DEF TypeOK, Running, Goto
<1>2. \A u \in Threads : /\ (pc'[u] = "record") <=> (pc[u] = "record")
                         /\ (pc'[u] \in {"free", "done"})
                              <=> (pc[u] \in {"free", "done"})
  BY <1>1
<1> QED
  BY <1>1, <1>2 DEF ExperimentInv

-----------------------------------------------------------------------------
(* The arithmetic of the calibration.                                      *)

LEMMA ShiftLeftType ==
  ASSUME NEW v \in Int PROVE ShiftLeft(v) \in Int
BY DEF ShiftLeft

LEMMA IncrementType ==
  ASSUME NEW n \in Int
  PROVE  Increment(n) \in Int /\ Increment(n) <= n + 1
BY DEF Increment

\* Whatever was measured, at least one iteration is scheduled.
LEMMA PredictPositive ==
  ASSUME NEW n \in Int, NEW ticks \in Nat \ {0}
  PROVE  Predict(n, ticks) \in Nat \ {0}
<1>1. ASSUME NEW a \in Int, NEW b \in Nat \ {0}
      PROVE  AtLeastOne(RoundUp(a, b)) \in Nat \ {0}
  BY DEF AtLeastOne, RoundUp
<1>2. Seconds * n \in Int /\ OneSecond * n \in Int /\ 2 * ticks \in Nat \ {0}
  OBVIOUS
<1> QED
  BY <1>1, <1>2 DEF Predict

-----------------------------------------------------------------------------
(* Every step preserves the invariant.                                     *)

LEMMA InitInvariant == Init => IInv
<1> SUFFICES ASSUME Init PROVE IInv
  OBVIOUS
<1>1. 0 \in Threads /\ Running = Threads
  BY DEF Init, BarrierInit, Threads, Running
<1>2. TypeOK /\ NumberInv
  BY <1>1 DEF Init, BarrierInit, TypeOK, NumberInv, Label
<1>3. BarrierInv
  BY <1>1 DEF Init, BarrierInit, BarrierInv
<1>4. CalibrationInv
  BY <1>1 DEF Init, CalibrationInv, Calibration
<1>5. ExperimentInv
  BY <1>1 DEF Init, BarrierInit, ExperimentInv
<1>6. WorkInv /\ SampleInv
  BY <1>1 DEF Init, BarrierInit, WorkInv, SampleInv
<1> QED
  BY <1>2, <1>3, <1>4, <1>5, <1>6 DEF IInv

\* When a thread is between two rounds nobody is inside a round, or inside
\* an experiment.
LEMMA OthersBetween ==
  ASSUME TypeOK, BarrierInv, NEW t \in Running, pc[t] \in Between
  PROVE  \A u \in Threads :
           IF u \in blocked THEN pc[u] \in {"calStart", "begin", "expStart"}
                            ELSE pc[u] \in Between
<1>1. \A u \in Running : pc[u] \in Between
  BY DEF BarrierInv, Section, Between
<1>2. \A u \in blocked : pc[u] \in {"calStart", "begin", "expStart"}
  BY DEF BarrierInv, Dest, Between
<1> QED
  BY <1>1, <1>2 DEF Running

\* When thread 0 is about to publish the length of a round, all threads have
\* ended it.
LEMMA OthersStopped ==
  ASSUME TypeOK, BarrierInv, NEW t \in Running, pc[t] = "calStop"
  PROVE  \A u \in Threads :
           IF u \in blocked THEN pc[u] = "shiftLoad" ELSE pc[u] = "calStop"
<1>1. \A u \in Running : pc[u] = "calStop"
  BY DEF BarrierInv, Section, Between
<1>2. \A u \in blocked : pc[u] = "shiftLoad"
  BY DEF BarrierInv, Dest, Between
<1> QED
  BY <1>1, <1>2 DEF Running

LEMMA DecideStep ==
  ASSUME IInv, NEW t \in Threads, Decide(t) PROVE IInv'
<1>1. t \in Running /\ pc[t] = "decide" /\ iterations = Iterations0
  BY DEF IInv, CalibrationInv, Decide, At, Running
<1>2. TypeOK' /\ NumberInv'
  BY DEF IInv, TypeOK, NumberInv, Decide, BarrierThen, Barrier, Goto, Label
<1>3. BarrierInv' /\ ExperimentInv'
  <2>1. CASE iterations = 0
    BY <1>1, <2>1, Move, MoveExperiment
       DEF IInv, Decide, Section, Between, Label
  <2>2. CASE iterations # 0
    <3>1. BarrierThen(t, "expStart") /\ Dest(t) = "expStart"
      BY <1>1, <2>2 DEF Decide, Dest, Between
    <3> QED
      BY <1>1, <3>1, Arrive, ArriveExperiment DEF IInv, Decide, Label
  <2> QED
    BY <2>1, <2>2
<1>4. CalibrationInv'
  BY <1>1 DEF IInv, TypeOK, CalibrationInv, Calibration, Decide, BarrierThen,
     Goto
<1>5. WorkInv' /\ SampleInv'
  BY <1>1 DEF IInv, TypeOK, WorkInv, SampleInv, Decide, BarrierThen, Barrier,
     Goto
<1> QED
  BY <1>2, <1>3, <1>4, <1>5 DEF IInv

LEMMA InitItersStep ==
  ASSUME IInv, NEW t \in Threads, InitIters(t) PROVE IInv'
<1>1. t \in Running /\ pc[t] = "initIters"
  BY DEF IInv, InitIters, At, Running
<1>2. TypeOK' /\ NumberInv'
  BY DEF IInv, TypeOK, NumberInv, InitIters, Goto, Label
<1>3. BarrierInv' /\ ExperimentInv'
  BY <1>1, Move, MoveExperiment DEF IInv, InitIters, Section, Between, Label
<1>4. CalibrationInv'
  BY <1>1 DEF IInv, TypeOK, CalibrationInv, Calibration, InitIters, Goto
<1>5. WorkInv' /\ SampleInv'
  BY <1>1, OthersBetween
     DEF IInv, TypeOK, WorkInv, SampleInv, InitIters, Goto, Between
<1> QED
  BY <1>2, <1>3, <1>4, <1>5 DEF IInv

LEMMA ShiftLoadStep ==
  ASSUME IInv, NEW t \in Threads, ShiftLoad(t) PROVE IInv'
<1>1. t \in Running /\ pc[t] = "shiftLoad"
  BY DEF IInv, ShiftLoad, At, Running
<1>2. TypeOK' /\ NumberInv'
  BY DEF IInv, TypeOK, NumberInv, ShiftLoad, Goto, Label
<1>3. BarrierInv' /\ ExperimentInv'
  BY <1>1, Move, MoveExperiment DEF IInv, ShiftLoad, Section, Between, Label
<1>4. CalibrationInv'
  BY <1>1 DEF IInv, TypeOK, CalibrationInv, Calibration, ShiftLoad, Goto
<1>5. WorkInv' /\ SampleInv'
  BY <1>1 DEF IInv, TypeOK, WorkInv, SampleInv, ShiftLoad, Goto
<1> QED
  BY <1>2, <1>3, <1>4, <1>5 DEF IInv

LEMMA ShiftStoreStep ==
  ASSUME IInv, NEW t \in Threads, ShiftStore(t) PROVE IInv'
<1>1. t \in Running /\ pc[t] = "shiftStore"
  BY DEF IInv, ShiftStore, At, Running
<1>2. TypeOK' /\ NumberInv'
  BY ShiftLeftType DEF IInv, TypeOK, NumberInv, ShiftStore, Goto, Label
<1>3. BarrierInv' /\ ExperimentInv'
  BY <1>1, Move, MoveExperiment DEF IInv, ShiftStore, Section, Between, Label
<1>4. CalibrationInv'
  BY <1>1 DEF IInv, TypeOK, CalibrationInv, Calibration, ShiftStore, Goto
<1>5. WorkInv' /\ SampleInv'
  BY <1>1, OthersBetween
     DEF IInv, TypeOK, WorkInv, SampleInv, ShiftStore, Goto, Between
<1> QED
  BY <1>2, <1>3, <1>4, <1>5 DEF IInv

LEMMA CalStartStep ==
  ASSUME IInv, NEW t \in Threads, CalStart(t) PROVE IInv'
<1>1. /\ t \in Running /\ pc[t] = "calStart"
      /\ BarrierThen(t, "calBench") /\ Dest(t) = "calBench"
  BY DEF IInv, CalStart, At, Running, Dest, Between
<1>2. TypeOK' /\ NumberInv'
  BY DEF IInv, TypeOK, NumberInv, CalStart, BarrierThen, Barrier, Goto, Label
<1>3. BarrierInv' /\ ExperimentInv'
  BY <1>1, Arrive, ArriveExperiment DEF IInv, CalStart, Label
<1>4. CalibrationInv'
  BY <1>1 DEF IInv, TypeOK, CalibrationInv, Calibration, CalStart, Goto,
     BarrierThen
<1>5. WorkInv' /\ SampleInv'
  BY <1>1 DEF IInv, TypeOK, NumberInv, WorkInv, SampleInv, CalStart, Goto,
     BarrierThen, Barrier, LoopCount
<1> QED
  BY <1>2, <1>3, <1>4, <1>5 DEF IInv

LEMMA CalStopStep ==
  ASSUME IInv, NEW t \in Threads, CalStop(t) PROVE IInv'
<1>1. /\ t \in Running /\ pc[t] = "calStop"
      /\ BarrierThen(t, "shiftLoad") /\ Dest(t) = "shiftLoad"
  BY DEF IInv, CalStop, At, Running, Dest, Between
<1>2. TypeOK' /\ NumberInv'
  <2>1. iters \in Int /\ LoopCount(iters) \in Nat /\ i[t] = LoopCount(iters)
    BY <1>1 DEF IInv, TypeOK, WorkInv, LoopCount
  <2>2. elapsed' \in Nat
    BY <2>1 DEF IInv, NumberInv, CalStop
  <2> QED
    BY <2>2 DEF IInv, TypeOK, NumberInv, CalStop, BarrierThen, Barrier, Goto,
       Label
<1>3. BarrierInv' /\ ExperimentInv'
  BY <1>1, Arrive, ArriveExperiment DEF IInv, CalStop, Label
<1>4. CalibrationInv'
  BY <1>1, OthersStopped DEF IInv, TypeOK, CalibrationInv, Calibration, CalStop, Goto,
     BarrierThen
<1>5. WorkInv' /\ SampleInv'
  BY <1>1, OthersStopped DEF IInv, TypeOK, NumberInv, WorkInv, SampleInv, CalStop, Goto,
     BarrierThen, Barrier, LoopCount
<1> QED
  BY <1>2, <1>3, <1>4, <1>5 DEF IInv

LEMMA PredictIterationsStep ==
  ASSUME IInv, NEW t \in Threads, PredictIterations(t) PROVE IInv'
<1>1. /\ t \in Running /\ pc[t] = "predict"
      /\ BarrierThen(t, "begin") /\ Dest(t) = "begin"
      /\ elapsed \in Nat \ {0}
  BY DEF IInv, PredictIterations, At, Running, Dest, Between, CalibrationInv,
     Calibration, NumberInv
<1>2. TypeOK' /\ NumberInv'
  <2>1. Predict(iters, elapsed) \in Nat
    BY <1>1, PredictPositive DEF IInv, TypeOK
  <2> QED
    BY <2>1 DEF IInv, TypeOK, NumberInv, PredictIterations, BarrierThen,
       Barrier, Goto, Label
<1>3. BarrierInv' /\ ExperimentInv'
  BY <1>1, Arrive, ArriveExperiment DEF IInv, PredictIterations, Label
<1>4. CalibrationInv'
  <2>1. \A u \in Threads : pc[u] # "decide"
    BY <1>1 DEF IInv, CalibrationInv
  <2> QED
    BY <1>1, <2>1 DEF IInv, TypeOK, CalibrationInv, Calibration,
       PredictIterations, Goto, BarrierThen
<1>5. WorkInv' /\ SampleInv'
  <2>1. \A u \in Threads :
          pc[u] \notin {"calBench", "calStop", "expBench", "expStop", "record"}
    BY <1>1, OthersBetween DEF IInv, Between
  <2>2. \A u \in blocked : pc[u] # "shiftLoad"
    BY <1>1, OthersBetween DEF IInv, TypeOK, Between
  <2> QED
    BY <1>1, <2>1, <2>2 DEF IInv, TypeOK, WorkInv, SampleInv,
       PredictIterations, Goto, BarrierThen, Barrier
<1> QED
  BY <1>2, <1>3, <1>4, <1>5 DEF IInv

LEMMA BeginStep ==
  ASSUME IInv, NEW t \in Threads, Begin(t) PROVE IInv'
<1>1. /\ t \in Running /\ pc[t] = "begin"
      /\ BarrierThen(t, "expStart") /\ Dest(t) = "expStart"
  BY DEF IInv, Begin, At, Running, Dest, Between
<1>2. TypeOK' /\ NumberInv'
  BY DEF IInv, TypeOK, NumberInv, Begin, BarrierThen, Barrier, Goto, Label
<1>3. BarrierInv' /\ ExperimentInv'
  BY <1>1, Arrive, ArriveExperiment DEF IInv, Begin, Label
<1>4. CalibrationInv'
  BY <1>1 DEF IInv, TypeOK, CalibrationInv, Calibration, Begin, Goto,
     BarrierThen
<1>5. WorkInv' /\ SampleInv'
  BY <1>1 DEF IInv, TypeOK, NumberInv, WorkInv, SampleInv, Begin, Goto,
     BarrierThen, Barrier, LoopCount
<1> QED
  BY <1>2, <1>3, <1>4, <1>5 DEF IInv

LEMMA ExpStartStep ==
  ASSUME IInv, NEW t \in Threads, ExpStart(t) PROVE IInv'
<1>1. /\ t \in Running /\ pc[t] = "expStart"
      /\ BarrierThen(t, "expBench") /\ Dest(t) = "expBench"
  BY DEF IInv, ExpStart, At, Running, Dest, Between
<1>2. TypeOK' /\ NumberInv'
  BY DEF IInv, TypeOK, NumberInv, ExpStart, BarrierThen, Barrier, Goto, Label
<1>3. BarrierInv' /\ ExperimentInv'
  BY <1>1, Arrive, ArriveExperiment DEF IInv, ExpStart, Label
<1>4. CalibrationInv'
  BY <1>1 DEF IInv, TypeOK, CalibrationInv, Calibration, ExpStart, Goto,
     BarrierThen
<1>5. WorkInv' /\ SampleInv'
  BY <1>1 DEF IInv, TypeOK, NumberInv, WorkInv, SampleInv, ExpStart, Goto,
     BarrierThen, Barrier, LoopCount
<1> QED
  BY <1>2, <1>3, <1>4, <1>5 DEF IInv

LEMMA ExpStopStep ==
  ASSUME IInv, NEW t \in Threads, ExpStop(t) PROVE IInv'
<1>1. /\ t \in Running /\ pc[t] = "expStop"
      /\ BarrierThen(t, "record") /\ Dest(t) = "record"
  BY DEF IInv, ExpStop, At, Running, Dest, Between
<1>2. TypeOK' /\ NumberInv'
  BY DEF IInv, TypeOK, NumberInv, ExpStop, BarrierThen, Barrier, Goto, Label
<1>3. BarrierInv' /\ ExperimentInv'
  BY <1>1, Arrive, ArriveExperiment DEF IInv, ExpStop, Label
<1>4. CalibrationInv'
  BY <1>1 DEF IInv, TypeOK, CalibrationInv, Calibration, ExpStop, Goto,
     BarrierThen
<1>5. WorkInv' /\ SampleInv'
  BY <1>1 DEF IInv, TypeOK, NumberInv, WorkInv, SampleInv, ExpStop, Goto,
     BarrierThen, Barrier, LoopCount
<1> QED
  BY <1>2, <1>3, <1>4, <1>5 DEF IInv

LEMMA TestStep ==
  ASSUME IInv, NEW t \in Threads, Test(t) PROVE IInv'
<1>1. t \in Running /\ pc[t] = "test" /\ Iterations0 = 0
  BY DEF IInv, CalibrationInv, Calibration, Test, At, Running
<1>2. TypeOK' /\ NumberInv'
  BY DEF IInv, TypeOK, NumberInv, Test, BarrierThen, Barrier, Goto, Label
<1>3. BarrierInv' /\ ExperimentInv'
  <2>1. CASE elapsed <= Bound
    <3>1. BarrierThen(t, "calStart") /\ Dest(t) = "calStart"
      BY <1>1, <2>1 DEF Test, Dest, Between
    <3> QED
      BY <1>1, <3>1, Arrive, ArriveExperiment DEF IInv, Test, Label
  <2>2. CASE ~(elapsed <= Bound)
    BY <1>1, <2>2, Move, MoveExperiment DEF IInv, Test, Section, Between, Label
  <2> QED
    BY <2>1, <2>2
<1>4. CalibrationInv'
  BY <1>1 DEF IInv, TypeOK, NumberInv, CalibrationInv, Calibration, Test,
     BarrierThen, Goto
<1>5. WorkInv' /\ SampleInv'
  BY <1>1 DEF IInv, TypeOK, WorkInv, SampleInv, Test, BarrierThen, Barrier,
     Goto
<1> QED
  BY <1>2, <1>3, <1>4, <1>5 DEF IInv

LEMMA CalBenchStep ==
  ASSUME IInv, NEW t \in Threads, CalBench(t) PROVE IInv'
<1>1. t \in Running /\ pc[t] = "calBench"
  BY DEF IInv, CalBench, At, Running
<1>2. CASE i[t] < iters
  <2>1. i' = [i EXCEPT ![t] = Increment(i[t])]
    BY <1>2 DEF CalBench
  <2>2. Increment(i[t]) \in Int /\ Increment(i[t]) <= i[t] + 1
    BY IncrementType DEF IInv, TypeOK
  <2>3. UNCHANGED <<blocked, pc, iters, elapsed, iterations, seconds, tmp, e>>
    BY <1>2 DEF CalBench
  <2>4. TypeOK' /\ NumberInv'
    BY <2>1, <2>2, <2>3 DEF IInv, TypeOK, NumberInv
  <2>5. BarrierInv' /\ CalibrationInv' /\ ExperimentInv' /\ SampleInv'
    BY <2>3 DEF IInv, BarrierInv, Running, Dest, CalibrationInv,
       ExperimentInv, SampleInv
  <2>6. WorkInv'
    BY <1>1, <1>2, <2>1, <2>2, <2>3
       DEF IInv, TypeOK, NumberInv, WorkInv, LoopCount
  <2> QED
    BY <2>4, <2>5, <2>6 DEF IInv
<1>3. CASE ~(i[t] < iters)
  <2>1. /\ BarrierThen(t, "calStop") /\ Dest(t) = "calStop"
        /\ UNCHANGED <<iters, elapsed, iterations, seconds, tmp, i, e>>
    BY <1>1, <1>3 DEF CalBench, Dest, Between
  <2>2. TypeOK' /\ NumberInv'
    BY <2>1 DEF IInv, TypeOK, NumberInv, BarrierThen, Barrier, Goto, Label
  <2>3. BarrierInv' /\ ExperimentInv'
    BY <1>1, <2>1, Arrive, ArriveExperiment DEF IInv, Label
  <2>4. CalibrationInv' /\ SampleInv'
    BY <1>1, <2>1 DEF IInv, TypeOK, CalibrationInv, Calibration, SampleInv,
       Goto, BarrierThen
  <2>5. WorkInv'
    <3>1. i[t] = LoopCount(iters)
      BY <1>1, <1>3 DEF IInv, TypeOK, NumberInv, WorkInv, LoopCount
    <3> QED
      BY <1>1, <2>1, <3>1 DEF IInv, TypeOK, NumberInv, WorkInv, Goto,
         BarrierThen, Barrier, LoopCount
  <2> QED
    BY <2>2, <2>3, <2>4, <2>5 DEF IInv
<1> QED
  BY <1>2, <1>3

LEMMA ExpBenchStep ==
  ASSUME IInv, NEW t \in Threads, ExpBench(t) PROVE IInv'
<1>1. t \in Running /\ pc[t] = "expBench"
  BY DEF IInv, ExpBench, At, Running
<1>2. CASE i[t] < iterations
  <2>1. i' = [i EXCEPT ![t] = Increment(i[t])]
    BY <1>2 DEF ExpBench
  <2>2. Increment(i[t]) \in Int /\ Increment(i[t]) <= i[t] + 1
    BY IncrementType DEF IInv, TypeOK
  <2>3. UNCHANGED <<blocked, pc, iters, elapsed, iterations, seconds, tmp, e>>
    BY <1>2 DEF ExpBench
  <2>4. TypeOK' /\ NumberInv'
    BY <2>1, <2>2, <2>3 DEF IInv, TypeOK, NumberInv
  <2>5. BarrierInv' /\ CalibrationInv' /\ ExperimentInv' /\ SampleInv'
    BY <2>3 DEF IInv, BarrierInv, Running, Dest, CalibrationInv,
       ExperimentInv, SampleInv
  <2>6. WorkInv'
    BY <1>1, <1>2, <2>1, <2>2, <2>3
       DEF IInv, TypeOK, NumberInv, WorkInv, LoopCount
  <2> QED
    BY <2>4, <2>5, <2>6 DEF IInv
<1>3. CASE ~(i[t] < iterations)
  <2>1. /\ BarrierThen(t, "expStop") /\ Dest(t) = "expStop"
        /\ UNCHANGED <<iters, elapsed, iterations, seconds, tmp, i, e>>
    BY <1>1, <1>3 DEF ExpBench, Dest, Between
  <2>2. TypeOK' /\ NumberInv'
    BY <2>1 DEF IInv, TypeOK, NumberInv, BarrierThen, Barrier, Goto, Label
  <2>3. BarrierInv' /\ ExperimentInv'
    BY <1>1, <2>1, Arrive, ArriveExperiment DEF IInv, Label
  <2>4. CalibrationInv' /\ SampleInv'
    BY <1>1, <2>1 DEF IInv, TypeOK, CalibrationInv, Calibration, SampleInv,
       Goto, BarrierThen
  <2>5. WorkInv'
    <3>1. i[t] = LoopCount(iterations)
      BY <1>1, <1>3 DEF IInv, TypeOK, NumberInv, WorkInv, LoopCount
    <3> QED
      BY <1>1, <2>1, <3>1 DEF IInv, TypeOK, NumberInv, WorkInv, Goto,
         BarrierThen, Barrier, LoopCount
  <2> QED
    BY <2>2, <2>3, <2>4, <2>5 DEF IInv
<1> QED
  BY <1>2, <1>3

LEMMA RecordStep ==
  ASSUME IInv, NEW t \in Threads, Record(t) PROVE IInv'
<1> DEFINE to == IF e[t] + 1 < Experiments THEN "expStart" ELSE "free"
<1>1. /\ t \in Running /\ pc[t] = "record" /\ t \notin blocked
      /\ BarrierThen(t, to) /\ Dest(t) = to
      /\ e' = [e EXCEPT ![t] = e[t] + 1]
      /\ pc' = [pc EXCEPT ![t] = to]
      /\ UNCHANGED <<iters, elapsed, iterations, tmp, i>>
  BY DEF IInv, Record, At, Running, Dest, Between, BarrierThen, Goto
<1>2. \A u \in Running : pc[u] = "record" /\ e[u] = e[t]
  BY <1>1 DEF IInv, BarrierInv, ExperimentInv, Section, Between
<1>3. \A u \in blocked : pc[u] = to /\ e[u] = e[t] + 1
  BY <1>1 DEF IInv, BarrierInv, ExperimentInv
<1>4. e[t] \in Nat /\ e[t] < Experiments /\ Threads = Running \cup blocked
  BY <1>1 DEF IInv, TypeOK, ExperimentInv, Running
<1>5. /\ seconds \in Seq({d \in Deltas : 0 < d})
      /\ \/ t # 0 /\ seconds' = seconds
         \/ t = 0 /\ \E d \in Deltas :
              seconds' = IF 0 < d THEN Append(seconds, d) ELSE seconds
  BY DEF IInv, TypeOK, Record
<1>6. seconds' \in Seq({d \in Deltas : 0 < d})
  BY <1>5
<1>7. TypeOK' /\ NumberInv'
  BY <1>1, <1>4, <1>6 DEF IInv, TypeOK, NumberInv, BarrierThen, Barrier, Label
<1>8. BarrierInv'
  BY <1>1, Arrive DEF IInv, TypeOK
<1>9. CalibrationInv'
  BY <1>1 DEF IInv, TypeOK, CalibrationInv, Calibration
<1>10. ExperimentInv'
  <2>1. \A u \in Threads : IF pc'[u] \in {"free", "done"}
                           THEN e'[u] = Experiments ELSE e'[u] < Experiments
    BY <1>1, <1>4 DEF IInv, TypeOK, ExperimentInv
  <2>2. CASE blocked \cup {t} = Threads /\ blocked' = {}
    <3>1. \A u \in Threads : e'[u] = e[t] + 1
      BY <1>1, <1>3, <1>4, <2>2 DEF IInv, TypeOK
    <3> QED
      BY <2>1, <2>2, <3>1 DEF ExperimentInv, Running
  <2>3. CASE blocked' = blocked \cup {t}
    <3>1. \A u \in Running' : u \in Running /\ u # t
      BY <1>1, <2>3 DEF Running
    <3>2. \A u \in Running' : pc'[u] = "record" /\ e'[u] = e[t]
      BY <1>1, <1>2, <3>1 DEF IInv, TypeOK, Running
    <3>3. \A b \in blocked' : e'[b] = e[t] + 1
      BY <1>1, <1>3, <2>3 DEF IInv, TypeOK
    <3> QED
      BY <2>1, <3>2, <3>3 DEF ExperimentInv
  <2> QED
    BY <1>1, <2>2, <2>3, BarrierStep DEF IInv, TypeOK, BarrierThen
<1>11. WorkInv'
  BY <1>1 DEF IInv, TypeOK, WorkInv, BarrierThen, Barrier
<1>12. SampleInv'
  <2>1. SampleInv /\ 0 \in Threads /\ e \in [Threads -> Nat]
    BY DEF IInv, TypeOK, Threads
  <2>2. CASE t # 0
    BY <1>1, <1>5, <2>1, <2>2 DEF SampleInv
  <2>3. CASE t = 0
    <3>1. e'[0] = e[0] + 1 /\ Len(seconds) \in Nat /\ e[0] \in Nat
      BY <1>1, <1>5, <2>1, <2>3
    <3>2. PICK d \in Deltas : seconds' = IF 0 < d THEN Append(seconds, d) ELSE seconds
      BY <1>5, <2>3
    <3>3. Len(seconds') = IF 0 < d THEN Len(seconds) + 1 ELSE Len(seconds)
      BY <1>5, <3>2
    <3> QED
      BY <2>1, <3>1, <3>3 DEF SampleInv
  <2> QED
    BY <2>2, <2>3
<1> QED
  BY <1>7, <1>8, <1>9, <1>10, <1>11, <1>12 DEF IInv

LEMMA FreeStep ==
  ASSUME IInv, NEW t \in Threads, Free(t) PROVE IInv'
<1>1. t \in Running /\ pc[t] = "free"
  BY DEF IInv, Free, At, Running
<1>2. TypeOK' /\ NumberInv'
  BY DEF IInv, TypeOK, NumberInv, Free, Goto, Label
<1>3. BarrierInv'
  BY <1>1, Move DEF IInv, Free, Section, Between, Label
<1>4. ExperimentInv'
  BY <1>1 DEF IInv, TypeOK, ExperimentInv, Free, Goto, Running
<1>5. CalibrationInv' /\ WorkInv' /\ SampleInv'
  BY <1>1 DEF IInv, TypeOK, CalibrationInv, Calibration, WorkInv, SampleInv,
     Free, Goto
<1> QED
  BY <1>2, <1>3, <1>4, <1>5 DEF IInv

LEMMA StutterStep ==
  ASSUME IInv, UNCHANGED vars PROVE IInv'
<1>1. TypeOK' /\ NumberInv' /\ SampleInv'
  BY DEF IInv, TypeOK, NumberInv, SampleInv, vars
<1>2. BarrierInv'
  BY DEF IInv, BarrierInv, Running, Dest, vars
<1>3. CalibrationInv' /\ ExperimentInv' /\ WorkInv'
  BY DEF IInv, Running, CalibrationInv, ExperimentInv, WorkInv, vars
<1> QED
  BY <1>1, <1>2, <1>3 DEF IInv

\* No step of any thread breaks the invariant.
LEMMA NextInvariant == IInv /\ [Next]_vars => IInv'
<1> SUFFICES ASSUME IInv, [Next]_vars PROVE IInv'
  OBVIOUS
<1>1. ASSUME NEW t \in Threads, Thread(t) PROVE IInv'
  BY <1>1, DecideStep, InitItersStep, TestStep, CalStartStep, CalBenchStep,
     CalStopStep, ShiftLoadStep, ShiftStoreStep, PredictIterationsStep,
     BeginStep, ExpStartStep, ExpBenchStep, ExpStopStep, RecordStep, FreeStep
     DEF Thread
<1>2. CASE UNCHANGED vars
  BY <1>2, StutterStep
<1> QED
  BY <1>1, <1>2 DEF Next, Terminating

-----------------------------------------------------------------------------
(* The theorems.                                                           *)

\* The invariant holds in every reachable state of run(), for any number of
\* threads (run.cpp:72-335).
THEOREM Invariance == Spec => []IInv
BY InitInvariant, NextInvariant, PTL DEF Spec

\* Type correctness, with the bound on the experiments (run.cpp:215).
THEOREM TypeCorrect == Spec => []TypeOK
<1>1. IInv => TypeOK
  BY DEF IInv
<1> QED
  BY <1>1, Invariance, PTL

\* Threads never part by more than one barrier (run.cpp:161-323).
THEOREM LockstepCorrect == Spec => []Lockstep
<1>1. ASSUME IInv PROVE Lockstep
  <2>1. PICK r \in Running : TRUE
    BY <1>1 DEF IInv, BarrierInv
  <2>2. pc[r] \in Label
    BY <1>1 DEF IInv, TypeOK, Running
  <2>3. \A t \in Threads \ blocked : Section(pc[t]) = Section(pc[r])
    BY <1>1 DEF IInv, BarrierInv, Running
  <2>4. \A t \in Threads \ blocked : pc[t] \in Label
    BY <1>1 DEF IInv, TypeOK
  <2>5. PICK s \in Sections : pc[r] \in s
    BY <2>2 DEF Sections, Label
  <2>6. \A t \in Threads \ blocked : pc[t] \in s
    BY <2>3, <2>4, <2>5 DEF Sections, Section, Between, Label
  <2>7. \A t, u \in blocked : pc[t] = pc[u]
    BY <1>1, <2>1 DEF IInv, BarrierInv
  <2> QED
    BY <2>6, <2>7 DEF Lockstep
<1> QED
  BY <1>1, Invariance, PTL

\* Thread 0's unlocked writes of `elapsed' and `iterations' never meet an
\* access by another thread (run.cpp:150-230).
THEOREM PublishedRaceFreedom == Spec => []PublishedRaceFree
<1>1. ASSUME IInv PROVE PublishedRaceFree
  <2>1. \A t, u \in Running : Section(pc[t]) = Section(pc[u])
    BY <1>1 DEF IInv, BarrierInv
  <2>2. RaceFree("elapsed")
    <3> SUFFICES ASSUME NEW t \in Running, NEW u \in Running, t # u,
                        "elapsed" \in Writes(t)
                 PROVE  "elapsed" \notin Reads(u) \cup Writes(u)
      BY DEF RaceFree, Running
    <3>1. pc[t] = "calStop" /\ t = 0
      BY DEF Writes
    <3>2. pc[u] = "calStop"
      BY <2>1, <3>1 DEF Section, Between
    <3> QED
      BY <3>1, <3>2 DEF Reads, Writes
  <2>3. RaceFree("iterations")
    <3> SUFFICES ASSUME NEW t \in Running, NEW u \in Running, t # u,
                        "iterations" \in Writes(t)
                 PROVE  "iterations" \notin Reads(u) \cup Writes(u)
      BY DEF RaceFree, Running
    <3>1. pc[t] = "predict" /\ t = 0
      BY DEF Writes
    <3>2. pc[u] \in Between
      BY <2>1, <3>1 DEF Section, Between
    <3>3. pc[u] # "decide"
      BY <1>1, <3>1 DEF IInv, CalibrationInv, NumberInv, Running
    <3> QED
      BY <3>1, <3>2, <3>3 DEF Reads, Writes, Between
  <2> QED
    BY <2>2, <2>3 DEF PublishedRaceFree
<1> QED
  BY <1>1, Invariance, PTL

\* Nobody shifts the size of a round that another still counts against
\* (run.cpp:157-193).
THEOREM RoundStability == Spec => []RoundStable
<1>1. ASSUME IInv PROVE RoundStable
  BY <1>1 DEF IInv, BarrierInv, Running, Section, Between, RoundStable
<1> QED
  BY <1>1, Invariance, PTL

\* The timer of thread 0 covers exactly the scheduled calls of every thread
\* (run.cpp:168-193 and 219-307).
THEOREM TimedWorkCorrect == Spec => []TimedWork
<1>1. ASSUME IInv PROVE TimedWork
  <2>1. 0 \in Threads
    BY DEF Threads
  <2>2. At(0, "expStart") => \A t \in Threads \ blocked : pc[t] # "expBench"
    BY <1>1, <2>1 DEF IInv, BarrierInv, At, Running, Section, Between
  <2>3. ASSUME At(0, "expStop"), NEW t \in Threads PROVE i[t] = iterations
    <3>1. CASE t \in blocked
      <4>1. pc[t] = "record"
        BY <1>1, <2>1, <2>3, <3>1 DEF IInv, BarrierInv, At, Running, Dest, Between
      <4> QED
        BY <1>1, <4>1 DEF IInv, WorkInv
    <3>2. CASE t \in Running
      <4>1. pc[t] = "expStop"
        BY <1>1, <2>1, <2>3, <3>2
           DEF IInv, BarrierInv, At, Running, Section, Between
      <4> QED
        BY <1>1, <4>1 DEF IInv, WorkInv
    <3> QED
      BY <3>1, <3>2 DEF Running
  <2>4. ASSUME At(0, "calStop"), NEW t \in Threads PROVE i[t] = LoopCount(iters)
    <3>1. 0 \in Running /\ pc[0] = "calStop"
      BY <2>1, <2>4 DEF At, Running
    <3>2. IF t \in blocked THEN pc[t] = "shiftLoad" ELSE pc[t] = "calStop"
      BY <1>1, <3>1, OthersStopped DEF IInv
    <3> QED
      BY <1>1, <3>2 DEF IInv, WorkInv
  <2> QED
    BY <2>2, <2>3, <2>4 DEF TimedWork
<1> QED
  BY <1>1, Invariance, PTL

\* Every experiment is recorded at most once, and all are finished at the end
\* (run.cpp:309-323).
THEOREM SamplesCorrect == Spec => []SamplesMatch
<1>1. ASSUME IInv PROVE SamplesMatch
  <2>1. 0 \in Threads
    BY DEF Threads
  <2> QED
    BY <1>1, <2>1 DEF IInv, SampleInv, ExperimentInv, SamplesMatch
<1> QED
  BY <1>1, Invariance, PTL

\* All threads work on the same experiment (run.cpp:215-321).
THEOREM SameExperimentCorrect == Spec => []SameExperiment
<1>1. ASSUME IInv PROVE SameExperiment
  <2> SUFFICES ASSUME NEW t \in Threads, NEW u \in Threads
               PROVE  \/ e[t] = e[u]
                      \/ At(t, "record") /\ u \in blocked /\ e[u] = e[t] + 1
                      \/ At(u, "record") /\ t \in blocked /\ e[t] = e[u] + 1
    BY DEF SameExperiment
  <2>1. CASE t \in Running /\ u \in Running
    BY <1>1, <2>1 DEF IInv, ExperimentInv
  <2>2. CASE t \in Running /\ u \in blocked
    BY <1>1, <2>2 DEF IInv, ExperimentInv, At, Running
  <2>3. CASE t \in blocked /\ u \in Running
    BY <1>1, <2>3 DEF IInv, ExperimentInv, At, Running
  <2>4. CASE t \in blocked /\ u \in blocked
    <3>1. PICK r \in Running : TRUE
      BY <1>1 DEF IInv, BarrierInv
    <3> QED
      BY <1>1, <2>4, <3>1 DEF IInv, ExperimentInv
  <2> QED
    BY <2>1, <2>2, <2>3, <2>4 DEF Running
<1> QED
  BY <1>1, Invariance, PTL

-----------------------------------------------------------------------------
(* Powers of two.  They count the subsets of a set, of which there are     *)
(* twice as many with one element more.                                    *)

LEMMA SubsetsDouble ==
  ASSUME NEW S, IsFiniteSet(S), NEW x, x \notin S
  PROVE  Cardinality(SUBSET (S \cup {x})) = 2 * Cardinality(SUBSET S)
<1> DEFINE Old == SUBSET S
           New == {T \cup {x} : T \in SUBSET S}
           f == [T \in Old |-> T \cup {x}]
<1>1. SUBSET (S \cup {x}) = Old \cup New
  <2>1. ASSUME NEW T \in SUBSET (S \cup {x}) PROVE T \in Old \cup New
    <3>1. CASE x \notin T
      BY <3>1
    <3>2. CASE x \in T
      <4>1. T \ {x} \in SUBSET S /\ T = (T \ {x}) \cup {x}
        BY <3>2
      <4> QED
        BY <4>1
    <3> QED
      BY <3>1, <3>2
  <2> QED
    BY <2>1
<1>2. Old \cap New = {}
  OBVIOUS
<1>3. f \in Bijection(Old, New)
  <2>1. \A T, U \in Old : f[T] = f[U] => T = U
    OBVIOUS
  <2>2. f \in [Old -> New] /\ \A U \in New : \E T \in Old : f[T] = U
    OBVIOUS
  <2> HIDE DEF f, Old, New
  <2> QED
    BY <2>1, <2>2 DEF Bijection, Injection, Surjection, IsInjective
<1>4. IsFiniteSet(Old) /\ Cardinality(Old) \in Nat
  BY FS_SUBSET, FS_CardinalityType
<1> HIDE DEF f, Old, New
<1>5. IsFiniteSet(New) /\ Cardinality(New) = Cardinality(Old)
  BY <1>3, <1>4, FS_Bijection DEF ExistsBijection
<1>6. Cardinality(Old \cup New) = 2 * Cardinality(Old)
  <2>1. Cardinality(Old \cup New) = Cardinality(Old) + Cardinality(New) - Cardinality(Old \cap New)
    BY <1>4, <1>5, FS_Union
  <2>2. Cardinality(Old \cap New) = 0
    BY <1>2, FS_EmptySet
  <2> QED
    BY <1>4, <1>5, <2>1, <2>2
<1> QED
  BY <1>1, <1>6 DEF Old

LEMMA PowerOfTwo ==
  ASSUME NEW k \in Nat
  PROVE  2 ^ k \in Nat \ {0} /\ 2 ^ (k + 1) = 2 * 2 ^ k
<1>1. IsFiniteSet(1 .. k) /\ Cardinality(1 .. k) = k
  BY FS_Interval
<1>2. IsFiniteSet(1 .. k + 1) /\ Cardinality(1 .. k + 1) = k + 1
  BY FS_Interval
<1>3. 1 .. k + 1 = (1 .. k) \cup {k + 1} /\ k + 1 \notin 1 .. k
  OBVIOUS
<1>4. Cardinality(SUBSET (1 .. k)) = 2 ^ k /\ IsFiniteSet(SUBSET (1 .. k))
  BY <1>1, FS_SUBSET
<1>5. Cardinality(SUBSET (1 .. k + 1)) = 2 ^ (k + 1)
  BY <1>2, FS_SUBSET
<1>6. Cardinality(SUBSET (1 .. k + 1)) = 2 * Cardinality(SUBSET (1 .. k))
  BY <1>1, <1>3, SubsetsDouble
<1>7. 2 ^ k \in Nat
  BY <1>4, FS_CardinalityType
<1>8. 2 ^ k # 0
  BY <1>4, FS_EmptySet
<1> QED
  BY <1>4, <1>5, <1>6, <1>7, <1>8

LEMMA PowerOfZero == 2 ^ 0 = 1
<1>1. Cardinality({}) = 0 /\ IsFiniteSet({})
  BY FS_EmptySet
<1>2. SUBSET {} = {{}}
  OBVIOUS
<1>3. Cardinality({{}}) = 1
  BY FS_Singleton
<1> QED
  BY <1>1, <1>2, <1>3, FS_SUBSET

LEMMA MulMono ==
  ASSUME NEW a \in Nat, NEW b \in Nat, NEW c \in Nat, a <= b
  PROVE  a * c <= b * c /\ a * c \in Nat /\ b * c \in Nat
<1>1. PICK d \in Nat : b = a + d
  <2>1. b - a \in Nat /\ b = a + (b - a)
    OBVIOUS
  <2> QED
    BY <2>1
<1>2. b * c = a * c + d * c /\ a * c \in Nat /\ d * c \in Nat
  BY <1>1
<1> QED
  BY <1>2

\* The doublings a set of threads can make.
LEMMA PowerOfThreads ==
  ASSUME NEW S \in SUBSET Threads
  PROVE  /\ 2 ^ Cardinality(S) \in Nat \ {0}
         /\ 2 ^ Cardinality(S) <= 2 ^ NumThreads
         /\ \A t \in Threads \ S :
              2 ^ Cardinality(S \cup {t}) = 2 * 2 ^ Cardinality(S)
<1>1. IsFiniteSet(Threads) /\ Cardinality(Threads) = NumThreads
  BY FS_Interval DEF Threads
<1>2. IsFiniteSet(S) /\ Cardinality(S) \in Nat
  BY <1>1, FS_Subset, FS_CardinalityType
<1>3. 2 ^ Cardinality(S) \in Nat \ {0}
  BY <1>2, PowerOfTwo
<1>4. 2 ^ Cardinality(S) <= 2 ^ NumThreads
  <2>1. /\ IsFiniteSet(SUBSET S) /\ Cardinality(SUBSET S) = 2 ^ Cardinality(S)
        /\ IsFiniteSet(SUBSET Threads)
        /\ Cardinality(SUBSET Threads) = 2 ^ NumThreads
    BY <1>1, <1>2, FS_SUBSET
  <2>2. SUBSET S \in SUBSET (SUBSET Threads)
    OBVIOUS
  <2> QED
    BY <2>1, <2>2, FS_Subset
<1>5. ASSUME NEW t \in Threads \ S
      PROVE  2 ^ Cardinality(S \cup {t}) = 2 * 2 ^ Cardinality(S)
  <2>1. Cardinality(S \cup {t}) = Cardinality(S) + 1
    BY <1>2, FS_AddElement
  <2> QED
    BY <1>2, <2>1, PowerOfTwo
<1> QED
  BY <1>3, <1>4, <1>5

-----------------------------------------------------------------------------
(* Steps outside the calibration.                                          *)

\* Once every running thread is past the calibration, or inside an
\* experiment, nothing is claimed of the calibration any more.
LEMMA Outside ==
  ASSUME IInv', (elapsed = 0 => iters = 1)',
         \A u \in Running' : pc'[u] \notin Between \cup Rounds
  PROVE  GrowthInv'
<1>1. PICK r \in Running' : TRUE
  BY DEF IInv, BarrierInv
<1>2. \A b \in blocked' : pc'[b] = Dest(r)'
  BY <1>1 DEF IInv, BarrierInv
<1>3. pc'[r] \notin Between \cup Rounds
  BY <1>1
<1>4. \A b \in blocked' : pc'[b] \notin Calibration \ {"begin"}
  BY <1>2, <1>3 DEF Dest, Between, Rounds, Calibration
<1>5. 0 \in Threads /\ Running' = Threads \ blocked'
  BY DEF Threads, Running
<1>6. ElapsedInv'
  BY <1>4, <1>5 DEF ElapsedInv, Between, Calibration
<1>7. RoundInv' /\ ShiftInv'
  BY DEF RoundInv, ShiftInv, Shifting
<1>8. RoundGrowth'
  BY <1>5 DEF RoundGrowth, Rounds
<1>9. UnscheduledInv'
  BY <1>4, <1>5 DEF UnscheduledInv, Between, Rounds, Calibration
<1> QED
  BY <1>6, <1>7, <1>8, <1>9 DEF GrowthInv

\* So do the steps of the experiments, ...
LEMMA OutsideStep ==
  ASSUME IInv, IInv', GrowthInv, NEW t \in Running,
         pc[t] \notin Between \cup Rounds,
         NEW to \in Label \ (Between \cup Rounds), Goto(t, to),
         blocked' = blocked \/ Barrier(t),
         UNCHANGED <<iters, elapsed>>
  PROVE  GrowthInv'
<1>1. /\ t \in Threads /\ pc \in [Threads -> Label]
      /\ pc' = [pc EXCEPT ![t] = to] /\ Running \subseteq Threads
      /\ blocked \subseteq Threads /\ t \notin blocked
  BY DEF IInv, TypeOK, Running, Goto
<1>2. \A u \in Running : pc[u] \notin Between \cup Rounds
  BY DEF IInv, BarrierInv, Section, Between, Rounds
<1>3. \A u \in Running' : pc'[u] \notin Between \cup Rounds
  <2>1. CASE blocked' = {}
    <3>1. \A u \in Running' : Section(pc'[u]) = Section(pc'[t])
      BY <1>1, <2>1 DEF IInv, BarrierInv, Running, Section
    <3> QED
      BY <1>1, <3>1 DEF Section, Between, Rounds
  <2>2. CASE blocked \subseteq blocked'
    <3>1. Running' \subseteq Running
      BY <2>2 DEF Running
    <3> QED
      BY <1>1, <1>2, <3>1
  <2> QED
    BY <1>1, <2>1, <2>2, BarrierStep
<1>4. (elapsed = 0 => iters = 1)'
  BY DEF GrowthInv, ElapsedInv
<1> QED
  BY <1>3, <1>4, Outside

\* ... and every step of a run that is not calibrated.
LEMMA NoCalibration ==
  ASSUME IInv', (elapsed = 0 => iters = 1)', Iterations0 # 0
  PROVE  GrowthInv'
<1>1. \A u \in Threads : pc'[u] \notin Calibration
  BY DEF IInv, CalibrationInv
<1>2. \A u \in Threads : pc'[u] = "decide" => elapsed' = 0
  BY DEF IInv, CalibrationInv
<1>3. 0 \in Threads /\ Running' \subseteq Threads
  BY DEF Threads, Running
<1>4. ElapsedInv' /\ UnscheduledInv'
  BY <1>1, <1>3 DEF ElapsedInv, UnscheduledInv, Calibration
<1>5. RoundInv'
  BY <1>1, <1>3 DEF RoundInv, Rounds, Calibration
<1>6. RoundGrowth'
  BY <1>1 DEF RoundGrowth, Calibration
<1>7. ShiftInv'
  BY <1>1, <1>2, <1>3 DEF ShiftInv, Shifting, Between, Calibration
<1> QED
  BY <1>4, <1>5, <1>6, <1>7 DEF GrowthInv

-----------------------------------------------------------------------------
(* Steps between two rounds.                                               *)

\* A thread that stays between two rounds leaves all but the shifts alone.
LEMMA WithinStep ==
  ASSUME IInv, GrowthInv, NEW t \in Running, pc[t] \in Between,
         NEW to \in Between, Goto(t, to), UNCHANGED <<blocked, elapsed, i>>,
         to \in {"shiftLoad", "shiftStore"} => elapsed # 0,
         (elapsed = 0 => iters = 1)',
         iterations' = iterations, t = 0 => iterations = 0
  PROVE  ElapsedInv' /\ RoundInv' /\ RoundGrowth' /\ UnscheduledInv'
<1>1. /\ t \in Threads /\ t \notin blocked /\ Running' = Running
      /\ pc' = [pc EXCEPT ![t] = to] /\ pc \in [Threads -> Label]
      /\ 0 \in Threads /\ Running = Threads \ blocked
  BY DEF IInv, TypeOK, Running, Goto, Threads
<1>2. \A u \in Running : pc'[u] \in Between
  BY <1>1, OthersBetween DEF IInv
<1>3. ElapsedInv'
  BY <1>1 DEF GrowthInv, ElapsedInv
<1>4. RoundInv' /\ RoundGrowth'
  BY <1>1, <1>2 DEF RoundInv, RoundGrowth, Rounds, Between
<1>5. UnscheduledInv'
  BY <1>1 DEF GrowthInv, UnscheduledInv, Calibration
<1> QED
  BY <1>3, <1>4, <1>5

\* No thread that has not run a round is about to shift.
LEMMA BeforeRounds ==
  ASSUME IInv, GrowthInv, NEW t \in Threads, elapsed' = elapsed,
         pc[t] \in {"decide", "initIters"}
  PROVE  elapsed = 0 /\ iters = 1 /\ ShiftInv'
<1>1. elapsed = 0 /\ iters = 1
  BY DEF IInv, CalibrationInv, GrowthInv, ElapsedInv
<1> QED
  BY <1>1 DEF ShiftInv, Shifting

LEMMA DecideGrowth ==
  ASSUME IInv, IInv', GrowthInv, NEW t \in Threads, Decide(t)
  PROVE  GrowthInv'
<1>1. t \in Running /\ pc[t] = "decide" /\ iterations = Iterations0
  BY DEF IInv, CalibrationInv, Decide, At, Running
<1>2. elapsed = 0 /\ iters = 1 /\ ShiftInv'
  BY <1>1, BeforeRounds DEF Decide
<1>3. CASE iterations = 0
  <2>1. ElapsedInv' /\ RoundInv' /\ RoundGrowth' /\ UnscheduledInv'
    BY <1>1, <1>2, <1>3, WithinStep DEF Decide, Between
  <2> QED
    BY <1>2, <2>1 DEF GrowthInv
<1>4. CASE iterations # 0
  BY <1>1, <1>2, <1>4, NoCalibration DEF Decide
<1> QED
  BY <1>3, <1>4

LEMMA InitItersGrowth ==
  ASSUME IInv, GrowthInv, NEW t \in Threads, InitIters(t)
  PROVE  GrowthInv'
<1>1. t \in Running /\ pc[t] = "initIters"
  BY DEF InitIters, At, Running
<1>2. elapsed = 0 /\ ShiftInv'
  BY <1>1, BeforeRounds DEF InitIters
<1>3. t = 0 => iterations = 0
  BY <1>1 DEF GrowthInv, UnscheduledInv, Calibration
<1>4. ElapsedInv' /\ RoundInv' /\ RoundGrowth' /\ UnscheduledInv'
  BY <1>1, <1>3, WithinStep DEF InitIters, Between
<1> QED
  BY <1>2, <1>4 DEF GrowthInv

\* The end of the calibration is seen (run.cpp:160).
LEMMA LeaveGrowth ==
  ASSUME IInv, GrowthInv, NEW t \in Threads, Test(t), elapsed > Bound
  PROVE  GrowthInv'
<1>1. /\ t \in Running /\ pc[t] = "test" /\ Goto(t, "predict")
      /\ UNCHANGED <<blocked, iters, elapsed, iterations, seconds, tmp, i, e>>
  BY DEF Test, At, Running, IInv, NumberInv
<1>2. /\ t \in Threads /\ Running' = Running /\ Running \subseteq Threads
      /\ pc' = [pc EXCEPT ![t] = "predict"] /\ pc \in [Threads -> Label]
  BY <1>1 DEF IInv, TypeOK, Running, Goto
<1>3. ElapsedInv' /\ RoundInv' /\ RoundGrowth' /\ UnscheduledInv'
  BY <1>1, WithinStep
     DEF GrowthInv, ElapsedInv, UnscheduledInv, Calibration, Between
<1>4. Stored' = Stored
  BY <1>1, <1>2 DEF Stored
<1>5. Shifting' = Shifting
  BY <1>1, <1>2 DEF Shifting, Between
<1>6. \A u \in Running : pc'[u] = "shiftStore" => pc[u] = "shiftStore"
  BY <1>2
<1>7. ShiftInv'
  BY <1>1, <1>2, <1>4, <1>5, <1>6 DEF GrowthInv, ShiftInv
<1> QED
  BY <1>3, <1>7 DEF GrowthInv

LEMMA ShiftLoadGrowth ==
  ASSUME IInv, GrowthInv, NEW t \in Threads, ShiftLoad(t)
  PROVE  GrowthInv'
<1>1. /\ t \in Running /\ pc[t] = "shiftLoad" /\ elapsed # 0
      /\ tmp' = [tmp EXCEPT ![t] = iters] /\ Goto(t, "shiftStore")
      /\ UNCHANGED <<blocked, iters, elapsed, iterations, seconds, i, e>>
  BY DEF ShiftLoad, At, Running, GrowthInv, ElapsedInv
<1>2. /\ t \in Threads /\ Running' = Running /\ Running \subseteq Threads
      /\ pc' = [pc EXCEPT ![t] = "shiftStore"] /\ pc \in [Threads -> Label]
      /\ tmp \in [Threads -> Int]
  BY <1>1 DEF IInv, TypeOK, Running, Goto
<1>3. ElapsedInv' /\ RoundInv' /\ RoundGrowth' /\ UnscheduledInv'
  BY <1>1, WithinStep
     DEF GrowthInv, ElapsedInv, UnscheduledInv, Calibration, Between
<1>4. Stored' = Stored
  BY <1>1, <1>2 DEF Stored, Running
<1>5. Shifting
  BY <1>1 DEF Shifting, Between
<1>6. ShiftInv'
  BY <1>1, <1>2, <1>4, <1>5 DEF GrowthInv, ShiftInv
<1> QED
  BY <1>3, <1>6 DEF GrowthInv

\* A shift stores the double of what was loaded, and its thread doubles no
\* more before the next round (run.cpp:193).
LEMMA ShiftStoreGrowth ==
  ASSUME IInv, GrowthInv, NEW t \in Threads, ShiftStore(t)
  PROVE  GrowthInv'
<1>1. /\ t \in Running /\ pc[t] = "shiftStore" /\ elapsed # 0
      /\ iters' = ShiftLeft(tmp[t]) /\ Goto(t, "test")
      /\ UNCHANGED <<blocked, elapsed, iterations, seconds, tmp, i, e>>
  BY DEF ShiftStore, At, Running, GrowthInv, ElapsedInv
<1>2. /\ t \in Threads /\ Running' = Running /\ Running \subseteq Threads
      /\ pc' = [pc EXCEPT ![t] = "test"] /\ pc \in [Threads -> Label]
      /\ tmp \in [Threads -> Int]
  BY <1>1 DEF IInv, TypeOK, Running, Goto
<1>3. ElapsedInv' /\ RoundInv' /\ RoundGrowth' /\ UnscheduledInv'
  BY <1>1, WithinStep
     DEF GrowthInv, ElapsedInv, UnscheduledInv, Calibration, Between
<1>4. Shifting
  BY <1>1 DEF Shifting, Between
<1>5. /\ \A u \in Threads : i[u] = i[0]
      /\ i[0] \in 1 .. Top /\ i[0] <= elapsed /\ i[0] \in Nat
  BY <1>4 DEF GrowthInv, ShiftInv
<1> DEFINE S == Stored
           P == 2 ^ Cardinality(S)
           Q == 2 ^ Cardinality(S \cup {t})
           c == i[0]
<1>6. /\ P \in Nat \ {0} /\ Q = 2 * P /\ Q \in Nat \ {0}
      /\ Q <= 2 ^ NumThreads /\ 2 ^ NumThreads \in Nat
      /\ Stored' = S \cup {t}
  <2>1. S \in SUBSET Threads /\ t \notin S
    BY <1>1, <1>2 DEF Stored, Running
  <2>2. S \cup {t} \in SUBSET Threads /\ Threads \in SUBSET Threads
    BY <2>1, <1>2
  <2>3. Stored' = S \cup {t}
    BY <1>1, <1>2 DEF Stored, Running
  <2>4. 2 ^ NumThreads \in Nat
    BY PowerOfTwo
  <2>5. P \in Nat \ {0} /\ Q = 2 * P
    BY <1>2, <2>1, PowerOfThreads
  <2>6. Q \in Nat \ {0} /\ Q <= 2 ^ NumThreads
    BY <2>2, PowerOfThreads
  <2> QED
    BY <2>3, <2>4, <2>5, <2>6
<1>7. ASSUME 2 ^ NumThreads * c < LongHalf
      PROVE  /\ iters' \in c .. Q * c
             /\ 2 * c <= iters'
             /\ \A u \in Running : pc'[u] = "shiftStore" => tmp[u] \in c .. Q * c
  <2>1. \A u \in Running : pc[u] = "shiftStore" => tmp[u] \in c .. P * c
    BY <1>4, <1>7 DEF GrowthInv, ShiftInv
  <2>2. tmp[t] \in c .. P * c
    BY <1>1, <2>1
  <2> HIDE DEF P, Q, c
  <2>3. c \in Nat /\ P * c \in Nat /\ Q * c = 2 * (P * c)
    BY <1>5, <1>6 DEF c
  <2>4. Q * c <= 2 ^ NumThreads * c /\ 2 ^ NumThreads * c \in Nat
    BY <1>6, <2>3, MulMono
  <2>5. 2 * tmp[t] < LongHalf /\ tmp[t] \in Nat
    BY <1>7, <2>2, <2>3, <2>4
  <2>6. iters' = 2 * tmp[t]
    BY <1>1, <2>5 DEF ShiftLeft
  <2>7. iters' \in c .. Q * c /\ 2 * c <= iters'
    BY <2>2, <2>3, <2>6
  <2>8. \A u \in Running : pc'[u] = "shiftStore" => tmp[u] \in c .. P * c
    BY <1>2, <2>1
  <2>9. \A u \in Running : pc'[u] = "shiftStore" => tmp[u] \in c .. Q * c
    BY <2>3, <2>8
  <2> QED
    BY <2>7, <2>9
<1>8. ShiftInv'
  BY <1>1, <1>2, <1>5, <1>6, <1>7 DEF ShiftInv
<1> QED
  BY <1>3, <1>8 DEF GrowthInv

\* A thread that goes to the barrier from between two rounds and is held
\* leaves the shifts of the others as they are.
LEMMA HeldBetween ==
  ASSUME IInv, GrowthInv, NEW t \in Running, pc[t] \in {"test", "predict"},
         NEW to \in {"calStart", "begin"}, Goto(t, to),
         blocked' = blocked \cup {t}, t = 0 => iterations' = 0 \/ to = "begin",
         t # 0 => iterations' = iterations,
         UNCHANGED <<iters, elapsed, tmp, i>>
  PROVE  GrowthInv'
<1>1. /\ t \in Threads /\ t \notin blocked /\ Running' = Running \ {t}
      /\ pc' = [pc EXCEPT ![t] = to] /\ pc \in [Threads -> Label]
      /\ 0 \in Threads /\ Running = Threads \ blocked
  BY DEF IInv, TypeOK, Running, Goto, Threads
<1>2. \A u \in Running' : pc'[u] = pc[u] /\ pc[u] \in Between /\ u \in Running
  BY <1>1, OthersBetween DEF IInv, Between
<1>3. ElapsedInv'
  BY <1>1 DEF GrowthInv, ElapsedInv
<1>4. RoundInv' /\ RoundGrowth'
  BY <1>1, <1>2 DEF RoundInv, RoundGrowth, Rounds, Between
<1>5. UnscheduledInv'
  BY <1>1 DEF GrowthInv, UnscheduledInv, Calibration
<1>6. Stored' = Stored
  BY <1>1 DEF Stored
<1>7. Shifting' => Shifting
  BY <1>1, <1>2 DEF Shifting
<1>8. ShiftInv'
  BY <1>1, <1>2, <1>6, <1>7 DEF GrowthInv, ShiftInv
<1> QED
  BY <1>3, <1>4, <1>5, <1>8 DEF GrowthInv

LEMMA TopPositive == Top \in Nat \ {0} /\ Bound <= Top
<1>1. 2 ^ NumThreads \in Nat \ {0}
  BY PowerOfTwo
<1>2. 1 * Bound <= 2 ^ NumThreads * Bound /\ 2 ^ NumThreads * Bound \in Nat
  BY <1>1, MulMono
<1> QED
  BY <1>2 DEF Top

\* The last thread to see that the calibration goes on opens the barrier to
\* another round, of at least twice the calls of the one before and of at
\* most as many as all threads' shifts make of them (run.cpp:160-161).
LEMMA OpenRound ==
  ASSUME IInv, IInv', GrowthInv, NoRoundLost, NEW t \in Running, pc[t] = "test",
         elapsed <= Bound, Goto(t, "calStart"),
         blocked \cup {t} = Threads, blocked' = {},
         UNCHANGED <<iters, elapsed, iterations, i>>
  PROVE  GrowthInv'
<1>1. /\ t \in Threads /\ t \notin blocked /\ Running' = Threads
      /\ pc' = [pc EXCEPT ![t] = "calStart"] /\ pc \in [Threads -> Label]
      /\ 0 \in Threads /\ elapsed \in Nat /\ iters \in Int
  BY DEF IInv, TypeOK, NumberInv, Running, Goto, Threads
<1>2. \A u \in Threads : pc'[u] = "calStart"
  <2>1. Dest(t) = "calStart"
    BY <1>1 DEF IInv, CalibrationInv, Calibration, Dest, Between
  <2> QED
    BY <1>1, <2>1 DEF IInv, BarrierInv
<1>3. ElapsedInv'
  BY <1>1, <1>2 DEF GrowthInv, ElapsedInv
<1>4. ShiftInv'
  BY <1>1, <1>2 DEF ShiftInv, Shifting, Between
<1>5. iters \in 1 .. Top /\ RoundGrowth'
  <2>1. CASE elapsed = 0
    <3>1. iters = 1
      BY <2>1 DEF GrowthInv, ElapsedInv
    <3> QED
      BY <2>1, <3>1, TopPositive DEF RoundGrowth
  <2>2. CASE elapsed # 0
    <3> DEFINE c == i[0]
               P == 2 ^ Cardinality(Stored)
               X == 2 ^ NumThreads
    <3>1. Shifting
      BY <1>1, <2>2 DEF Shifting, Between
    <3>2. /\ \A u \in Threads : i[u] = c
          /\ c \in 1 .. Top /\ c <= elapsed /\ c \in Nat
      BY <3>1 DEF GrowthInv, ShiftInv
    <3>3. Stored \in SUBSET Threads /\ t \in Stored
      BY <1>1 DEF Stored
    <3>4. P \in Nat \ {0} /\ X \in Nat \ {0} /\ P <= X
      BY <3>3, PowerOfThreads, PowerOfTwo
    <3>5. X * c < LongHalf =>
            iters \in c .. P * c /\ (Stored # {} => 2 * c <= iters)
      BY <3>1 DEF GrowthInv, ShiftInv
    <3>6. X * Bound < LongHalf
      BY DEF NoRoundLost
    <3> HIDE DEF c, P, X
    <3>7. c * X <= Bound * X /\ c * X \in Nat /\ Bound * X \in Nat
      BY <1>1, <3>2, <3>4, MulMono
    <3>8. iters \in c .. P * c /\ 2 * c <= iters
      BY <3>2, <3>3, <3>4, <3>5, <3>6, <3>7
    <3>9. P * c <= X * c /\ P * c \in Nat /\ X * c \in Nat
      BY <3>2, <3>4, MulMono
    <3>10. iters <= X * c /\ X * c <= X * Bound
      BY <1>1, <3>2, <3>4, <3>7, <3>8, <3>9
    <3>11. Bound # 0 /\ Top = X * Bound
      BY <1>1, <2>2 DEF Top, X
    <3>12. iters \in 1 .. Top
      <4>1. X * Bound \in Nat
        BY <3>4
      <4> HIDE DEF NoRoundLost
      <4> QED
        BY <1>1, <3>2, <3>8, <3>9, <3>10, <3>11, <4>1
    <3>13. iters \in 2 * c .. X * c
      BY <1>1, <3>2, <3>8, <3>9, <3>10
    <3>14. \A u \in Threads : iters' \in 2 * i'[u] .. X * i'[u]
      BY <3>2, <3>13
    <3> QED
      BY <3>12, <3>14 DEF RoundGrowth, X
  <2> QED
    BY <2>1, <2>2
<1>6. RoundInv'
  BY <1>5 DEF RoundInv, Top
<1>7. UnscheduledInv'
  <2>1. pc[0] \in {"test", "calStart"}
    BY <1>1, <1>2
  <2>2. iterations = 0
    BY <2>1 DEF GrowthInv, UnscheduledInv, Calibration
  <2> QED
    BY <2>2 DEF UnscheduledInv
<1> QED
  BY <1>3, <1>4, <1>5, <1>6, <1>7 DEF GrowthInv

LEMMA TestGrowth ==
  ASSUME IInv, IInv', GrowthInv, NoRoundLost, NEW t \in Threads, Test(t)
  PROVE  GrowthInv'
<1>1. CASE elapsed > Bound
  BY <1>1, LeaveGrowth
<1>2. CASE elapsed <= Bound
  <2>1. /\ t \in Running /\ pc[t] = "test" /\ blocked \subseteq Threads
        /\ Goto(t, "calStart") /\ Barrier(t) /\ t \notin blocked
        /\ UNCHANGED <<iters, elapsed, iterations, seconds, tmp, i, e>>
    BY <1>2 DEF Test, At, Running, BarrierThen, IInv, TypeOK
  <2>2. CASE blocked \cup {t} = Threads /\ blocked' = {}
    BY <1>2, <2>1, <2>2, OpenRound
  <2>3. CASE blocked' = blocked \cup {t}
    <3>1. t = 0 => iterations = 0
      BY <2>1 DEF GrowthInv, UnscheduledInv, Calibration
    <3> QED
      BY <2>1, <2>3, <3>1, HeldBetween
  <2> QED
    BY <2>1, <2>2, <2>3, BarrierStep
<1> QED
  BY <1>1, <1>2 DEF IInv, NumberInv

LEMMA PredictGrowth ==
  ASSUME IInv, IInv', GrowthInv, NEW t \in Threads, PredictIterations(t)
  PROVE  GrowthInv'
<1>1. /\ t \in Running /\ pc[t] = "predict" /\ blocked \subseteq Threads
      /\ Goto(t, "begin") /\ Barrier(t) /\ t \notin blocked
      /\ UNCHANGED <<iters, elapsed, seconds, tmp, i, e>>
      /\ t # 0 => iterations' = iterations
      /\ pc \in [Threads -> Label]
  BY DEF PredictIterations, At, Running, BarrierThen, IInv, TypeOK
<1>2. CASE blocked \cup {t} = Threads /\ blocked' = {}
  <2>1. Dest(t) = "begin"
    BY <1>1 DEF IInv, NumberInv, CalibrationInv, Calibration, Dest, Between
  <2>2. \A u \in Threads : pc'[u] = "begin"
    BY <1>1, <1>2, <2>1 DEF IInv, BarrierInv, Goto
  <2>3. Running' \subseteq Threads
    BY DEF Running
  <2>4. \A u \in Running' : pc'[u] \notin Between \cup Rounds
    BY <2>2, <2>3 DEF Between, Rounds
  <2>5. (elapsed = 0 => iters = 1)'
    BY <1>1 DEF GrowthInv, ElapsedInv
  <2> QED
    BY <2>4, <2>5, Outside
<1>3. CASE blocked' = blocked \cup {t}
  BY <1>1, <1>3, HeldBetween
<1> QED
  BY <1>1, <1>2, <1>3, BarrierStep

-----------------------------------------------------------------------------
(* Steps of a round.                                                       *)

\* When a thread is inside a round, all that run are at the same place.
LEMMA OthersInRound ==
  ASSUME TypeOK, BarrierInv, NEW t \in Running, pc[t] \in Rounds
  PROVE  /\ \A u \in Running : pc[u] = pc[t]
         /\ \A u \in blocked : pc[u] = Dest(t)
<1>1. pc[t] \in Label /\ \A u \in Running : pc[u] \in Label
  BY DEF TypeOK, Running
<1>2. \A u \in Running : Section(pc[u]) = Section(pc[t])
  BY DEF BarrierInv
<1>3. \A u \in Running : pc[u] = pc[t]
  BY <1>1, <1>2 DEF Section, Between, Rounds
<1> QED
  BY <1>3 DEF BarrierInv

\* The start of a round and its calls.
LEMMA RoundStep ==
  ASSUME IInv, IInv', GrowthInv, NEW t \in Threads,
         CalStart(t) \/ CalBench(t)
  PROVE  GrowthInv'
<1>1. /\ t \in Running /\ pc[t] \in {"calStart", "calBench"}
      /\ UNCHANGED <<iters, elapsed, iterations, seconds, tmp, e>>
      /\ pc \in [Threads -> Label] /\ blocked \subseteq Threads
      /\ t \notin blocked /\ 0 \in Threads /\ i \in [Threads -> Int]
  <2>1. 0 \in Threads
    BY DEF Threads
  <2>2. /\ t \in Running /\ pc[t] \in {"calStart", "calBench"}
        /\ UNCHANGED <<iters, elapsed, iterations, seconds, tmp, e>>
    <3>1. CASE CalStart(t)
      BY <3>1 DEF CalStart, At, Running
    <3>2. CASE CalBench(t)
      BY <3>2 DEF CalBench, At, Running
    <3> QED
      BY <3>1, <3>2
  <2> QED
    BY <2>1, <2>2 DEF Running, IInv, TypeOK
<1>2. \A u \in Running : pc[u] = pc[t]
  BY <1>1, OthersInRound DEF IInv, Rounds
<1>3. \A u \in blocked : pc[u] \in {"calBench", "calStop"}
  BY <1>1, OthersInRound DEF IInv, Rounds, Dest, Between
<1>4. /\ pc'[t] \in {"calBench", "calStop"}
      /\ \A u \in Threads \ {t} : pc'[u] = pc[u] /\ i'[u] = i[u]
  <2>1. CASE CalStart(t)
    BY <1>1, <2>1 DEF CalStart, BarrierThen, Goto
  <2>2. CASE CalBench(t) /\ i[t] < iters
    <3>1. /\ pc' = pc /\ i' = [i EXCEPT ![t] = Increment(i[t])]
          /\ pc[t] = "calBench"
      BY <2>2 DEF CalBench, At
    <3> QED
      BY <1>1, <3>1
  <2>3. CASE CalBench(t) /\ ~(i[t] < iters)
    BY <1>1, <2>3 DEF CalBench, BarrierThen, Goto
  <2> QED
    BY <2>1, <2>2, <2>3
<1>5. \A u \in Threads : pc'[u] \in Rounds
  BY <1>1, <1>2, <1>3, <1>4 DEF Running, Rounds
<1>6. ElapsedInv' /\ ShiftInv' /\ UnscheduledInv'
  <2>1. ElapsedInv'
    BY <1>1, <1>5 DEF GrowthInv, ElapsedInv, Rounds, Running
  <2>2. ShiftInv'
    BY <1>5 DEF ShiftInv, Shifting, Running, Rounds, Between
  <2>3. pc[0] \in Rounds
    BY <1>1, <1>2, <1>3 DEF Running, Rounds
  <2>4. iterations = 0
    BY <2>3 DEF GrowthInv, UnscheduledInv, Rounds, Calibration
  <2> QED
    BY <1>1, <2>1, <2>2, <2>4 DEF UnscheduledInv
<1>7. RoundInv'
  BY <1>1 DEF GrowthInv, RoundInv, Rounds, Top
<1>8. RoundGrowth'
  <2>1. ASSUME NEW u \in Threads \ blocked', pc'[u] = "calStart"
        PROVE  u # t /\ u \in Threads \ blocked /\ pc[u] = "calStart"
    <3>1. u # t /\ pc[u] = "calStart"
      BY <1>4, <2>1
    <3> QED
      BY <1>3, <3>1
  <2>2. \A u \in Threads \ blocked' : pc'[u] = "calStart" =>
          /\ u \in Threads \ blocked /\ pc[u] = "calStart" /\ i'[u] = i[u]
    BY <1>4, <2>1
  <2> QED
    BY <1>1, <2>2 DEF GrowthInv, RoundGrowth
<1> QED
  BY <1>6, <1>7, <1>8 DEF GrowthInv

\* The end of a round: its calls are those of every thread, and the timer
\* shows no fewer (run.cpp:183-191).
LEMMA CalStopGrowth ==
  ASSUME IInv, IInv', GrowthInv, NEW t \in Threads, CalStop(t)
  PROVE  GrowthInv'
<1>1. /\ t \in Running /\ pc[t] = "calStop" /\ Barrier(t)
      /\ pc' = [pc EXCEPT ![t] = "shiftLoad"]
      /\ UNCHANGED <<iters, iterations, seconds, tmp, i, e>>
      /\ pc \in [Threads -> Label] /\ blocked \subseteq Threads
      /\ t \notin blocked /\ 0 \in Threads /\ elapsed \in Nat
  BY DEF CalStop, At, Running, IInv, TypeOK, NumberInv, Threads, BarrierThen,
     Goto
<1>2. \A u \in Threads :
        IF u \in blocked THEN pc[u] = "shiftLoad" ELSE pc[u] = "calStop"
  BY <1>1, OthersStopped DEF IInv
<1>3. iters \in 1 .. Top /\ iters \in Nat
  BY <1>1 DEF GrowthInv, RoundInv, Rounds
<1>4. /\ \A u \in blocked \cup {t} : i[u] = iters
  BY <1>1, <1>2, <1>3 DEF IInv, WorkInv, LoopCount
<1>5. /\ t = 0 => elapsed' >= i[0] /\ elapsed' # 0
      /\ t # 0 => elapsed' = elapsed
  <2>1. \A n \in Noise : iters + n >= iters /\ iters + n # 0
    BY <1>3
  <2> QED
    BY <1>3, <1>4, <2>1 DEF CalStop
<1>6. \A u \in Threads : pc'[u] \in {"calStop", "shiftLoad"}
  BY <1>1, <1>2
<1>7. RoundGrowth' /\ UnscheduledInv'
  <2>1. RoundGrowth'
    BY <1>6 DEF RoundGrowth
  <2>2. pc[0] \in {"calStop", "shiftLoad"}
    BY <1>1, <1>2
  <2>3. iterations = 0
    BY <2>2 DEF GrowthInv, UnscheduledInv, Calibration
  <2> QED
    BY <1>1, <2>1, <2>3 DEF UnscheduledInv
<1>8. RoundInv'
  BY <1>1, <1>3 DEF RoundInv, Top
<1>9. elapsed' = 0 => iters' = 1
  BY <1>1, <1>5 DEF GrowthInv, ElapsedInv
<1>10. CASE blocked \cup {t} = Threads /\ blocked' = {}
  <2>1. \A u \in Threads : pc'[u] = "shiftLoad" /\ i[u] = iters
    BY <1>1, <1>2, <1>4, <1>10
  <2>2. elapsed' >= iters /\ elapsed' # 0
    <3>1. CASE t = 0
      BY <1>5, <2>1, <3>1
    <3>2. CASE t # 0
      <4>1. 0 \in blocked /\ pc[0] = "shiftLoad"
        BY <1>1, <1>2, <1>10, <3>2
      <4>2. elapsed >= i[0] /\ i[0] = iters
        BY <1>1, <2>1, <4>1 DEF GrowthInv, ElapsedInv
      <4> QED
        BY <1>1, <1>3, <1>5, <3>2, <4>2
    <3> QED
      BY <3>1, <3>2
  <2>3. Stored' = {}
    BY <1>10, <2>1 DEF Stored
  <2>4. 2 ^ Cardinality(Stored') = 1
    <3>1. Cardinality({}) = 0
      BY FS_EmptySet
    <3> QED
      BY <2>3, <3>1, PowerOfZero
  <2>5. ElapsedInv'
    BY <1>9, <1>10, <2>2 DEF ElapsedInv
  <2>6. iters' \in i'[0] .. 2 ^ Cardinality(Stored') * i'[0]
    BY <1>1, <1>3, <2>1, <2>4
  <2>7. \A u \in Running' : pc'[u] # "shiftStore"
    BY <2>1 DEF Running
  <2>8. /\ \A u \in Threads : i'[u] = i'[0]
        /\ i'[0] \in 1 .. Top /\ i'[0] <= elapsed'
    BY <1>1, <1>3, <2>1, <2>2
  <2>9. ShiftInv'
    BY <2>3, <2>6, <2>7, <2>8 DEF ShiftInv, Top
  <2> QED
    BY <1>7, <1>8, <2>5, <2>9 DEF GrowthInv
<1>11. CASE blocked' = blocked \cup {t} /\ blocked \cup {t} # Threads
  <2>1. \A u \in Running' : pc'[u] = "calStop"
    BY <1>1, <1>2, <1>11 DEF Running
  <2>2. ShiftInv'
    BY <2>1 DEF ShiftInv, Shifting, Between
  <2>3. ElapsedInv'
    <3>1. 0 \in blocked' => elapsed' >= i'[0]
      <4>1. CASE t = 0
        BY <1>1, <1>5, <4>1
      <4>2. CASE t # 0
        BY <1>1, <1>2, <1>5, <1>11, <4>2 DEF GrowthInv, ElapsedInv
      <4> QED
        BY <4>1, <4>2
    <3> QED
      BY <1>9, <2>1, <3>1 DEF ElapsedInv
  <2> QED
    BY <1>7, <1>8, <2>2, <2>3 DEF GrowthInv
<1> QED
  BY <1>1, <1>10, <1>11, BarrierStep

-----------------------------------------------------------------------------
(* Every step preserves the invariant.                                     *)

LEMMA InitGrowth == Init => GrowthInv
<1> SUFFICES ASSUME Init PROVE GrowthInv
  OBVIOUS
<1>1. 0 \in Threads /\ \A t \in Threads : pc[t] = "decide"
  BY DEF Init, Threads
<1>2. elapsed = 0 /\ iters = 1 /\ blocked = {} /\ Running \subseteq Threads
  BY DEF Init, BarrierInit, Running
<1>3. ElapsedInv /\ RoundInv /\ RoundGrowth /\ ShiftInv /\ UnscheduledInv
  BY <1>1, <1>2 DEF ElapsedInv, RoundInv, RoundGrowth, ShiftInv, Shifting,
     UnscheduledInv, Rounds, Calibration
<1> QED
  BY <1>3 DEF GrowthInv

\* The steps of the experiments.
LEMMA ExperimentGrowth ==
  ASSUME IInv, IInv', GrowthInv, NEW t \in Threads,
         \/ Begin(t) \/ ExpStart(t) \/ ExpBench(t) \/ ExpStop(t)
         \/ Record(t) \/ Free(t)
  PROVE  GrowthInv'
<1> DEFINE Phase == {"begin", "expStart", "expBench", "expStop", "record",
                     "free", "done"}
<1>1. Phase \subseteq Label \ (Between \cup Rounds)
  BY DEF Label, Between, Rounds
<1>2. pc \in [Threads -> Label]
  BY DEF IInv, TypeOK
<1>3. \/ \E to \in Phase : BarrierThen(t, to)
      \/ \E to \in Phase : Goto(t, to) /\ blocked' = blocked
  <2>1. CASE Begin(t) \/ ExpStart(t) \/ ExpStop(t)
    BY <2>1 DEF Begin, ExpStart, ExpStop
  <2>2. CASE ExpBench(t)
    <3>1. CASE i[t] < iterations
      <4>1. pc[t] = "expBench" /\ pc' = pc /\ blocked' = blocked
        BY <2>2, <3>1 DEF ExpBench, At
      <4>2. Goto(t, "expBench")
        BY <1>2, <4>1 DEF Goto
      <4> QED
        BY <4>1, <4>2
    <3>2. CASE ~(i[t] < iterations)
      BY <2>2, <3>2 DEF ExpBench
    <3> QED
      BY <3>1, <3>2
  <2>3. CASE Record(t)
    BY <2>3 DEF Record
  <2>4. CASE Free(t)
    BY <2>4 DEF Free
  <2> QED
    BY <2>1, <2>2, <2>3, <2>4
<1>4. t \in Running /\ pc[t] \in Phase
  BY DEF Begin, ExpStart, ExpBench, ExpStop, Record, Free, At, Running
<1>5. UNCHANGED <<iters, elapsed>>
  BY DEF Begin, ExpStart, ExpBench, ExpStop, Record, Free
<1>6. PICK to \in Phase : Goto(t, to) /\ (blocked' = blocked \/ Barrier(t))
  BY <1>3 DEF BarrierThen
<1> HIDE DEF Phase
<1> QED
  BY <1>1, <1>4, <1>5, <1>6, OutsideStep

LEMMA StutterGrowth ==
  ASSUME GrowthInv, UNCHANGED vars PROVE GrowthInv'
<1>1. UNCHANGED <<blocked, pc, iters, elapsed, iterations, seconds, tmp, i, e>>
  BY DEF vars
<1>2. Running' = Running /\ Stored' = Stored
  BY <1>1 DEF Running, Stored
<1>3. Shifting' = Shifting
  BY <1>1, <1>2 DEF Shifting
<1>4. ElapsedInv' /\ RoundInv' /\ RoundGrowth' /\ UnscheduledInv'
  BY <1>1, <1>2 DEF GrowthInv, ElapsedInv, RoundInv, RoundGrowth,
     UnscheduledInv, Top
<1>5. ShiftInv'
  BY <1>1, <1>2, <1>3 DEF GrowthInv, ShiftInv
<1> QED
  BY <1>4, <1>5 DEF GrowthInv

\* No step of any thread breaks the growth of the rounds.
LEMMA NextGrowth ==
  ASSUME NoRoundLost, IInv, IInv', GrowthInv, [Next]_vars
  PROVE  GrowthInv'
<1>1. ASSUME NEW t \in Threads, Thread(t) PROVE GrowthInv'
  BY <1>1, DecideGrowth, InitItersGrowth, TestGrowth, RoundStep,
     CalStopGrowth, ShiftLoadGrowth, ShiftStoreGrowth, PredictGrowth,
     ExperimentGrowth DEF Thread
<1>2. CASE UNCHANGED vars
  BY <1>2, StutterGrowth
<1> QED
  BY <1>1, <1>2 DEF Next, Terminating

\* The growth of the rounds, with everything it rests on.
THEOREM GrowthInvariance ==
  ASSUME NoRoundLost
  PROVE  Spec => [](IInv /\ GrowthInv)
<1>1. Init => IInv /\ GrowthInv
  BY InitInvariant, InitGrowth
<1>2. IInv /\ GrowthInv /\ [Next]_vars => (IInv /\ GrowthInv)'
  BY NextInvariant, NextGrowth
<1> QED
  BY <1>1, <1>2, PTL DEF Spec

\* However the unlocked shifts of the threads interleave, a round has at least
\* twice the calls of the one before, and at most those of one doubling by
\* every thread (run.cpp:157-193).
THEOREM RoundGrowthCorrect ==
  ASSUME NoRoundLost
  PROVE  Spec => []RoundGrowth
<1>1. IInv /\ GrowthInv => RoundGrowth
  BY DEF GrowthInv
<1> QED
  BY <1>1, GrowthInvariance, PTL

-----------------------------------------------------------------------------
(* The schedule.                                                           *)

LEMMA RoundUpMono ==
  ASSUME NEW a \in Nat, NEW b \in Nat, NEW d \in Nat \ {0}, a <= b
  PROVE  /\ RoundUp(a, d) \in Nat /\ RoundUp(b, d) \in Nat
         /\ RoundUp(a, d) <= RoundUp(b, d)
<1> DEFINE x == a + d - 1
           y == b + d - 1
<1>1. x \in Nat /\ y \in Nat /\ x <= y
  OBVIOUS
<1> HIDE DEF x, y
<1>2. x \div d \in Nat /\ y \div d \in Nat /\ x \div d <= y \div d
  BY <1>1
<1> QED
  BY <1>2 DEF RoundUp, x, y

LEMMA RoundUpTwice ==
  ASSUME NEW a \in Nat, NEW d \in Nat \ {0}
  PROVE  RoundUp(2 * a, 2 * d) = RoundUp(a, d)
<1> DEFINE q == (a + d - 1) \div d
           r == (a + d - 1) % d
<1>1. a + d - 1 = d * q + r /\ r \in 0 .. d - 1 /\ q \in Nat
  OBVIOUS
<1>2. 2 * a + 2 * d - 1 = (2 * d) * q + (2 * r + 1)
  <2>1. 2 * (a + d - 1) = 2 * (d * q) + 2 * r
    BY <1>1
  <2> QED
    BY <1>1, <2>1
<1>3. 2 * r + 1 \in 0 .. 2 * d - 1
  BY <1>1
<1>4. (2 * a + 2 * d - 1) \div (2 * d) = q
  BY <1>1, <1>2, <1>3
<1> QED
  BY <1>4 DEF RoundUp

\* What is needed grows with the calls of the round it is computed from.
LEMMA NeededMono ==
  ASSUME NEW a \in Nat, NEW b \in Nat, NEW d \in Nat \ {0}, a <= b
  PROVE  Needed(a, d) <= Needed(b, d)
<1>1. a * Seconds <= b * Seconds /\ a * Seconds \in Nat /\ b * Seconds \in Nat
  BY MulMono
<1>2. /\ RoundUp(Seconds * a, d) \in Nat /\ RoundUp(Seconds * b, d) \in Nat
      /\ RoundUp(Seconds * a, d) <= RoundUp(Seconds * b, d)
  BY <1>1, RoundUpMono
<1> QED
  BY <1>2 DEF Needed, AtLeastOne

\* The factor 0.5 of the prediction takes one shift back: predicting from n
\* calls gives at least what twice a would, for all a that n doubles, and at
\* most what twice b would, for all b that n does not exceed the double of.
LEMMA PredictBetween ==
  ASSUME 0 < Seconds, NEW ticks \in Nat \ {0},
         NEW n \in Nat, NEW a \in Nat, NEW b \in Nat, 2 * a <= n, n <= 2 * b
  PROVE  Needed(a, ticks) <= Predict(n, ticks)
         /\ Predict(n, ticks) <= Needed(b, ticks)
<1> DEFINE d == 2 * ticks
<1>1. d \in Nat \ {0} /\ 2 * a \in Nat /\ 2 * b \in Nat
  OBVIOUS
<1>2. Predict(n, ticks) = Needed(n, d)
  BY DEF Predict, Needed
<1>3. Needed(2 * a, d) <= Needed(n, d) /\ Needed(n, d) <= Needed(2 * b, d)
  <2> HIDE DEF d
  <2> QED
    BY <1>1, NeededMono
<1>4. ASSUME NEW c \in Nat PROVE Needed(2 * c, d) = Needed(c, ticks)
  <2>1. Seconds * c \in Nat /\ Seconds * (2 * c) = 2 * (Seconds * c)
    OBVIOUS
  <2>2. RoundUp(2 * (Seconds * c), d) = RoundUp(Seconds * c, ticks)
    BY <2>1, RoundUpTwice
  <2> QED
    BY <2>1, <2>2 DEF Needed
<1> HIDE DEF d
<1> QED
  BY <1>2, <1>3, <1>4

LEMMA NoRoundLostEither == NoShiftLost => NoRoundLost
<1> SUFFICES ASSUME NoShiftLost PROVE NoRoundLost
  OBVIOUS
<1>1. 2 ^ NumThreads \in Nat /\ Top \in Nat /\ Bound <= Top
  BY PowerOfTwo, TopPositive
<1>2. Bound * 2 ^ NumThreads <= Top * 2 ^ NumThreads
  BY <1>1, MulMono
<1>3. Bound * 2 ^ NumThreads = 2 ^ NumThreads * Bound
      /\ Top * 2 ^ NumThreads = 2 ^ NumThreads * Top
      /\ 2 ^ NumThreads * Bound \in Nat /\ 2 ^ NumThreads * Top \in Nat
  BY <1>1
<1> QED
  BY <1>2, <1>3 DEF NoShiftLost, NoRoundLost

\* What thread 0 computes the schedule from: at least one shift, its own, of
\* the calls it remembers of the last round, and at most one of every thread.
LEMMA LastShifts ==
  ASSUME NoShiftLost, IInv, GrowthInv, 0 \in Running, pc[0] = "predict"
  PROVE  /\ elapsed \in Nat \ {0} /\ i[0] \in Nat /\ iters \in Nat
         /\ 2 * i[0] <= iters
         /\ iters <= 2 * (2 ^ (NumThreads - 1) * i[0])
<1> DEFINE c == i[0]
           P == 2 ^ Cardinality(Stored)
           X == 2 ^ NumThreads
           H == 2 ^ (NumThreads - 1)
<1>1. 0 \in Threads /\ elapsed \in Nat \ {0}
  BY DEF IInv, NumberInv, CalibrationInv, Running
<1>2. Shifting
  BY <1>1 DEF Shifting, Between
<1>3. c \in 1 .. Top /\ c \in Nat /\ Top \in Nat
  BY <1>2, TopPositive DEF GrowthInv, ShiftInv
<1>4. Stored \in SUBSET Threads /\ 0 \in Stored
  BY <1>1 DEF Stored
<1>5. P \in Nat \ {0} /\ X \in Nat \ {0} /\ P <= X
  BY <1>4, PowerOfThreads, PowerOfTwo
<1>6. H \in Nat \ {0} /\ X = 2 * H
  <2>1. NumThreads - 1 \in Nat /\ (NumThreads - 1) + 1 = NumThreads
    OBVIOUS
  <2> QED
    BY <2>1, PowerOfTwo
<1>7. X * c < LongHalf =>
        iters \in c .. P * c /\ (Stored # {} => 2 * c <= iters)
  BY <1>2 DEF GrowthInv, ShiftInv
<1>8. X * Top < LongHalf
  BY DEF NoShiftLost
<1> HIDE DEF c, P, X, H
<1>9. c * X <= Top * X /\ c * X \in Nat /\ Top * X \in Nat
  BY <1>3, <1>5, MulMono
<1>10. iters \in c .. P * c /\ 2 * c <= iters
  BY <1>3, <1>4, <1>5, <1>7, <1>8, <1>9
<1>11. P * c <= X * c /\ P * c \in Nat /\ X * c \in Nat
  BY <1>3, <1>5, MulMono
<1>12. X * c = 2 * (H * c) /\ H * c \in Nat
  BY <1>3, <1>6
<1>13. iters \in Nat /\ iters <= 2 * (H * c)
  BY <1>3, <1>10, <1>11, <1>12
<1> QED
  BY <1>1, <1>3, <1>10, <1>13 DEF c, H

\* The schedule is made once, by thread 0.  It fills the requested time at the
\* measured speed, and exceeds it only by the shifts of the other threads
\* (run.cpp:193-208).  A run that is calibrated was given a time: parse_args
\* leaves exactly one of the two limits set (OneModeCorrect).
THEOREM ScheduleBoundsCorrect ==
  ASSUME NoShiftLost, 0 < Seconds
  PROVE  Spec => ScheduleBounds
<1> DEFINE Bounded ==
             iterations' # iterations =>
               /\ iterations = 0
               /\ iterations' >= Needed(i[0], elapsed)
               /\ iterations' <= Needed(2 ^ (NumThreads - 1) * i[0], elapsed)
<1>1. ASSUME IInv, GrowthInv, [Next]_vars PROVE [Bounded]_vars
  <2> SUFFICES ASSUME iterations' # iterations PROVE Bounded
    OBVIOUS
  <2>1. PICK t \in Threads : Thread(t)
    BY <1>1 DEF Next, Terminating, vars
  <2>2. PredictIterations(t) /\ t = 0
    BY <2>1 DEF Thread, Decide, InitIters, Test, CalStart, CalBench, CalStop,
       ShiftLoad, ShiftStore, PredictIterations, Begin, ExpStart, ExpBench,
       ExpStop, Record, Free
  <2>3. 0 \in Running /\ pc[0] = "predict"
        /\ iterations' = Predict(iters, elapsed)
    BY <2>1, <2>2 DEF PredictIterations, At, Running
  <2>4. iterations = 0
    BY <1>1, <2>3 DEF GrowthInv, UnscheduledInv, Calibration
  <2>5. /\ elapsed \in Nat \ {0} /\ i[0] \in Nat /\ iters \in Nat
        /\ 2 * i[0] <= iters
        /\ iters <= 2 * (2 ^ (NumThreads - 1) * i[0])
    BY <1>1, <2>3, LastShifts
  <2> DEFINE b == 2 ^ (NumThreads - 1) * i[0]
  <2>6. b \in Nat
    <3>1. 2 ^ (NumThreads - 1) \in Nat
      BY PowerOfTwo
    <3> QED
      BY <2>5, <3>1
  <2>7. Needed(i[0], elapsed) <= Predict(iters, elapsed)
        /\ Predict(iters, elapsed) <= Needed(b, elapsed)
    <3> HIDE DEF b
    <3>1. iters <= 2 * b
      BY <2>5 DEF b
    <3> QED
      BY <2>5, <2>6, <3>1, PredictBetween
  <2>8. /\ Needed(i[0], elapsed) \in Int /\ Needed(b, elapsed) \in Int
        /\ iterations' \in Int
    <3> HIDE DEF b
    <3>1. ASSUME NEW c \in Nat PROVE Needed(c, elapsed) \in Int
      <4>1. RoundUp(Seconds * c, elapsed) \in Int
        BY <2>5 DEF RoundUp
      <4> QED
        BY <4>1 DEF Needed, AtLeastOne
    <3>2. Needed(i[0], elapsed) \in Int /\ Needed(b, elapsed) \in Int
      BY <2>5, <2>6, <3>1
    <3>3. iters \in Int
      BY <2>5
    <3>4. iterations' \in Nat
      BY <2>3, <2>5, <3>3, PredictPositive
    <3> QED
      BY <3>2, <3>4
  <2> QED
    BY <2>3, <2>4, <2>7, <2>8
<1>2. NoRoundLost
  BY NoRoundLostEither
<1>3. Spec => [](IInv /\ GrowthInv)
  BY <1>2, GrowthInvariance
<1> QED
  BY <1>1, <1>3, PTL DEF Spec, ScheduleBounds

-----------------------------------------------------------------------------
(***************************************************************************)
(* Run::run() implements the abstract measurement of Benchmark, as long as *)
(* the loop counter can hold the schedule.                                 *)
(***************************************************************************)

\* The code where an experiment is open, or waits to be recorded.
Measured == {"expBench", "expStop", "record"}

\* The schedule is made once, before the first experiment and by thread 0;
\* and those that wait to begin their calls have made none.
ScheduleInv ==
  /\ pc[0] \in {"decide"} \cup Calibration => e[0] = 0
  /\ pc[0] \in Calibration \ {"begin"} => iterations = 0
  /\ pc[0] \in {"begin", "expStart"} \cup Measured => iterations # 0
  /\ \A t \in blocked : pc[t] = "expBench" => i[t] = 0

\* The counter of the loop (`int i', run.cpp:230) can count the schedule.
CounterHolds == iterations <= IntMax

-----------------------------------------------------------------------------
(* The schedule.                                                           *)

LEMMA ZeroThread == 0 \in Threads
BY DEF Threads

LEMMA InitSchedule == Init => ScheduleInv
BY DEF Init, BarrierInit, ScheduleInv, Calibration, Measured, Threads

LEMMA NextSchedule == IInv /\ ScheduleInv /\ [Next]_vars => ScheduleInv'
<1> SUFFICES ASSUME IInv, ScheduleInv, [Next]_vars PROVE ScheduleInv'
  OBVIOUS
<1> USE DEF ScheduleInv, Calibration, Measured
<1>0. 0 \in Threads /\ TypeOK /\ CalibrationInv /\ NumberInv
  BY DEF IInv, Threads
<1>1. ASSUME NEW t \in Threads, Thread(t), ~PredictIterations(t), ~ExpStart(t), ~Record(t)
      PROVE  ScheduleInv'
  <2>1. /\ UNCHANGED <<iterations, e>>
        /\ \A u \in Threads \ {t} : pc'[u] = pc[u] /\ i'[u] = i[u]
        /\ blocked' \subseteq blocked \cup {t}
        /\ pc'[t] # "expBench" \/ (pc[t] = "expBench" /\ UNCHANGED blocked)
    BY <1>0, <1>1 DEF TypeOK, Thread, Decide, InitIters, Test, CalStart, CalBench, CalStop,
       ShiftLoad, ShiftStore, Begin, ExpBench, ExpStop, Free, BarrierThen, Barrier, Goto
  <2>2. t \notin blocked
    BY <1>1 DEF Thread, Decide, InitIters, Test, CalStart, CalBench, CalStop,
       ShiftLoad, ShiftStore, PredictIterations, Begin, ExpStart, ExpBench, ExpStop, Record,
       Free, At
  <2>3. \A u \in blocked' : pc'[u] = "expBench" => i'[u] = 0
    <3> TAKE u \in blocked'
    <3>1. CASE u = t
      BY <2>1, <2>2, <3>1
    <3>2. CASE u # t
      <4>1. u \in blocked /\ u \in Threads
        BY <1>0, <2>1, <3>2 DEF TypeOK
      <4> QED
        BY <2>1, <3>2, <4>1
    <3> QED
      BY <3>1, <3>2
  <2>4. ASSUME t = 0
        PROVE  /\ pc'[0] \in Calibration \ {"begin"} =>
                    pc[0] \in Calibration \ {"begin"} \/ (pc[0] = "decide" /\ iterations = 0)
               /\ pc'[0] \notin {"begin", "decide"}
               /\ pc'[0] \in {"expStart"} \cup Measured =>
                    iterations # 0
    BY <1>0, <1>1, <2>4 DEF TypeOK, Thread, Decide, InitIters, Test, CalStart, CalBench,
       CalStop, ShiftLoad, ShiftStore, Begin, ExpBench, ExpStop, Free, BarrierThen, Goto, At
  <2>5. CASE t = 0
    BY <1>0, <2>1, <2>3, <2>4, <2>5
  <2>6. CASE t # 0
    <3>1. pc'[0] = pc[0]
      BY <1>0, <2>1, <2>6
    <3> QED
      BY <2>1, <2>3, <3>1
  <2> QED
    BY <2>5, <2>6
<1>2. ASSUME NEW t \in Threads, PredictIterations(t) PROVE ScheduleInv'
  <2>1. t \in Threads \ blocked /\ elapsed \in Nat \ {0} /\ pc[t] = "predict"
    BY <1>0, <1>2 DEF PredictIterations, At, CalibrationInv, NumberInv
  <2>2. Predict(iters, elapsed) \in Nat \ {0}
    BY <1>0, <2>1, PredictPositive DEF TypeOK
  <2> QED
    BY <1>0, <1>2, <2>1, <2>2 DEF TypeOK, PredictIterations, BarrierThen, Barrier, Goto
<1>3. ASSUME NEW t \in Threads, ExpStart(t) PROVE ScheduleInv'
  BY <1>0, <1>3 DEF TypeOK, ExpStart, BarrierThen, Barrier, Goto, At
<1>4. ASSUME NEW t \in Threads, Record(t) PROVE ScheduleInv'
  BY <1>0, <1>4 DEF TypeOK, Record, BarrierThen, Barrier, Goto, At
<1>5. CASE UNCHANGED vars
  BY <1>5 DEF vars
<1> QED
  BY <1>1, <1>2, <1>3, <1>4, <1>5 DEF Next, Terminating

-----------------------------------------------------------------------------
(* When an experiment is open.                                             *)

LEMMA Booleans ==
  /\ Timing \in BOOLEAN /\ Timing' \in BOOLEAN
  /\ At(0, "record") \in BOOLEAN /\ At(0, "record")' \in BOOLEAN
BY DEF Timing, At

LEMMA TimingNow ==
  ASSUME IInv, NEW t \in Running
  PROVE  Timing <=> pc[t] \in {"expBench", "expStop"}
BY DEF IInv, BarrierInv, Timing, Running, Section, Between

LEMMA TimingNext ==
  ASSUME IInv', NEW t \in Running'
  PROVE  Timing' <=> pc'[t] \in {"expBench", "expStop"}
BY DEF IInv, BarrierInv, Timing, Running, Section, Between

\* The last thread at the barrier opens the next section for all; before it
\* nothing changes for the others.
LEMMA BarrierTiming ==
  ASSUME IInv, IInv', NEW t \in Running, BarrierThen(t, Dest(t))
  PROVE  \/ /\ blocked' = {}
            /\ \A u \in Threads : pc'[u] = Dest(t)
            /\ \A u \in Threads \ {t} : u \in blocked
            /\ Timing' <=> Dest(t) \in {"expBench", "expStop"}
            /\ At(0, "record")' <=> Dest(t) = "record"
         \/ /\ t \in blocked'
            /\ Timing' <=> Timing
            /\ At(0, "record")' <=> At(0, "record") /\ t # 0
<1>1. /\ t \in Threads /\ t \notin blocked /\ blocked \subseteq Threads /\ 0 \in Threads
      /\ pc' = [pc EXCEPT ![t] = Dest(t)] /\ pc \in [Threads -> Label]
  BY ZeroThread DEF IInv, TypeOK, Running, BarrierThen, Goto
<1>2. CASE blocked \cup {t} = Threads /\ blocked' = {}
  <2>1. \A u \in Threads : pc'[u] = Dest(t)
    BY <1>1, <1>2 DEF IInv, BarrierInv
  <2>2. t \in Running'
    BY <1>1, <1>2 DEF Running
  <2>3. Timing' <=> Dest(t) \in {"expBench", "expStop"}
    BY <1>1, <2>1, <2>2, TimingNext
  <2> QED
    BY <1>1, <1>2, <2>1, <2>3 DEF At
<1>3. CASE blocked' = blocked \cup {t}
  <2>1. PICK u \in Running' : TRUE
    BY DEF IInv, BarrierInv
  <2>2. u \in Running /\ pc'[u] = pc[u]
    BY <1>1, <1>3, <2>1 DEF Running
  <2>3. Timing' <=> Timing
    BY <2>1, <2>2, TimingNow, TimingNext
  <2> QED
    BY <1>1, <1>3, <2>3 DEF At
<1> QED
  BY <1>1, <1>2, <1>3, BarrierStep DEF BarrierThen

\* A step in or into code where nothing is measured.
LEMMA Quiet ==
  ASSUME IInv, IInv', NEW t \in Running, NEW to, pc[t] \notin Measured, to \notin Measured,
         (Goto(t, to) /\ UNCHANGED blocked) \/ (BarrierThen(t, to) /\ to = Dest(t)),
         UNCHANGED <<iterations, seconds, e>>
  PROVE  UNCHANGED B!bvars
<1>1. ~Timing /\ ~At(0, "record")
  <2>1. \A u \in Running : pc[u] # "record"
    BY DEF IInv, BarrierInv, Section, Between, Measured
  <2> QED
    BY <2>1, TimingNow DEF Measured, At, Running, Threads
<1>2. ~Timing' /\ ~At(0, "record")'
  <2>1. CASE Goto(t, to) /\ UNCHANGED blocked
    <3>1. t \in Running' /\ pc'[t] = to /\ 0 \in Threads
      BY <2>1 DEF IInv, TypeOK, Running, Goto, Threads
    <3>2. \A u \in Running' : pc'[u] # "record"
      BY <3>1 DEF IInv, BarrierInv, Section, Between, Measured
    <3> QED
      BY <3>1, <3>2, TimingNext DEF Measured, At, Running
  <2>2. CASE BarrierThen(t, to) /\ to = Dest(t)
    BY <1>1, <2>2, BarrierTiming DEF Measured
  <2> QED
    BY <2>1, <2>2
<1> QED
  BY <1>1, <1>2, Booleans DEF B!bvars, Closed

-----------------------------------------------------------------------------
(* Every step of a thread is one of the measurement, or none.              *)

LEMMA QuietSteps ==
  ASSUME IInv, IInv', NEW t \in Threads,
         \/ Decide(t) \/ InitIters(t) \/ Test(t) \/ CalStart(t) \/ CalBench(t) \/ CalStop(t)
         \/ ShiftLoad(t) \/ ShiftStore(t) \/ Begin(t) \/ Free(t)
  PROVE  UNCHANGED B!bvars
<1>1. /\ t \in Running /\ pc[t] \notin Measured
      /\ UNCHANGED <<iterations, seconds, e>>
  BY DEF Decide, InitIters, Test, CalStart, CalBench, CalStop, ShiftLoad, ShiftStore, Begin,
     Free, At, Running, Measured
<1>2. CASE UNCHANGED <<blocked, pc>>
  <2>1. Goto(t, pc[t])
    BY <1>2 DEF IInv, TypeOK, Goto
  <2> QED
    BY <1>1, <1>2, <2>1, Quiet
<1>3. CASE \E to \in Label \ Measured : Goto(t, to) /\ UNCHANGED blocked
  BY <1>1, <1>3, Quiet
<1>4. CASE BarrierThen(t, Dest(t)) /\ Dest(t) \notin Measured
  BY <1>1, <1>4, Quiet
<1>5. \/ UNCHANGED <<blocked, pc>>
      \/ \E to \in Label \ Measured : Goto(t, to) /\ UNCHANGED blocked
      \/ BarrierThen(t, Dest(t)) /\ Dest(t) \notin Measured
  <2> USE <1>1 DEF Measured, Label, At, Dest, Between, IInv, CalibrationInv, Calibration
  <2>1. CASE Decide(t) \/ InitIters(t) \/ Test(t)
    BY <2>1 DEF Decide, InitIters, Test
  <2>2. CASE CalStart(t) \/ CalBench(t) \/ CalStop(t) \/ Begin(t)
    BY <2>2 DEF CalStart, CalBench, CalStop, Begin
  <2>3. CASE ShiftLoad(t) \/ ShiftStore(t) \/ Free(t)
    BY <2>3 DEF ShiftLoad, ShiftStore, Free
  <2> QED
    BY <2>1, <2>2, <2>3
<1> QED
  BY <1>2, <1>3, <1>4, <1>5

LEMMA ScheduleStep ==
  ASSUME IInv, IInv', ScheduleInv, NEW t \in Threads, PredictIterations(t)
  PROVE  B!Schedule \/ UNCHANGED B!bvars
<1>1. /\ t \in Running /\ pc[t] = "predict" /\ t \in Threads
      /\ BarrierThen(t, "begin") /\ Dest(t) = "begin"
      /\ elapsed \in Nat \ {0} /\ UNCHANGED <<seconds, e, i>>
  BY DEF IInv, PredictIterations, At, Running, Dest, Between, CalibrationInv, Calibration,
     NumberInv
<1>2. Predict(iters, elapsed) \in Nat \ {0}
  BY <1>1, PredictPositive DEF IInv, TypeOK
<1>3. CASE t # 0
  BY <1>1, <1>3, Quiet DEF PredictIterations, Measured
<1>4. CASE t = 0
  <2>1. ~Timing /\ ~At(0, "record")
    BY <1>1, <1>4, TimingNow DEF At
  <2>2. ~Timing' /\ ~At(0, "record")'
    BY <1>1, <2>1, BarrierTiming
  <2>3. iterations = 0 /\ e[0] = 0
    BY <1>1, <1>4 DEF ScheduleInv, Calibration
  <2> QED
    BY <1>1, <1>2, <1>4, <2>1, <2>2, <2>3, Booleans DEF B!Schedule, Closed, PredictIterations
<1> QED
  BY <1>3, <1>4

LEMMA OpenStep ==
  ASSUME IInv, IInv', ScheduleInv, ScheduleInv', NEW t \in Threads, ExpStart(t)
  PROVE  B!Open \/ UNCHANGED B!bvars
<1>1. /\ t \in Running /\ pc[t] = "expStart" /\ 0 \in Threads
      /\ BarrierThen(t, "expBench") /\ Dest(t) = "expBench"
      /\ i' = [i EXCEPT ![t] = 0] /\ i \in [Threads -> Int]
      /\ UNCHANGED <<iterations, seconds, e>>
  BY ZeroThread DEF IInv, TypeOK, ExpStart, At, Running, Dest, Between
<1>2. ~Timing /\ ~At(0, "record")
  <2>1. \A u \in Running : pc[u] # "record"
    BY <1>1 DEF IInv, BarrierInv, Section, Between
  <2> QED
    BY <1>1, <2>1, TimingNow DEF At, Running
<1>3. CASE t \in blocked' /\ (Timing' <=> Timing) /\ (At(0, "record")' <=> At(0, "record") /\ t # 0)
  BY <1>1, <1>2, <1>3, Booleans DEF B!bvars, Closed
<1>4. CASE /\ blocked' = {}
           /\ \A u \in Threads : pc'[u] = Dest(t)
           /\ \A u \in Threads \ {t} : u \in blocked
           /\ Timing' <=> Dest(t) \in {"expBench", "expStop"}
           /\ At(0, "record")' <=> Dest(t) = "record"
  <2>1. Timing' /\ ~At(0, "record")'
    BY <1>1, <1>4
  <2>2. ASSUME NEW u \in Threads PROVE i'[u] = 0
    <3>1. CASE u = t
      BY <1>1, <3>1
    <3>2. CASE u # t
      <4>1. u \in blocked /\ pc[u] = "expBench"
        BY <1>1, <1>4, <3>2 DEF IInv, BarrierInv
      <4> QED
        BY <1>1, <3>2, <4>1 DEF ScheduleInv
    <3> QED
      BY <3>1, <3>2
  <2>3. i' = [u \in Threads |-> 0]
    BY <1>1, <2>2
  <2>4. iterations # 0 /\ e[0] < Experiments
    BY <1>1, <1>4 DEF IInv, ExperimentInv, ScheduleInv, Measured, Running
  <2> QED
    BY <1>1, <1>2, <2>1, <2>3, <2>4, Booleans DEF B!Open, Closed
<1> QED
  BY <1>1, <1>3, <1>4, BarrierTiming

LEMMA CallStep ==
  ASSUME IInv, IInv', CounterHolds, NEW t \in Threads, ExpBench(t)
  PROVE  B!Call(t) \/ UNCHANGED B!bvars
<1>1. /\ t \in Running /\ pc[t] = "expBench" /\ 0 \in Threads
      /\ i \in [Threads -> Int] /\ Timing /\ ~At(0, "record")
      /\ iterations \in Int /\ i[t] \in Int
  <2>1. t \in Running /\ pc[t] = "expBench"
    BY DEF ExpBench, At, Running
  <2>2. \A u \in Running : pc[u] # "record"
    BY <2>1 DEF IInv, BarrierInv, Section, Between
  <2> QED
    BY <2>1, <2>2, TimingNow, ZeroThread DEF IInv, TypeOK, At, Running
<1>2. CASE i[t] < iterations
  <2>1. /\ i' = [i EXCEPT ![t] = i[t] + 1]
        /\ UNCHANGED <<blocked, pc, iterations, seconds, e>>
    BY <1>1, <1>2 DEF ExpBench, Increment, CounterHolds
  <2>2. Timing' /\ ~At(0, "record")'
    BY <1>1, <2>1 DEF Timing, At
  <2> QED
    BY <1>1, <1>2, <2>1, <2>2, Booleans DEF B!Call, Closed
<1>3. CASE ~(i[t] < iterations)
  <2>1. /\ BarrierThen(t, Dest(t)) /\ Dest(t) = "expStop"
        /\ UNCHANGED <<iterations, seconds, e, i>>
    BY <1>1, <1>3 DEF ExpBench, Dest, Between
  <2>2. Timing' /\ ~At(0, "record")'
    BY <1>1, <2>1, BarrierTiming
  <2> QED
    BY <1>1, <2>1, <2>2, Booleans DEF B!bvars, Closed
<1> QED
  BY <1>2, <1>3

LEMMA CloseStep ==
  ASSUME IInv, IInv', NEW t \in Threads, ExpStop(t)
  PROVE  B!Close \/ UNCHANGED B!bvars
<1>1. /\ t \in Running /\ pc[t] = "expStop" /\ 0 \in Threads
      /\ BarrierThen(t, "record") /\ Dest(t) = "record"
      /\ UNCHANGED <<iterations, seconds, e, i>>
  BY ZeroThread DEF ExpStop, At, Running, Dest, Between
<1>2. Timing /\ ~At(0, "record")
  <2>1. \A u \in Running : pc[u] # "record"
    BY <1>1 DEF IInv, BarrierInv, Section, Between
  <2> QED
    BY <1>1, <2>1, TimingNow DEF At, Running
<1>3. CASE t \in blocked' /\ (Timing' <=> Timing) /\ (At(0, "record")' <=> At(0, "record") /\ t # 0)
  BY <1>1, <1>2, <1>3, Booleans DEF B!bvars, Closed
<1>4. CASE /\ blocked' = {}
           /\ \A u \in Threads : pc'[u] = Dest(t)
           /\ \A u \in Threads \ {t} : u \in blocked
           /\ Timing' <=> Dest(t) \in {"expBench", "expStop"}
           /\ At(0, "record")' <=> Dest(t) = "record"
  <2>1. ~Timing' /\ At(0, "record")'
    BY <1>1, <1>4
  <2>2. \A u \in Threads : pc[u] \in {"expStop", "record"}
    BY <1>1, <1>4 DEF IInv, BarrierInv
  <2>3. \A u \in Threads : i[u] = iterations
    BY <2>2 DEF IInv, WorkInv
  <2> QED
    BY <1>1, <1>2, <2>1, <2>3, Booleans DEF B!Close, B!NoCalls, Closed
<1> QED
  BY <1>1, <1>3, <1>4, BarrierTiming

LEMMA SampleStep ==
  ASSUME IInv, IInv', NEW t \in Threads, Record(t)
  PROVE  B!Sample \/ UNCHANGED B!bvars
<1> DEFINE to == IF e[t] + 1 < Experiments THEN "expStart" ELSE "free"
<1>1. /\ t \in Running /\ pc[t] = "record" /\ t \in Threads /\ 0 \in Threads
      /\ BarrierThen(t, Dest(t)) /\ Dest(t) = to
      /\ e' = [e EXCEPT ![t] = e[t] + 1] /\ e \in [Threads -> 0 .. Experiments]
      /\ UNCHANGED <<iterations, i>>
  BY ZeroThread DEF IInv, TypeOK, Record, At, Running, Dest, Between
<1>2. ~Timing
  BY <1>1, TimingNow
<1>3. ~Timing' /\ (At(0, "record")' <=> t # 0 /\ t \in blocked' /\ At(0, "record"))
  BY <1>1, <1>2, BarrierTiming
<1>4. CASE t = 0
  <2>1. At(0, "record") /\ ~At(0, "record")'
    BY <1>1, <1>3, <1>4 DEF At, Running
  <2>2. \/ \E d \in {x \in Deltas : 0 < x} : seconds' = Append(seconds, d)
        \/ UNCHANGED seconds
    BY <1>4 DEF Record
  <2> QED
    BY <1>1, <1>2, <1>3, <1>4, <2>1, <2>2, Booleans DEF B!Sample, Closed
<1>5. CASE t # 0
  <2>1. At(0, "record")' <=> At(0, "record")
    <3>1. CASE blocked' = {}
      <4>1. 0 \in blocked
        BY <1>1, <1>5, <3>1, BarrierTiming
      <4> QED
        BY <1>3, <3>1, <4>1 DEF At
    <3>2. CASE t \in blocked'
      BY <1>3, <1>5, <3>2
    <3> QED
      BY <1>1, <3>1, <3>2, BarrierTiming
  <2>2. UNCHANGED seconds /\ e'[0] = e[0]
    BY <1>1, <1>5 DEF Record
  <2> QED
    BY <1>1, <1>2, <1>3, <2>1, <2>2, Booleans DEF B!bvars, Closed
<1> QED
  BY <1>4, <1>5

LEMMA InitMeasures == Init => B!BInit
<1> SUFFICES ASSUME Init PROVE B!BInit
  OBVIOUS
<1>1. 0 \in Threads /\ ~Timing /\ ~At(0, "record") /\ e[0] = 0
  BY DEF Init, BarrierInit, Timing, At, Threads
<1> QED
  BY <1>1 DEF Init, B!BInit, B!NoCalls, Closed

LEMMA NextMeasures ==
  ASSUME IInv, IInv', ScheduleInv, ScheduleInv', CounterHolds, [Next]_vars
  PROVE  [B!BNext]_B!bvars
<1>1. ASSUME NEW t \in Threads, Thread(t) PROVE B!BNext \/ UNCHANGED B!bvars
  <2>1. CASE PredictIterations(t) \/ ExpStart(t)
    BY <2>1, ScheduleStep, OpenStep DEF B!BNext
  <2>2. CASE ExpBench(t)
    BY <2>2, CallStep DEF B!BNext
  <2>3. CASE ExpStop(t) \/ Record(t)
    BY <2>3, CloseStep, SampleStep DEF B!BNext
  <2> QED
    BY <1>1, <2>1, <2>2, <2>3, QuietSteps DEF Thread
<1>2. CASE UNCHANGED vars
  BY <1>2 DEF vars, B!bvars, Timing, Closed, At
<1> QED
  BY <1>1, <1>2 DEF Next, Terminating

\* run() implements the abstract measurement, for every number of threads and
\* experiments, every timer and every calibration that ends in a schedule the
\* loop counter can hold (run.cpp:152-323).
THEOREM MeasuresCorrect == Spec /\ []CounterHolds => Measures
BY InitInvariant, NextInvariant, InitSchedule, NextSchedule, InitMeasures, NextMeasures, PTL
   DEF Spec, Measures, B!BSpec

-----------------------------------------------------------------------------
(* main() and its threads.                                                 *)

USE MainAssumption


\* A thread that is not there yet has not begun, so that whoever is there
\* waits for it at the first barrier, with nothing measured.
AbsentInv ==
  /\ \A t \in Threads \ entered : At(t, "decide")
  /\ entered # Threads => seconds = << >>

\* main() has seen the end of the threads it has joined.
JoinedInv ==
  \A t \in created :
    (mpc = "join" /\ t < next) \/ mpc \in {"print", "returned"}
      => pc[t] = "done"

MainInv ==
  MainTypeOK /\ IInv /\ AbsentInv /\ NobodyStartsEarly /\ JoinedInv

-----------------------------------------------------------------------------
(* Every step preserves the invariant.                                     *)

\* While a thread is absent, those that are there are before the first
\* barrier or held at it.
LEMMA Waiting ==
  ASSUME MainInv, entered # Threads
  PROVE  /\ elapsed = 0
         /\ \A t \in Threads :
              IF t \in blocked THEN pc[t] \in {"calStart", "expStart"}
                               ELSE pc[t] \in {"decide", "initIters", "test"}
<1>1. PICK u \in Threads \ entered : TRUE
  BY DEF MainInv, MainTypeOK
<1>2. u \in Running /\ pc[u] = "decide"
  BY DEF MainInv, AbsentInv, At, Running
<1>3. elapsed = 0
  BY <1>2 DEF MainInv, IInv, CalibrationInv
<1>4. Dest(u) \in {"calStart", "expStart"}
  BY <1>2, <1>3 DEF Dest, Between
<1>5. \A t \in blocked : pc[t] = Dest(u)
  BY <1>2 DEF MainInv, IInv, BarrierInv
<1>6. \A t \in Threads \ blocked : pc[t] \in {"decide", "initIters", "test"}
  BY DEF MainInv, NobodyStartsEarly
<1> QED
  BY <1>3, <1>4, <1>5, <1>6

LEMMA MainInitInvariant == MainInit => MainInv
<1> SUFFICES ASSUME MainInit PROVE MainInv
  OBVIOUS
<1>1. IInv
  BY InitInvariant DEF MainInit
<1>2. 0 \in Threads
  BY DEF Threads
<1>3. MainTypeOK /\ JoinedInv
  BY <1>2 DEF MainInit, MainTypeOK, JoinedInv
<1>4. AbsentInv /\ NobodyStartsEarly
  BY DEF MainInit, Init, BarrierInit, AbsentInv, NobodyStartsEarly, At
<1> QED
  BY <1>1, <1>3, <1>4 DEF MainInv

\* The loop counter stays a thread's number.
LEMMA AdvanceNext ==
  ASSUME NEW to, next \in Threads, Advance(to)
  PROVE  /\ next' \in Threads
         /\ \/ mpc' = mpc /\ next' = next + 1
            \/ mpc' = to /\ next' = 0 /\ \A t \in Threads : t <= next
BY DEF Advance, Threads

\* main()'s own steps leave run()'s state, and who has entered it, alone.
LEMMA MainAside ==
  ASSUME MainInv, UNCHANGED <<vars, entered>>
  PROVE  IInv' /\ AbsentInv' /\ NobodyStartsEarly'
<1>1. IInv'
  BY NextInvariant DEF MainInv
<1>2. AbsentInv' /\ NobodyStartsEarly'
  BY DEF MainInv, AbsentInv, NobodyStartsEarly, At, vars
<1> QED
  BY <1>1, <1>2

LEMMA CreateStep == ASSUME MainInv, Create PROVE MainInv'
<1>1. next \in Threads
  BY DEF MainInv, MainTypeOK
<1>2. /\ next' \in Threads
      /\ mpc' = "create" \/ (mpc' = "join" /\ next' = 0)
  BY <1>1, AdvanceNext DEF Create
<1>3. IInv' /\ AbsentInv' /\ NobodyStartsEarly'
  BY MainAside DEF Create
<1>4. MainTypeOK'
  BY <1>1, <1>2 DEF MainInv, MainTypeOK, Create
<1>5. JoinedInv'
  BY <1>2, <1>4 DEF JoinedInv, MainTypeOK, Threads
<1> QED
  BY <1>3, <1>4, <1>5 DEF MainInv

LEMMA JoinStep == ASSUME MainInv, Join PROVE MainInv'
<1>1. next \in Threads /\ mpc = "join" /\ pc[next] = "done"
  BY DEF MainInv, MainTypeOK, Join
<1>2. /\ next' \in Threads
      /\ \/ mpc' = mpc /\ next' = next + 1
         \/ mpc' = "print" /\ next' = 0 /\ \A t \in Threads : t <= next
  BY <1>1, AdvanceNext DEF Join
<1>3. IInv' /\ AbsentInv' /\ NobodyStartsEarly'
  BY MainAside DEF Join
<1>4. MainTypeOK'
  BY <1>1, <1>2 DEF MainInv, MainTypeOK, Join
<1>5. \A t \in created : t <= next => pc[t] = "done"
  BY <1>1 DEF MainInv, MainTypeOK, JoinedInv, Threads
<1>6. JoinedInv'
  BY <1>1, <1>2, <1>4, <1>5 DEF JoinedInv, MainTypeOK, Threads, Join, vars
<1> QED
  BY <1>3, <1>4, <1>6 DEF MainInv

\* A thread that was not created is none of those main() must have seen end.
LEMMA JoinGarbageStep == ASSUME MainInv, JoinGarbage PROVE MainInv'
<1>1. next \in Threads /\ mpc = "join" /\ next \notin created
  BY DEF MainInv, MainTypeOK, JoinGarbage
<1>2. /\ next' \in Threads
      /\ \/ mpc' = mpc /\ next' = next + 1
         \/ mpc' = "print" /\ next' = 0 /\ \A t \in Threads : t <= next
         \/ mpc' = "killed"
  BY <1>1, AdvanceNext DEF JoinGarbage
<1>3. IInv' /\ AbsentInv' /\ NobodyStartsEarly'
  BY MainAside DEF JoinGarbage
<1>4. MainTypeOK'
  BY <1>1, <1>2 DEF MainInv, MainTypeOK, JoinGarbage
<1>5. \A t \in created : t <= next => pc[t] = "done"
  BY <1>1 DEF MainInv, MainTypeOK, JoinedInv, Threads
<1>6. JoinedInv'
  BY <1>1, <1>2, <1>4, <1>5 DEF JoinedInv, MainTypeOK, Threads, JoinGarbage, vars
<1> QED
  BY <1>3, <1>4, <1>6 DEF MainInv

LEMMA ReportStep == ASSUME MainInv, Report PROVE MainInv'
<1>1. IInv' /\ AbsentInv' /\ NobodyStartsEarly'
  BY MainAside DEF Report
<1>2. MainTypeOK' /\ JoinedInv'
  BY DEF MainInv, MainTypeOK, JoinedInv, Report, vars
<1> QED
  BY <1>1, <1>2 DEF MainInv

LEMMA StartRoutineStep ==
  ASSUME MainInv, NEW t \in Threads, StartRoutine(t) PROVE MainInv'
<1>1. \/ mpc' = "killed" /\ UNCHANGED <<entered, mask>>
      \/ mpc' = mpc /\ entered' = entered \cup {t} /\ mask' = mask
  BY DEF MainInv, MainTypeOK, StartRoutine, SetAffinity, Handle, Tid
<1>2. IInv'
  BY NextInvariant DEF MainInv, StartRoutine
<1>3. MainTypeOK' /\ JoinedInv'
  BY <1>1 DEF MainInv, MainTypeOK, JoinedInv, StartRoutine, vars
<1>4. AbsentInv' /\ NobodyStartsEarly'
  BY <1>1 DEF MainInv, MainTypeOK, AbsentInv, NobodyStartsEarly, At,
     StartRoutine, vars
<1> QED
  BY <1>2, <1>3, <1>4 DEF MainInv

\* A step of run() changes nobody's place but its own.
LEMMA OwnStep ==
  ASSUME TypeOK, NEW t \in Threads, Thread(t)
  PROVE  /\ pc[t] # "done" /\ t \notin blocked
         /\ \A u \in Threads \ {t} : pc'[u] = pc[u]
BY DEF TypeOK, Thread, At, Goto, BarrierThen, Decide, InitIters, Test, CalStart,
   CalBench, CalStop, ShiftLoad, ShiftStore, PredictIterations, Begin, ExpStart,
   ExpBench, ExpStop, Record, Free

\* While a thread is absent, the others do nothing but get to the barrier,
\* which they do not pass.
LEMMA EarlyStep ==
  ASSUME MainInv, entered # Threads, NEW t \in entered, Thread(t)
  PROVE  /\ seconds' = seconds
         /\ blocked' = blocked \/ blocked' = blocked \cup {t}
         /\ t \notin blocked' => pc'[t] \in {"decide", "initIters", "test"}
<1>1. t \in Threads /\ blocked \subseteq Threads /\ t \notin blocked
      /\ pc \in [Threads -> Label]
  BY OwnStep DEF MainInv, MainTypeOK, IInv, TypeOK
<1>2. pc[t] \in {"decide", "initIters", "test"} /\ elapsed = 0
  BY <1>1, Waiting
<1>3. PICK u \in Threads \ entered : u \notin blocked /\ u # t
  BY DEF MainInv, MainTypeOK, AbsentInv, At
<1>4. ASSUME Barrier(t) PROVE blocked' = blocked \cup {t}
  BY <1>1, <1>3, <1>4, BarrierStep
<1>5. Decide(t) \/ InitIters(t) \/ Test(t)
  BY <1>2 DEF Thread, At, CalStart, CalBench, CalStop, ShiftLoad, ShiftStore,
     PredictIterations, Begin, ExpStart, ExpBench, ExpStop, Record, Free
<1>6. CASE Decide(t)
  BY <1>1, <1>4, <1>6 DEF Decide, BarrierThen, Goto
<1>7. CASE InitIters(t)
  BY <1>1, <1>7 DEF InitIters, Goto
<1>8. CASE Test(t)
  BY <1>1, <1>2, <1>4, <1>8 DEF Test, BarrierThen, Goto
<1> QED
  BY <1>5, <1>6, <1>7, <1>8

LEMMA RunThreadStep ==
  ASSUME MainInv, NEW t \in Threads, RunThread(t) PROVE MainInv'
<1>1. t \in entered /\ Thread(t) /\ UNCHANGED <<mpc, next, created, entered, mask>>
  BY DEF RunThread, mainVars
<1>2. IInv'
  BY <1>1, NextInvariant DEF MainInv, Next
<1>3. MainTypeOK'
  BY <1>1 DEF MainInv, MainTypeOK
<1>4. /\ pc[t] # "done"
      /\ \A u \in Threads \ {t} : pc'[u] = pc[u]
  BY <1>1, OwnStep DEF MainInv, IInv
<1>5. JoinedInv'
  BY <1>1, <1>4 DEF MainInv, MainTypeOK, JoinedInv
<1>6. AbsentInv' /\ NobodyStartsEarly'
  <2>1. CASE entered = Threads
    BY <1>1, <2>1 DEF AbsentInv, NobodyStartsEarly
  <2>2. CASE entered # Threads
    <3>1. /\ seconds' = seconds
          /\ blocked' = blocked \/ blocked' = blocked \cup {t}
          /\ t \notin blocked' => pc'[t] \in {"decide", "initIters", "test"}
      BY <1>1, <2>2, EarlyStep
    <3> QED
      BY <1>1, <1>4, <2>2, <3>1 DEF MainInv, AbsentInv, NobodyStartsEarly, At
  <2> QED
    BY <2>1, <2>2
<1> QED
  BY <1>2, <1>3, <1>5, <1>6 DEF MainInv

LEMMA MainNextInvariant == MainInv /\ [MainNext]_allVars => MainInv'
<1> SUFFICES ASSUME MainInv, [MainNext]_allVars PROVE MainInv'
  OBVIOUS
<1>1. ASSUME UNCHANGED allVars PROVE MainInv'
  <2>1. UNCHANGED <<vars, entered>>
    BY <1>1 DEF allVars, vars
  <2>2. MainTypeOK' /\ JoinedInv'
    BY <1>1 DEF MainInv, MainTypeOK, JoinedInv, allVars
  <2> QED
    BY <2>1, <2>2, MainAside DEF MainInv
<1> QED
  BY <1>1, CreateStep, JoinStep, JoinGarbageStep, ReportStep, StartRoutineStep,
     RunThreadStep DEF MainNext, Over

-----------------------------------------------------------------------------
(* The theorems.                                                           *)

\* The invariant holds whenever main() and the threads run (main.cpp:51-94).
THEOREM MainInvariance == MainSpec => []MainInv
BY MainInitInvariant, MainNextInvariant, PTL DEF MainSpec

\* Types of main()'s own state: its loop counter never leaves the array of
\* threads (main.cpp:76-89).
THEOREM MainTypeCorrect == MainSpec => []MainTypeOK
<1>1. MainInv => MainTypeOK
  BY DEF MainInv
<1> QED
  BY <1>1, MainInvariance, PTL

\* No call is timed before the last thread is there (main.cpp:79-82).
THEOREM NobodyEarly == MainSpec => []NobodyStartsEarly
<1>1. MainInv => NobodyStartsEarly
  BY DEF MainInv
<1> QED
  BY <1>1, MainInvariance, PTL

\* The samples keep matching the experiments while main() creates and joins
\* (main.cpp:76-89 around run.cpp:309-323).
THEOREM MainSamples == MainSpec => []SamplesMatch
<1>1. ASSUME IInv PROVE SamplesMatch
  <2>1. 0 \in Threads
    BY DEF Threads
  <2> QED
    BY <1>1, <2>1 DEF IInv, SampleInv, ExperimentInv, SamplesMatch
<1>2. MainInv => SamplesMatch
  BY <1>1 DEF MainInv
<1> QED
  BY <1>2, MainInvariance, PTL

\* What main() prints is the complete result, or that of no thread at all
\* (main.cpp:85-92).
LEMMA PrintedIsFinal == ASSUME MainInv PROVE PrintsFinal
<1> SUFFICES ASSUME mpc \in {"print", "returned"}
             PROVE  /\ \A t \in created : pc[t] = "done"
                    /\ IF created = {} THEN seconds = << >>
                                       ELSE created = Threads /\ SamplesMatch
  BY DEF PrintsFinal
<1>1. \A t \in created : pc[t] = "done"
  BY DEF MainInv, JoinedInv
<1>2. entered \subseteq created /\ created \subseteq Threads
  BY DEF MainInv, MainTypeOK
<1>3. ASSUME entered # Threads PROVE created = {} /\ seconds = << >>
  <2>1. \A t \in Threads : pc[t] # "done"
    BY <1>3, Waiting
  <2> QED
    BY <1>1, <1>2, <1>3, <2>1 DEF MainInv, AbsentInv
<1>4. CASE entered = Threads
  <2>1. 0 \in Threads
    BY DEF Threads
  <2>2. SamplesMatch
    BY <2>1 DEF MainInv, IInv, SampleInv, ExperimentInv, SamplesMatch
  <2> QED
    BY <1>1, <1>2, <1>4, <2>1, <2>2
<1>5. CASE entered # Threads
  BY <1>1, <1>3, <1>5
<1> QED
  BY <1>4, <1>5

\* At the time main() prints, no thread it created is still in run()
\* (main.cpp:85-92).
THEOREM PrintedFinal == MainSpec => []PrintsFinal
<1>1. MainInv => PrintsFinal
  BY PrintedIsFinal
<1> QED
  BY <1>1, MainInvariance, PTL
=============================================================================
