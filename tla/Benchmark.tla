------------------------------ MODULE Benchmark ------------------------------
(***************************************************************************)
(* What a measurement promises, whatever the threads do to keep it: the    *)
(* timed interval of an experiment holds exactly `scheduled' calls of the  *)
(* benchmark by every thread, an interval is open or closed for everybody  *)
(* at once, and every interval yields at most one sample.                  *)
(*                                                                         *)
(* An abstract specification, implemented by Run (src/run.cpp).            *)
(***************************************************************************)
EXTENDS Integers, Sequences

CONSTANTS
  Callers,     \* the benchmark threads
  Intervals,   \* number of experiments
  Samples      \* what the timer can measure of an interval

VARIABLES
  scheduled,   \* calls of every thread per interval; 0 when not yet known
  timing,      \* an interval is open
  calls,       \* calls of each thread in the open interval
  closed,      \* number of intervals closed so far
  pending,     \* the last interval closed has not been recorded yet
  samples      \* the measurements

bvars == <<scheduled, timing, calls, closed, pending, samples>>

NoCalls == [c \in Callers |-> 0]

BInit ==
  /\ scheduled \in Nat
  /\ timing = FALSE
  /\ calls = NoCalls
  /\ closed = 0
  /\ pending = FALSE
  /\ samples = << >>

\* The length of the experiments is chosen once, and is not empty.
Schedule ==
  /\ scheduled = 0
  /\ ~timing /\ closed = 0
  /\ scheduled' \in Nat \ {0}
  /\ UNCHANGED <<timing, calls, closed, pending, samples>>

Open ==
  /\ scheduled # 0
  /\ ~timing /\ ~pending
  /\ closed < Intervals
  /\ timing' = TRUE
  /\ UNCHANGED <<scheduled, calls, closed, pending, samples>>

Call(c) ==
  /\ timing
  /\ calls[c] < scheduled
  /\ calls' = [calls EXCEPT ![c] = @ + 1]
  /\ UNCHANGED <<scheduled, timing, closed, pending, samples>>

\* Only after the last call of the last thread.
Close ==
  /\ timing
  /\ \A c \in Callers : calls[c] = scheduled
  /\ timing' = FALSE
  /\ calls' = NoCalls
  /\ closed' = closed + 1
  /\ pending' = TRUE
  /\ UNCHANGED <<scheduled, samples>>

\* An interval is recorded once, before the next is opened; one the timer saw
\* no time pass in leaves no sample.
Sample ==
  /\ pending
  /\ pending' = FALSE
  /\ \/ \E d \in Samples : samples' = Append(samples, d)
     \/ UNCHANGED samples
  /\ UNCHANGED <<scheduled, timing, calls, closed>>

BNext == Schedule \/ Open \/ (\E c \in Callers : Call(c)) \/ Close \/ Sample

BSpec == BInit /\ [][BNext]_bvars
=============================================================================
