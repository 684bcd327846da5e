# TLA+ models of pChase

pChase measures the latency and bandwidth of memory: a number of threads follow
chains of pointers through blocks of memory, in lockstep, while thread 0 reads
the clock. These modules model what decides whether its numbers mean anything:
the synchronisation of the threads, the calibration of the experiments, the
random numbers the chains are made from, the chains themselves, the code that is
generated to walk them and the memory it is put in, and the options that shape
all of it. Source paths are relative to the repository
(`run.cpp` is `src/run.cpp`).

## The system

`main` (main.cpp:67-100) calibrates the timer, parses the options into an
`Experiment`, makes a `SpinBarrier` for its number of threads and an array of
`Run`s, starts them, joins them and prints the samples. Each `Run` is a
`Thread`.

| Component | State | Operations | Interaction |
|---|---|---|---|
| `SpinBarrier` (spinbarrier.cpp) | a pthread barrier, `limit` | `barrier` | called by every thread, 5 calls in a round of calibration and after it, 4 in an experiment, 1 at the end |
| `Run` (run.cpp:72-335) | statics `iters`, `elapsed` (one copy for all threads), `exp->iterations`, `_seconds`; locals `i`, `e` | calibrate, predict, run experiments, record | shares the statics and the `Experiment` with all threads; ordered by the barrier only |
| Chain initialisation (run.cpp:381-516) | the memory of the thread's chains, `_ops_per_chain` | `random_mem_init`, `forward_mem_init`, `reverse_mem_init` | `random()` and `_ops_per_chain` are shared, under `Run::global_mutex` |
| Generated benchmark (run.cpp:518-618) | registers `heads`, `positions` | one call walks the chains | reads the thread's own memory |
| `Experiment` (experiment.cpp) | the options, the geometry, `thread_domain`, `chain_domain`, `random_state` | `parse_args`, `alloc_*` | written before the threads start, except `iterations` |
| `Thread` (thread.cpp) | `count`, `id` | construct, `start`, `start_routine` (affinity), `wait` | pthreads |
| `Lock` (lock.cpp) | a pthread mutex | `lock`, `unlock` | `Run::global_mutex`, `Thread::_global_lock` |
| `Timer` (timer.cpp) | calibration factor | `calibrate`, `seconds`, `resolution` | read by every thread |
| `main` (main.cpp) | the array of `Run`s | create, join, print | the only caller of `start` and `wait` |
| `Output` (output.cpp) | - | `print` | after the threads have ended |
| AsmJit compiler (CompilerX86X64.cpp) | variables, registers, slots of one function | `make` | one object per thread, used by `chase_pointers` |
| AsmJit memory manager (MemoryManager.cpp) | list and tree of chunks, bit arrays, caches | `alloc`, `shrink`, `free`, `freeAll` | one for the process, under its own lock; called when a function is generated |
| AsmJit assembler (AssemblerX86X64.cpp, Util.cpp) | a buffer, labels, an error | encode an instruction, `bind` a label | fed by the compiler, one emittable after the other |

`lib/perf` is not built (CMakeLists.txt:57). `NUMA` is never defined, so the
NUMA branches are not compiled and there is one domain. `PERF_TEST` is 0.
`CMAKE_BUILD_TYPE` is `Debug` (CMakeLists.txt:6): code is not optimised, and a
signed overflow wraps.

### What is hard here

* The threads share plain memory: `elapsed` and `iterations` are written by
  thread 0 and read by all, without locks; `iters` is shifted by every thread.
  Only the position of the barriers says who may read what when.
* All threads must take every exit of every loop together: a thread that went
  through one barrier more or less than the others would hang the program, or
  be timed in the wrong interval.
* `random()` has one active state in the process; the reproducibility of a
  thread's chains rests on `setstate` and two draws being one critical section.
* The arithmetic of the calibration has limits (an `int` that counts to an
  `int64`, a bit that is shifted out) and boundaries (no time passed, a
  prediction below 1).
* A chain is a ring that has to touch every line of every page, page by page,
  for any geometry, interval and stride.
* A thread that cannot be created is neither reported nor left out: the others
  wait at a barrier for it.
* The memory manager finds a block again by an address in a red-black tree that
  is rebuilt on the way down, and two bit arrays; its removal may drop another
  struct than the one it was given. Two caches decide where it looks.
* The register allocator works on an offset that advances when it inserts code,
  and puts back at a jump what it had at the label.
* The assembler makes room before an instruction and never looks behind it, and the
  form of a jump depends on how far it goes.

`PROJECT.json` lists each hazard at its line with the properties that would
catch it going wrong.

What makes each component correct:

* barrier: releases nobody before the last has come, and everybody then;
* run: lockstep; no race on what thread 0 publishes; nobody changes the size of
  a round while it is being counted; the clock covers exactly the calls asked
  for; the schedule fills the requested time; one sample per experiment;
  all threads return;
* random numbers: each thread gets its own stream, whole and in order;
* chains: no link leaves the block or is left unwritten; a call ends, touches
  every selected line once, and finishes a page before it begins the next;
* experiment: what is accepted is consistent and is what the threads need;
* main: what is printed is final and complete, or nothing is printed;
* memory manager: nobody's block is touched by another caller, each block is
  found again, nothing is lost or counted wrongly;
* compiler: the function reads what the program last wrote, returns its caller's
  registers, and does not put accesses of its own among those that are measured;
* assembler: no byte lands behind the buffer, and a jump leads to its label.

## The modules

| Module | Models | Variables -> code |
|---|---|---|
| `SpinBarrier` | spinbarrier.cpp | `blocked`: threads inside `pthread_barrier_wait` |
| `Run` | run.cpp:72-335 | `pc` per thread; `iters`, `elapsed` the statics; `iterations` = `exp->iterations`; `seconds` = `_seconds`; `tmp` the register between the load and the store of `iters << 1`; `i`, `e` the counters |
| `Benchmark` | what a measurement promises (abstract) | implemented by `Run` under the mapping in `RunProperties` |
| `RunProperties`, `RunInvariant`, `RunProofs` | properties of `Run`; its inductive invariants, of the protocol and of the growth of the calibration; their proofs, that `Run` implements `Benchmark`, and the proofs of `Main` | |
| `RandomState` | the sessions of run.cpp:394-437 | `owner` the mutex; `active` the state `random()` uses; `position` of each state; `drawn` the numbers received, each as the pair of its state and index |
| `RandomStateProofs` | proofs of `RandomState` | |
| `ChainInit` | run.cpp:110-133, 381-516 | `memory`, `root`, `prev` and the counters of the loops; random numbers are any numbers |
| `Chase` | the function of run.cpp:540-605 on those chains | `positions` registers; `walked`, `steps` history |
| `ChaseInvariant`, `ChaseProofs` | inductive invariant and proofs of `ChainInit` and `Chase` | |
| `Experiment` | experiment.cpp:100-511, 568-699, main.cpp:71-74 | `exp` the fields; `tables` the sizes of the tables for the threads |
| `ExperimentProofs` | proofs of `Experiment` | |
| `Main` | main.cpp:67-100, thread.cpp:36-129, over `Run` | `mpc`, `next` the program counter and loop counter of main; `created`, `entered` how far a thread is on its way into `run`; `mask` the kernel's affinity masks |
| `RbTree` | MemoryManager.cpp:820-1047, the tree, as operators on a heap of structs | |
| `ChunkTree` | insertions and removals in any order | `tree`; `chunks` what is linked |
| `Chunk` | the blocks and bit arrays of one chunk: MemoryManager.cpp:97-124, 386-430, 518-662 | operators on a record, the chunk's data |
| `Allocator` | what an allocator promises (abstract): nobody's block is touched by another | `block` of each caller; implemented by `ChunkAllocator` |
| `ChunkAllocator` | an allocator that cuts blocks from chunks and knows them by their bits (abstract) | `chunk` by address; implemented by `MemoryManager` |
| `AllocatorProofs` | proofs of `Allocator`, `Chunk` and `ChunkAllocator` | |
| `MemoryManager` | MemoryManager.cpp:97-787, CodeGenerator.cpp | `tree`, `list`, `optimal`, `permanent`, `used`, `allocated` as in the code; `code` what callers hold |
| `RegisterAllocator` | the operations of `CompilerContext` in CompilerX86X64.cpp | operators on a record, the context |
| `Compiler` | the program of run.cpp:518-618, and `Compiler::make` | `cc` the context; `place` the emittable; `target` the state at the label |
| `Assembler` | the encoding of that program: AssemblerX86X64.cpp and the `Buffer` of Util.cpp | `buffer` its capacity and offset; `starts` where each emittable begins; `label` = `LabelData::offset`; `displacement` the operand of the jump |
| `GeneratedCode` | the function that comes out, run | `pc`; `holds` whose present value a register has; `fresh` the slots that are up to date |
| `CodeInvariant`, `CodeProofs`, `ScopeProofs`, `ReadProofs` | inductive invariants and proofs of `GeneratedCode`, and of the three modules it extends: of the allocator's context and the code, of what is spilled, and of what the code reads | |
| `MC*` | instances for TLC | |

In `Run` a step is one access to shared memory, or a stretch of code that
touches none, up to and including the call of the barrier: the program counter
moves past the call, and the thread is held while it is in `blocked`. The
assignment to `elapsed` or `iterations` and the barrier after it are one step of
thread 0, which is sound because the properties on races look at what a thread
is *about* to access. Every thread of `Run` starts at `decide`, where its own
chains and code are complete; how they come about is in `RandomState`, `ChainInit`
and `Chase`. These three are connected by what they leave to each other:
`RandomState` says which random numbers a thread gets, `ChainInit` works for any;
the shapes of `ChainInit`, and the constants of `Run` and `RandomState`, are
what `FitToRun` in `Experiment` says of an accepted command line, with one exception
that it spells out: a `-l` shorter than a pointer is accepted and gives
`links_per_line = 0` (experiment.cpp:465), while `ChainInit` and `Chase` assume a link
in each line. What they show is of command lines whose lines hold a pointer.

`Main` composes the threads of `Run` with their creation: a thread takes its
steps of `Run` only once it has been created and has passed through
`start_routine`. Its properties speak of both, and those of `Run` hold in it
unchanged (`MainSamples`). `MemoryManager` and `ChunkTree` share `RbTree`: the
first has everything a call does, with as many chunks as fit a run; the second
has only the tree, with enough chunks for every rotation. Between `MemoryManager` and
`Allocator` stands `ChunkAllocator`. It has the same operators for a chunk's bits
(`Chunk`), but may use any chunk with room and any place in it, and finds a chunk by
its address without a tree; the tree, the list and the caches only decide which
chunk it is. TLC checks the upper half of the way, from the manager to the chunks,
and the lower half, from the chunks to the promise, is proved. A method of the memory
manager is one action because it holds the manager's lock from its first look at
the state to its last. `freeAll` alone takes no lock (MemoryManager.cpp:765); it is one
action on the assumption that nobody else is in the manager then, and pChase
never calls it. `GeneratedCode` extends `Assembler`, which
extends `Compiler`: a behaviour prepares, translates and encodes a function, one
emittable per step (`phase` says which of these it is at), then calls it any number
of times. A jump goes where its displacement leads, not to the label by name. Of
an encoding only the length is modelled, which is what decides about labels, forms
of the jump and the buffer. The sizes of the code and the displacements are those of
the real library for each of the 115 functions with 1 to 22 chains, with and
without prefetching and with 0, 1, 33 and 34 instructions of padding that it compiles. What a
register holds is abstracted to the variable whose present value it is; `Chase`
says what the values are.

Time in `Run` is counted in calls of the benchmark. A calibration round lasts
its calls and up to some `Noise`; what the timer says of an experiment is any of
`Deltas`, zero included. `Bound` stands for `max(0.2, 10 * resolution)`: each
thread measures the resolution for itself, but the maximum is 0.2 s for
all of them unless ten measurements in a row exceed 20 ms, and the model gives
them one bound. The factor 0.9999 of the prediction is modelled as rounding up.

## The runs

| Run | Module / cfg | Shows |
|---|---|---|
| `calibrated` | MCRun / MCRunCalibrated | three threads, two experiments: races, lockstep, timing, growth of the rounds, samples, bounds of the schedule, refinement of `Benchmark`, termination |
| `main` | MCMain / MCMain | four threads of which any may not be created, `-i`, two experiments: what is printed is final; nobody starts before all are there; main returns if all were created |
| `many_threads` | MCRun / MCRunManyThreads | finding: two threads already disturb the prediction |
| `random_state` | MCRandomState | all interleavings of three threads' draws: each has its own stream, the count of operations agrees, all finish |
| `chase` | MCChase | all patterns, strides and draws on small geometries |
| `irregular_chain` | MCChase / MCChaseIrregular | finding: a number of pages that a prime of the table divides |
| `two_chains` | MCChase / MCChaseTwoChains | finding: only the first chain is walked |
| `experiment` | MCExperiment | all sequences of four options |
| `memory` | MCMemoryManager | three callers allocate, shrink and free; refinement of `ChunkAllocator` |
| `chunk_tree` | MCChunkTree | all insertions and removals of six chunks |
| `compiler` | MCGeneratedCode | functions for 1 to 22 chains, compiled, encoded and called |
| `used_operand_spilled` | MCGeneratedCode / MCGeneratedCodeUsed | finding: one operand of an instruction is spilled for the other |

### Bounds, and why they suffice

* *Calibrated.* Three threads give every order of the shifts (from one shift that all
  three make in step to three in a row) and let one thread be ahead of a second
  and behind a third. `Noise = {0, 2}` with `Bound = 2` lets the calibration end
  after one, two or three rounds. Two experiments are needed for anything that
  carries over. `Deltas = {0, 3}` is an experiment without and with measured time.
  The scaled widths `IntMax` and `LongHalf` are out of reach in this instance.
* *Main.* Four threads: one missing, several missing, none created, and some of them
  running while others are yet to come. `Allowed` has two CPUs, so that the
  remainder of the ids wraps.
* *Random state.* Two chains of two pages are the first of each and one more, so
  that a session follows a session of the same and of another thread.
* *Chase.* The primes 5, 11 and 13 differ in their remainders modulo every size used;
  sizes include 1, powers of two, 3, and 5, which a prime of the table
  divides; strides reach from -9 to 9 on chains of 1 to 12 lines, so they
  divide the chain, do not, and exceed it. Turns are counted up to one more
  than a chain has links (`CountedTurns`).
* *Experiment.* Four options let a field be set, its rival be set, and both again.
  Values include zero, exact and inexact multiples, and a line of half a pointer. `MaxOptions` is the only bound.
* *Memory.* A chunk has three blocks and a word of the bit arrays two bits, so that a
  block can lie in one word, cross into the next and fill a chunk; the sizes 33,
  128 and 200 are one block, two blocks, and more than a usual chunk has, and one
  shrinks to another. A single block in the middle of a chunk makes it useless
  for two, so three callers get to three chunks, which is what `optimal` and the
  removal from the middle of the list need. Permanent allocations of 129 bytes
  are larger than a permanent chunk and not aligned. There are three addresses
  to map memory at, and mapping may fail at any time (`AllocFails`).
* *Chunk tree.* Six structs at seven addresses reach all single and double rotations and
  all cases of the removal; chunks touch or leave a gap.
* *Compiler.* There are 14 usable registers and a program needs one more variable than
  chains at a time. The counts are far below, one below, at and above this limit, and around the
  21 chains from which the slots no longer fit below the stack
  pointer. Loop lengths 0, 33 and 34 are without and with padding: with 13 chains and
  prefetching, 33 instructions of it make a jump of -128, the longest of the short
  form, and 34 one of -129, in the long form. `FirstCapacity`, `MostDoubled` and
  `GrowThreshold` are 64, 128 and 32 (1024, 65536 and 32 in the code), so that the
  buffer is made, doubled and extended by the fixed step. That there is memory
  for it is assumed.

States where the program has ended have an explicit stuttering step, so deadlock
is checked, except in `main`, where the program does stop when a thread could
not be created (main() then waits in `join` for threads that wait at the barrier), and in the two runs of
`MCGeneratedCode`, where compilation may fail.

### Fairness

`FairSpec` assumes weak fairness of each thread of `Run` and of `RandomState`:
the operating system keeps scheduling every runnable thread. Nothing is assumed
of the order, nor that the mutex is fair: a thread has a bounded number of
sessions, so those in front of it come to an end. A call takes time: `elapsed`
is at least the calls of the round, which is what ends the calibration. `MainSpec`
assumes weak fairness of main's own steps and of each thread's, for the same
reason. It does not assume that threads can be created: `MainReturns` promises a
return only if all were.
`Chase` is sequential and just keeps running.

### Findings

1. `many_threads` - the file TODO and the comment at run.cpp:143-148 complain that
   the prediction is wrong with many threads. The cause is run.cpp:157: each
   thread executes `iters = iters << 1` on the same static, so a round grows by
   any power of two from 2 to 2^threads, while the factor 0.5 at run.cpp:202
   undoes a single shift. `ScheduleBounds` says how far off the
   schedule can be: never too short, and too long by at most 2^(threads-1).
2. `irregular_chain` - pages and lines are visited at prime intervals, which visit all
   of them only if the prime does not divide their number. `Coverage` shows that
   the chain is complete for all others, powers of two among them.
3. `two_chains` - all heads are loaded from the first root (run.cpp:551) and all
   positions start at the first head (run.cpp:560).
4. `used_operand_spilled` - the comment at CompilerX86X64.cpp:1800-1802 says that the
   operands of an instruction are marked as in use so that none is spilled for
   another; the loop at line 1805 marks the first one as often as there are
   operands, and the mark is an offset that a spill advances. With `-r 14` the
   compiler spills one operand of the final comparison to make room for the
   other, the assembler refuses the instruction, and there is no function to
   call. The real library agrees with the model: up to 13 chains compile without
   a spill; without padding and prefetching 14 and 15 fail and from 16
   on functions with spills come out; with either, all from 14 on fail.

Observed in the models, without a run of their own (`PROJECT.json` has most of
them among the hazards):

* with 64 threads or more the shifts can clear `iters`, and the calibration then
  never ends (`LongHalf = 4` with three threads shows it in `Run`);
* `int i` is compared with an `int64` (run.cpp:230): beyond 2^31 - 1 iterations
  an experiment never ends (`Iterations0` above `IntMax` shows it);
* `return 0` after the usage means success to main (experiment.cpp:450), so `-h`
  goes on to run on tables that were never allocated;
* a line shorter than a pointer is accepted and has no links (experiment.cpp:465; the
  second case of `FitToRun`), so that the chain's memory holds none of the pointers
  that are then written to it (run.cpp:105, 417-428);
* `sched_setaffinity` gets a `pthread_t` for a thread id (thread.cpp:113), so no
  thread is ever pinned, although thread.cpp:104-105 says it is;
* `largestBlock` of a chunk can be stale (MemoryManager.cpp:548, 758), so that a
  chunk with room is passed over: memory is wasted, nothing is broken;
* main.cpp:46-52 says the last pointer is NULL, but it points to the first link
  (run.cpp:432); `-g` tests the wrong field (experiment.cpp:235); `-x` is parsed
  and never consulted (the usage text admits that strict is not fully
  implemented); a map that lists fewer chains for a later thread leaves entries
  of the tables unset (experiment.cpp:598).

## Proofs

tlapm checks, for every value of the constants that satisfies the named assumptions
(`NumThreadsAssumption`, `RunAssumption`, `RandomStateAssumption`, `ChainInitAssumption`: the ranges
that `FitToRun` states for an accepted command line whose lines hold a pointer; `MainAssumption`,
`ExperimentAssumption`: the ranges of CPUs and of the values of options;
`CompilerAssumption`: at least one chain; `BufferAssumption`: the room that the assembler
makes holds an instruction, of 15 bytes at most, and a new buffer holds more):

* `RunProofs`: `IInv` is invariant, and from it `TypeOK`, `Lockstep`,
  `PublishedRaceFree`, `RoundStable`, `TimedWork`, `SamplesMatch` and
  `SameExperiment`, for any number of threads and experiments, any timer, and the
  wrapping arithmetic. Also `RoundGrowth`, under `NoRoundLost` (no doubling that
  leads into another round shifts the bit of `iters` out), and
  `ScheduleBounds`, under `NoShiftLost` (nor does one after the last round) and for a
  calibration that is given a time (`0 < Seconds`; `OneModeCorrect` is why one always is).
  Last, `Measures`, that `Run` implements `Benchmark`, under the one condition
  that the schedule stays within `IntMax` (`CounterHolds`): beyond it the loop counter
  wraps and the calls of an interval are no longer those scheduled.
  And about main(): `MainTypeOK`, `NobodyStartsEarly`, `PrintsFinal`, and
  `SamplesMatch` once more for the threads as main creates them, whichever of them
  could be created.
* `RandomStateProofs`: `TypeOK`, `MutualExclusion`, `OwnStream`, `DrawsPerChain`,
  and `OpsAgree`.
* `ExperimentProofs`: `TypeOK`, `OneMode`, `TablesFit`, `SizesAgree`, `FitToRun` and
  `RoundsUp`, for any number of options and any values.
* `ChaseProofs`: `NoWildPointer`, `Coverage` and `PageByPage`, for every number of chains, pages, lines and links, every
  prime of the table and offset, and every stride, those included that leave lines out.
* `CodeProofs`: `RegistersAgree`, `CodeInPlace` and `CallerKeeps`, for every number of chains and
  every length of the loop.
* `ScopeProofs`: `NothingSpilled` and `SlotsSafe`, for every number of chains and every length of
  the loop.
* `ReadProofs`: `ReadsPresent`, for every number of chains, every length of the loop and every
  number of its turns.
* `AllocatorProofs`: `Disjoint` of the abstract allocator; and of the chunks, which
  `MemoryManager` is checked to implement, `BlocksFound`, `BlocksOwned`, `Disjoint`
  and the refinement of `Allocator` (`ChunksImplement`), for every number of callers
  and chunks and every size of a block, a word of the bit arrays and a chunk.

The types of the modules with proofs, `IInv`, `MutualExclusion` and `DrawsPerChain`
are proved and not repeated in a run.

*The invariant of `Run`.* None of the properties is inductive: `Lockstep` says that
threads are in one section, but nothing about where those that are held will
wake up. `BarrierInv` adds this: the threads held at the barrier are exactly where the
next call of the barrier will lead the running ones (`Dest`). When the last thread arrives
all are then at one label and a new section begins; `LastArrival` shows that
counting arrivals is the same as knowing that all others are held. `Dest`
depends on shared values (`elapsed`, `Iterations0`, `e`), so `CalibrationInv` and
`ExperimentInv` say that these agree for everybody who will test them. `WorkInv`
carries the counts of calls from the loop to the stop of the timer. Each action
has its lemma; the two lemmas `Arrive` and `Move` do the barrier part for all of them.

*The refinement of `Benchmark`.* `ScheduleInv` adds to `IInv` what the mapping needs: the
schedule is made once, by thread 0 and before the first experiment, it is not empty
when an experiment begins, and a thread held in front of its calls has made none.
An interval is opened by the last thread to arrive after the start of the timer and
closed by the last after its end (`BarrierTiming`); `WorkInv` says that all have then
made their calls.

*The growth of the calibration.* `NoRoundLost` and `NoShiftLost` are conditions on the
constants alone. With a bound of 0.2 seconds and a call of a few nanoseconds they hold in 64
bits for about 30 and 17 threads; both instances that TLC checks satisfy them, and
the hazard at run.cpp:157 is what lies beyond. `GrowthInv`, on top of `IInv`, follows
`iters` from one round to the next. Between two rounds every thread still has in `i` the calls of
the last one, which nothing else remembers while `iters` is being doubled. `ShiftInv`
measures `iters`, and what a thread has loaded of it and not yet stored, against
that number: at least twice as much as soon as one thread has stored, whoever
loaded what before; at most one doubling for each that has stored, `2 ^ Cardinality(Stored)`
times. Since a round is only followed by another when the timer showed no more than `Bound`,
the next one makes at most `Top` calls (`RoundInv`). The provers know nothing of powers:
`PowerOfTwo` and its neighbours derive `2 ^ (n + 1) = 2 * 2 ^ n` from the number
of subsets of a set.

*The invariant of `RandomState`.* A thread between `setstate` and its second draw holds
the mutex and its state is the active one (`ActiveInv`); hence nobody else advances its
position (`PositionInv`), and the number of draws follows the program counter
(`DrawsInv`).

*The invariant of `Main`.* `MainInv` is `MainTypeOK` and `IInv` with three more parts.
A step of `RunThread` is a step of `Run`, and all others leave its variables
alone, so that `IInv` carries over. `AbsentInv`: a thread that has not entered
`run` is where `Run` starts it, and no sample is recorded until all have entered.
`NobodyStartsEarly`, the property itself, is the part that makes it inductive:
while a thread is absent the others are in front of the first barrier or held
at it, because `IInv` lets the last arrival happen only when all others
are held, and the absent one is not. `JoinedInv`: those
that main has joined are done; hence, when it prints, either all threads were
there and their samples are complete, or none was.

*The invariant of `Experiment`.* `EInv` is `ExpType`, what the parser accepts
(`Accepted`), how the geometry follows from the fields (`LaidOut`) and the sizes
of the tables (`Totals`). The arithmetic is in lemmas of its own: `PartsRoundUp`
(the least multiple that is not smaller), `ProductMonotone`, `LinksFit`.

*The invariant of `ChainInit` and `Chase`.* That a link is written before the function comes to
it is no property of a link but of what leads to it: `LayoutInv` says that everything a
chain in front of the present one leads to is written (`Tied`), everything in the
present one but the link visited last (`Begun`), and nothing in those behind it
(`Unwritten`). A visit writes the exception and makes the next one; `Close` writes the last.
For this a chain must have been begun when its loops end (`VisitInv`), and all
links be its own (`RandomLinkInChain`, `LineLink`, `LastInChain`).

*The tour.* `TourInv` says what `Tied` leaves open, which links a chain leads through
and in what order. The links visited are grouped by page, a page is never come back
to, and inside a page a random search has drawn each line at most once; a chain that is complete
is a ring through all its links, or, for a stride, through the lines it selects. That a
stride reaches every line, which is what the prime in the table is for, is arithmetic:
`CoprimeMultiple` shows that a prime which does not divide the number of lines takes
each remainder once.

*The invariant of the generated code.* `CompilerInv` says of the allocator's context what
is true between any two of its operations (`Sound`): the table of registers, the mask and
the data of the variables tell one story (`Matched`), every register in use, in a
home or in the code is marked as modified and is none of the stack's (`Marked`), no
variable has two slots. `RegistersAgree` is not inductive without it: `_restoreState` sets
the mask to that of the label, which agrees with the table only because before that
each register was left by what the label did not find there and then entered by
what it did; for this no variable may have been in two registers at the label
(`TargetSound`), and each intermediate context of the sixteen steps must be sound. Every
operation of the allocator has its lemma, by which it leads from a sound context to a sound one and only
adds code behind the present one (`Later`). `CodeInv` says that the code is the program,
emittable by emittable, with saves and loads in between (`Laid`): so the label, the jump
and the epilog are in it once and in this order. `AssemblerInv` needs this order:
the label is bound when the jump is encoded, and neither is encoded again. `MachineInv` needs that the
jump leads to an emittable, and, from `Marked`, that no instruction names a register
which the caller wants back and which is not pushed.

*What is spilled.* `NothingSpilled` needs to know which variables can be in a register at
each emittable. While the program is prepared, a variable's scope ends where it was last
used (`ScopesOpen`), and the jump prolongs the scopes of those used in the loop behind
itself (`ScopesSet`); so `Live` says, from the program alone, what may still be in a register. `Roomy`
adds that nothing was spilled so far. A spill needs all 14 allocatable registers taken, by
different variables that are live, which takes 14 chains; from there on every register
is marked as modified, which no operation takes back (`Crowd`). `ScopeInv` is the
disjunction of the two, and each emittable has its lemma. At the jump `Roomy` says that what
was in a register at the label is in it still (`Unmoved`), so that `_restoreState` neither
spills nor loads. `SlotsSafe` follows from the same invariant: there are slots only if
`Crowd` holds, then the prolog pushes all five allocatable registers that the caller wants
back, and five registers and the return address leave the stack aligned, so that the slots
begin below the last push. TLC has checked `ScopeInv` with 1 to 20 chains.

*What the code reads.* That a register holds what the program last wrote is a fact about every
path through the finished function, and the compiler goes through it once. A claim says
of a place in the code which registers, and which slots, hold the present value of which
variables. `Passed` is what an emittable makes of a claim: a save adds the slot if the
register was claimed, a load the register if the slot was, an instruction
drops all copies of what it writes but the register it writes. `Typed` says of claims for
all places that each follows from the one before it, that what an instruction reads is claimed
(`Reading`), that nothing but the argument is claimed at the entry, and that the
claims at the jump include those at the label. `ReadInv`, the invariant while the function is
compiled, has three parts. Such claims exist for the code so far, and those behind it cover
what the allocator believes (`Covers`): a variable's register, and its slot unless the
register was changed. No scope ends before the last use, and none in the loop (`ScopesKept`), so
a variable that is still read is somewhere (`Needed`, `Alive`). And the claims at the label
are the registers its state remembers and the slots that state counts on (`Labelled`);
at the jump `_restoreState` brings back exactly these. Two things make this work that are easily
missed. Claims at the label must not be more than will hold at the jump: the loop writes the
positions, so of their slots only those are claimed which the label's state has in memory, and which
`_restoreState` writes again. And an instruction whose operand found no register is in the code
all the same; nothing can be claimed behind it, but the assembler refuses it
(`Refused`), and `EncodeInv` says that what was encoded was not refused. `EncodeInv` also has
each emittable begin behind those before it, and behind an instruction that is not
empty when it is the label's, so that the jump lands on the label itself. `RunInv`
follows the machine: at each place, what is claimed is so. TLC has checked `EncodeInv`, and
`ReadInv` and `RunInv` with the strongest claims there are, computed from the code, with 1 to 20
chains.

*Folds.* `FoldLeft` is a recursive function on the subsets of an interval, and the provers have
no induction over it. `FoldExists` builds a solution of its equation step by step, and
`FoldSteps` shows that every solution passes through the values of the steps, if each step stays in
a given set. The same serves the operands of an instruction, the registers of
`_restoreState`, the lengths of the instructions, and the concatenation of the parts of the program.

*The bits of the memory manager.* `free` and `shrink` get an address and read from the bits
how far the block goes; `alloc` takes what the bits say is free. So neither that callers'
blocks are apart nor that the bits tell the blocks is an invariant without the other.
`KInv` says both: the used and the continue bits of every chunk are those of a set
of spans that do not overlap (`Cut`), these spans are exactly the blocks that callers
have of the chunk (`Spans`), the counter is their number of blocks, chunks lie apart from
each other (`Geometry`), and each has a span (`InUse`). Each operation on a chunk
has a lemma about its cut: `TakenCut` adds a span, which needs that `_SetBits` sets
the bits it should and no others, from any bit in a word and across any number of
words (`SetBitsSets`); `LastOfCut` shows that the continue bits end a block where
it ends, also when the next one follows at once; `ReleasedCut` and `ShrunkCut` take
a span away or its end. `Located` goes from an address to the chunk and the span; a
chunk's counter is 0 exactly when it has no span (`UsedPositive`), so `free` unmaps
no chunk in use and leaves none behind. TLC has checked `KInv` with three callers.

Model-checked only: all liveness (`Termination`, `MainReturns`, `EveryoneReady`,
`BenchReturns`), which is beyond the prover; and of the memory manager the tree, the list and
the caches (`TreeOK`, `FindsChunk`, `NothingLost`, `HeldIsMapped`, `NoLeak`, `ListMatchesTree`),
and that with them it implements `ChunkAllocator` (`Implements`): its tree goes down by
recursive operators, which the prover does not take. `BlocksFound` and `BlocksOwned` are
what `HeldIsMapped` and `NoLeak` say of the bits, without the tree. Every other property of
a passing run is also a theorem.

## Not modelled

* Most of the AsmJit assembler: the bytes of the encodings, the tables of instructions
  and operands, and one inline function per instruction and class (AssemblerX86X64,
  OperandX86X64, DefsX86X64, SerializerX86X64). These files are most of the
  lines of the repository. They are data and wrappers without control, pChase
  uses a handful of the instructions, and a model of them would be a
  transcription. `Assembler` has the lengths of those that are used. Labels that
  are bound after a jump to them, relocation, alignment and a buffer that
  cannot grow do not come up in the program of `chase_pointers` or are left out.
* The parts of the AsmJit compiler that the program of `chase_pointers` never enters: calls of
  functions, SSE and x87 variables, instructions with fixed registers, priorities,
  32 bit conventions, several labels.
* Branches of the memory manager for other systems and processes, and
  `setKeepVirtualMemory`; a failure of the system to take memory back.
* Output formatting; digits, suffixes and real numbers of the options; the values of the
  NUMA domains (all 0, and unread in this build); calibration of the timer
  against the clock; the branches of `PERF_TEST` and `cpu_affinity_test`,
  switched off in the source; the widths of `int` in the chain layout (chains of
  2^31 links); that two threads might measure different bounds (run.cpp:156),
  which takes a timer coarser than 20 ms.
* `lib/perf`, which is not built, scripts, notes and recorded results.

## Plan

1. (done) `SpinBarrier`, `Run`, `Benchmark`: the measurement; proofs of its safety.
2. (done) `RandomState`: the shared generator, and its proofs.
3. (done) `ChainInit`, `Chase`: the chains and the code that walks them.
4. (done) `Experiment`: from the options to the shape.
5. (done) `Main`: creation, which may fail for a thread, pinning, joining and output,
   composed with `Run`; its proofs.
6. (done) `RbTree`, `ChunkTree`, `Allocator`, `MemoryManager`: the memory of the generated
   code.
7. (done) `RegisterAllocator`, `Compiler`, `Assembler`, `GeneratedCode`: the code itself.
8. (done) The invariants of `Experiment`, for every command line.
9. (done) The refinement `Measures`, for every calibration the loop counter can hold.
10. (done) No wild pointer, for every shape.
11. (done) Proofs: the growth of the calibration and the bounds of the schedule while nothing
   overflows; `Coverage` and `PageByPage`, which need that a prime that does not
   divide a number steps through all its remainders.
12. (done) Proofs about the generated code: that the parts of the register allocator agree,
   that the jump leads to its label, and that the caller's registers come back.
13. (done) Proofs about what is spilled: that the slots fit below the stack pointer, and that
   few chains are not spilled.
14. (done) Proof that the generated code reads what was written (`ReadsPresent`).
15. (done) `Chunk`, `ChunkAllocator`: the bit arrays of the memory manager, proved.
16. (open) The tree of the memory manager in a form that can be proved about: its ways
   down as functions of a depth, with the shape of a red-black tree as their invariant.
