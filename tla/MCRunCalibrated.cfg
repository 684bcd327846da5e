SPECIFICATION FairSpec
CONSTANTS
  NumThreads = 3
  Experiments = 2
  Iterations0 = 0
  Seconds = 2
  OneSecond = 2
  Bound = 2
  Noise = {0, 2}
  Deltas = {0, 3}
  IntMax = 1000
  LongHalf = 1000
INVARIANTS
  PublishedRaceFree
  RoundStable
  Lockstep
  TimedWork
  RoundGrowth
  SameExperiment
  SamplesMatch
PROPERTIES
  ScheduleBounds
  Measures
  Termination
