SPECIFICATION MainSpec
CONSTANTS
  NumThreads = 4
  Experiments = 2
  Iterations0 = 2
  Seconds = 0
  OneSecond = 2
  Bound = 1
  Noise = {0}
  Deltas = {0, 1, 2}
  IntMax = 1000
  LongHalf = 1000
  Cpus <- MCCpus
  Allowed = {0, 1}
  MayFail = TRUE
INVARIANTS PrintsFinal NobodyStartsEarly
PROPERTIES MainReturns
CHECK_DEADLOCK FALSE
