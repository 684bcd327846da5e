SPECIFICATION Spec
CONSTANTS
  NumThreads = 2
  Experiments = 1
  Iterations0 = 0
  Seconds = 4
  OneSecond = 2
  Bound = 2
  Noise = {0}
  Deltas = {1}
  IntMax = 1000
  LongHalf = 1000
PROPERTIES
  ScheduleExact
