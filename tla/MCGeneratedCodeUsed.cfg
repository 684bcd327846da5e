SPECIFICATION Spec
CONSTANTS
  ChainCounts = {14}
  LoopLengths = {0}
  FirstCapacity = 64
  MostDoubled = 128
  GrowThreshold = 32
INVARIANT UsedStays
CHECK_DEADLOCK FALSE
