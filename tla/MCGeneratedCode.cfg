SPECIFICATION Spec
CONSTANTS
  ChainCounts <- MCChainCounts
  LoopLengths = {0, 33, 34}
  FirstCapacity = 64
  MostDoubled = 128
  GrowThreshold = 32
INVARIANTS RegistersAgree ReadsPresent CallerKeeps SlotsSafe CodeInPlace NothingSpilled
CHECK_DEADLOCK FALSE
