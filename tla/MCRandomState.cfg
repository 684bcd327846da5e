SPECIFICATION FairSpec
CONSTANTS
  NumThreads = 3
  ChainsPerThread = 2
  PagesPerChain = 2
  LinesPerPage = 2
INVARIANTS
  OwnStream
  OpsAgree
PROPERTIES
  EveryoneReady
