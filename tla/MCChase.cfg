SPECIFICATION FairSpec
CONSTANTS
  Shapes <- MCShapes
  Primes = {5, 11, 13}
INVARIANTS
  NoWildPointer
  Coverage
PROPERTIES
  PageByPage
  BenchReturns
