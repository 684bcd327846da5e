SPECIFICATION Spec
CONSTANTS
  Shapes <- MCIrregularShapes
  Primes = {5, 11}
INVARIANT WholeChain
