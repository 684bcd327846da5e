SPECIFICATION Spec
CONSTANTS
  Shapes <- MCTwoChains
  Primes = {5}
INVARIANT AllChainsWalked
