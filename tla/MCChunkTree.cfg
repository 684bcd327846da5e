SPECIFICATION Spec
CONSTANTS
  Struct = {s1, s2, s3, s4, s5, s6}
  FalseRoot = FalseRoot
  NULL = NULL
  Base <- MCBase
  ChunkSize = 2
SYMMETRY Symmetry
INVARIANTS TreeOK FindsChunk
PROPERTY NothingLost
