SPECIFICATION Spec
CONSTANTS
  Struct = {s1, s2, s3}
  Caller = {c1, c2, c3}
  FalseRoot = FalseRoot
  NULL = NULL
  Base <- MCBase
  CodeSizes = {33, 128, 200}
  PermanentSizes = {129}
  NewChunkSize = 192
  Density = 64
  Alignment = 32
  PermanentChunk = 64
  PageSize = 64
  BitsPerEntity = 2
SYMMETRY Symmetry
INVARIANTS HeldIsMapped NoLeak ListMatchesTree
PROPERTY Implements
