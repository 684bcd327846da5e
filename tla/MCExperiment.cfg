SPECIFICATION Spec
CONSTANTS
  Values <- MCValues
  Maps <- MCMaps
  PointerSize = 2
  MaxOptions = 4
INVARIANTS
  OneMode
  TablesFit
  SizesAgree
  FitToRun
PROPERTIES
  RoundsUp
