SPECIFICATION Spec
CONSTANTS
  p1 = p1
  p2 = p2
  p3 = p3
  Procs <- ThreeProcs
  MaxTokens = 4
  MaxCrashes = 1
  MayStall = FALSE
  Windows = FALSE
INVARIANTS Exclusion
CHECK_DEADLOCK FALSE
