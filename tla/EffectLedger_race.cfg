SPECIFICATION Spec
CONSTANTS
  c1 = c1
  c2 = c2
  c3 = c3
  c4 = c4
  Nobody = Nobody
  Callers <- TwoCallers
  Fresh <- None
  Gated = FALSE
PROPERTIES KnownNotRepeated
CHECK_DEADLOCK FALSE
