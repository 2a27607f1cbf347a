SPECIFICATION TrSpec
CONSTANTS
  Users = {u1, u2}
  Contents = {"bytes", "other"}
  PromoteWins = 3
  QuarantineLosses = 2
  MaxRuns = 8
  MaxEdits = 1
PROPERTIES OnlyAcceptedPromotes
CHECK_DEADLOCK FALSE
