SPECIFICATION MCSpec
CONSTANTS
  Calls <- OneTool
  StopSteps <- SomeStops
  MaxSteps = 4
  MaxMalformed = 2
  MaxRejects = 2
  MaxCost = 5
  WarnSame = 2
  FailSame = 3
  EscalateAfter = 1
  Threshold = 6
  KeepRecent = 2
  MaxExtras = 1
  MaxAnswers = 1
  MaxCrashes = 1
  CostCap = 5
  Files <- ThreeFiles
  Foreign <- OneForeign
  Quality <- Qualities
  Flaky = TRUE
  Sampling = TRUE
  Stashing = TRUE
  CandRejects = 2
  CandKills = 1
INVARIANTS StepTypeOK StashAheadByOne CallsAreAnswered OrphansByEscalation CeilingsBind 
PROPERTIES AttemptEnds
CHECK_DEADLOCK FALSE
