SPECIFICATION LeasesSpec
CONSTANTS
  p1 = p1
  p2 = p2
  p3 = p3
  Procs <- ThreeProcs
  MaxTokens = 5
  MaxCrashes = 2
  MayStall = TRUE
  Windows = TRUE
  MaxInodes = 2
  t1 = t1
  t2 = t2
  t3 = t3
  easy = easy
  edge = edge
  Tasks <- TwoTasks
  LineageOf <- OwnLineages
  Intents = {"open", "click"}
  Clicks = {"click"}
  MaxEnvs = 2
  MaxActs = 2
  MaxKills = 1
  MaxSupKills = 1
  MaxReconciled = 1
  r1 = r1
  r2 = r2
  Runners <- TwoRunners
  Tests = {none, tests}
  NoTests = none
  Edited = edited
  NoHash = nohash
  Walls = {wall}
  Plans = {plan}
  MaxCycles = 2
  MaxRepairs = 1
  MaxCommands = 3
  MaxDeaths = 1
  Users <- TwoRunners
  Contents = {"bytes", "other"}
  PromoteWins = 3
  QuarantineLosses = 2
  MaxRuns = 8
  MaxEdits = 2
  Jobs <- ThreeTasks
  Works <- TwoRunners
  Suite <- SealedSuite
  InputOf <- OwnInputs
  EdgeCases = {edge}
  PromoteAt = 2
  QuarantineAt = 2
  MaxLoops = 3
  MaxDead = 1
  Agents <- TwoRunners
  Owners = {owner}
  Probes <- TwoTasks
  Hows = {how, other}
  NoProbe = noprobe
  NoHow = nohow
  MaxGen = 2
  MaxBegun = 6
  MaxRemoved = 1
INVARIANTS LeasesTypeOK ExclusionUnlessRobbed BrowserIsNamed NoEffectIsTrue NoBlindRepeat CompletionIsHonest CyclesBounded DivergesByName ProvenIsEarned VerdictIsOfTheseBytes ReadyIsEarned
PROPERTIES LeaseKeepsPromise GradedAndFinal
CHECK_DEADLOCK FALSE
SYMMETRY NamesSymmetry
