SPECIFICATION Spec
CONSTANTS
  a = a
  b = b
  d = d
  h1 = h1
  h2 = h2
  ml = ml
  Nobody = Nobody
  NoCourse = NoCourse
  NoRole = NoRole
  Reflector = "reflector"
  Loops <- TwoLoops
  HostOf <- OneHost
  PidOf <- OwnPid
  Drainers <- OnlyB
  Answerers <- None
  Courses <- None
  Roles <- PipelineRoles
  OwnerRoles <- Rippers
  Chain <- Pipeline
  ReflectAfter <- Watchers
  Limits <- SomeLimits
  MaxRetries = 1
  Retain = 1
  Slack = 1
  ArchiveMayFail = TRUE
  Stoppable = TRUE
  SafeModes = TRUE
  LocksMayAge = TRUE
  MaxAlive = 2
  MaxTasks = 4
  OwnerTasks = 1
  MaxCrashes = 0
INVARIANTS FollowUpOnce NothingLost
CHECK_DEADLOCK FALSE
