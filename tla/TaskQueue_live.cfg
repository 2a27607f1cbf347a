SPECIFICATION FairSpec
CONSTANTS
  a = a
  b = b
  d = d
  h1 = h1
  h2 = h2
  ml = ml
  Nobody = Nobody
  NoCourse = NoCourse
  NoRole = NoRole
  Reflector = "reflector"
  Loops <- TwoLoops
  HostOf <- OneHost
  PidOf <- OwnPid
  Drainers <- None
  Answerers <- None
  Courses <- OneCourse
  Roles <- WorkerRoles
  OwnerRoles <- Workers
  Chain <- NoChain
  ReflectAfter <- None
  Limits <- NoLimit
  MaxRetries = 1
  Retain = 0
  Slack = 0
  ArchiveMayFail = FALSE
  Stoppable = FALSE
  SafeModes = FALSE
  LocksMayAge = TRUE
  MaxAlive = 2
  MaxTasks = 3
  OwnerTasks = 2
  MaxCrashes = 1
PROPERTIES WorkSettles RetriedUnlessLoopEnds
CHECK_DEADLOCK FALSE
