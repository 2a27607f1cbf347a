SPECIFICATION FairSpec
CONSTANTS
  a = a
  b = b
  d = d
  h1 = h1
  h2 = h2
  ml = ml
  Nobody = Nobody
  NoCourse = NoCourse
  NoRole = NoRole
  Reflector = "reflector"
  Loops <- TwoLoops
  HostOf <- OneHost
  PidOf <- SamePid
  Drainers <- None
  Answerers <- None
  Courses <- OneCourse
  Roles <- WorkerRoles
  OwnerRoles <- Workers
  Chain <- NoChain
  ReflectAfter <- None
  Limits <- NoLimit
  MaxRetries = 0
  Retain = 1
  Slack = 0
  ArchiveMayFail = FALSE
  Stoppable = FALSE
  SafeModes = FALSE
  LocksMayAge = TRUE
  MaxAlive = 1
  MaxTasks = 1
  OwnerTasks = 1
  MaxCrashes = 1
PROPERTIES AbandonedIsResumed
CHECK_DEADLOCK FALSE
