SPECIFICATION Spec
CONSTANTS
  a = a
  b = b
  d = d
  h1 = h1
  h2 = h2
  ml = ml
  Nobody = Nobody
  NoCourse = NoCourse
  NoRole = NoRole
  Reflector = "reflector"
  Loops <- TwoLoops
  HostOf <- OneHost
  PidOf <- OwnPid
  Drainers <- None
  Answerers <- OneAnswerer
  Courses <- OneCourse
  Roles <- WorkerRoles
  OwnerRoles <- Workers
  Chain <- NoChain
  ReflectAfter <- None
  Limits <- NoLimit
  MaxRetries = 0
  Retain = 1
  Slack = 0
  ArchiveMayFail = FALSE
  Stoppable = FALSE
  SafeModes = FALSE
  LocksMayAge = FALSE
  MaxAlive = 2
  MaxTasks = 2
  OwnerTasks = 2
  MaxCrashes = 0
INVARIANTS SingleWriter
CHECK_DEADLOCK FALSE
