SPECIFICATION Spec
CONSTANTS
  a = a
  b = b
  d = d
  h1 = h1
  h2 = h2
  ml = ml
  Nobody = Nobody
  NoCourse = NoCourse
  NoRole = NoRole
  Reflector = "reflector"
  Loops <- TwoLoops
  HostOf <- OwnHost
  PidOf <- OwnPid
  Drainers <- None
  Answerers <- None
  Courses <- OneCourse
  Roles <- WorkerRoles
  OwnerRoles <- Workers
  Chain <- NoChain
  ReflectAfter <- None
  Limits <- NoLimit
  MaxRetries = 1
  Retain = 1
  Slack = 0
  ArchiveMayFail = FALSE
  Stoppable = FALSE
  SafeModes = FALSE
  LocksMayAge = TRUE
  MaxAlive = 2
  MaxTasks = 2
  OwnerTasks = 2
  MaxCrashes = 1
SYMMETRY LoopSymmetry
PROPERTIES NeverTakenOver
CHECK_DEADLOCK FALSE
