\* Both are violated; TLC stops at the first that it finds: take out the other.
SPECIFICATION Spec
CONSTANTS
  c1 = c1 c2 = c2
  WORKER_THREADS = 2
  Callers = {c1, c2}
  Setups <- ThreeStarts
  MaxJobs = 3
  Patient = FALSE
  BootRuntimes <- MCBootRuntimes
  BootPath <- MCBootPath
  BOOT_BUFFER = 25
  BootObjects <- MCBootObjects
INVARIANT StartAlive
INVARIANT TidIsRight
CHECK_DEADLOCK FALSE
