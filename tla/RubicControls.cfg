\* Both are violated; TLC stops at the first that it finds: take out the other.
SPECIFICATION Spec
CONSTANTS
  c1 = c1 c2 = c2
  WORKER_THREADS = 1
  Callers = {c1}
  Setups <- TwoControls
  MaxJobs = 2
  Patient = FALSE
  BootRuntimes <- MCBootRuntimes
  BootPath <- MCBootPath
  BOOT_BUFFER = 25
  BootObjects <- MCBootObjects
INVARIANT Kept
INVARIANT AbortSucceeds
CHECK_DEADLOCK FALSE
