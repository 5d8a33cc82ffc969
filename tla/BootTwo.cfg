SPECIFICATION Spec
CONSTANTS
  c1 = c1 c2 = c2
  WORKER_THREADS = 1
  Callers = {c1}
  Setups <- BootOnly
  MaxJobs = 3
  Patient = FALSE
  BootRuntimes <- MCBootRuntimes
  BootPath <- MCBootPath
  BOOT_BUFFER = 25
  BootObjects <- MCBootObjects
INVARIANTS BootsWhatIsNamed
CHECK_DEADLOCK FALSE
