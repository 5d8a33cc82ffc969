SPECIFICATION FairSpec
CONSTANTS
  c1 = c1 c2 = c2
  WORKER_THREADS = 2
  Callers = {c1}
  Setups <- AllSetups
  MaxJobs = 4
  Patient = TRUE
  BootRuntimes <- MCBootRuntimes
  BootPath <- MCBootPath
  BOOT_BUFFER = 25
  BootObjects <- MCBootObjects
INVARIANTS AnsweredOnce StartAlive Kept BootsRight
PROPERTIES JobsAnswered
CHECK_DEADLOCK FALSE
