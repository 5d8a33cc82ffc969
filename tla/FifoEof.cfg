SPECIFICATION FairSpec
CONSTANTS
    Threads = {t1, t2}
    NonBlocking = {}
    Capacity = 1
    MaxOpens = 1
PROPERTY EofReachesReader
CHECK_DEADLOCK FALSE
