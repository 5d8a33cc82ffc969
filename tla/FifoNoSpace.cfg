SPECIFICATION Spec
CONSTANTS
    Threads = {t1, t2}
    NonBlocking = {t2}
    Capacity = 2
    MaxOpens = 2
INVARIANT NoSpaceIsFull
CHECK_DEADLOCK FALSE
