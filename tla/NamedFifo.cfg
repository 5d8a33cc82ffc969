SPECIFICATION Spec
CONSTANTS
    Threads = {t1, t2, t3}
    NonBlocking = {t3}
    Capacity = 2
    MaxOpens = 2
INVARIANTS ClosedIsNoUser OnlyLastClosePosts
PROPERTY EndOfFifo
CHECK_DEADLOCK FALSE
