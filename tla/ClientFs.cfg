SPECIFICATION FairSpec
CONSTANTS
    Workers = {w1,w2,w3}
    MAX_FDS = 2
    Fds = {3,4}
    MaxRequests = 4
    Careful = TRUE
INVARIANTS OneOwner RightFile CleanupSticks MarkedInUse
PROPERTIES RequestsEnd
CHECK_DEADLOCK FALSE
