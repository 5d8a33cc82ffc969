SPECIFICATION Spec
CONSTANTS
    Workers = {w1, w2}
    MAX_FDS = 1
    Fds = {3, 4, 5}
    MaxRequests = 4
    Careful = TRUE
INVARIANT AtMostMaxFds
CHECK_DEADLOCK FALSE
