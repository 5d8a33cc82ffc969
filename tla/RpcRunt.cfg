SPECIFICATION Spec
CONSTANTS
    Workers = {w1}
    MaxPackets = 2
    SurplusPosts = TRUE
INVARIANT PostsAreJobs
CHECK_DEADLOCK FALSE
