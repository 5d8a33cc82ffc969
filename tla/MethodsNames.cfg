\* Both are violated; TLC stops at the first that it finds: take out the other.
SPECIFICATION Spec
CONSTANTS
    Compress <- Mix
    Sum0 <- Zeros
    MaxElements = 3
    Keys <- MCKeys
    Strings <- MCStrings
    Ints <- MCInts
    Doubles <- MCDoubles
    Contents <- MCContents
    Foreign <- MCScope
    Requests <- MCRequests
    Files <- MCFiles
    Slack = 1
    MaxCrc = 5
    Threads <- MCThreads
    Runtimes <- MCRuntimes
    MAX_RUNTIMES = 1
    Storages <- MCStorages
    MAX_STORAGES = 1
INVARIANT ReadBack
INVARIANT InfoKeysAreDigits
CHECK_DEADLOCK FALSE
