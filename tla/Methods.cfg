SPECIFICATION Spec
CONSTANTS
    Compress <- Mix
    Sum0 <- Zeros
    MaxElements = 3
    Keys <- MCKeys
    Strings <- MCStrings
    Ints <- MCInts
    Doubles <- MCDoubles
    Contents <- MCContents
    Foreign <- MCForeign
    Requests <- MCRequests
    Files <- MCFiles
    Slack = 1
    MaxCrc = 5
    Threads <- MCThreads
    Runtimes <- MCRuntimes
    MAX_RUNTIMES = 1
    Storages <- MCStorages
    MAX_STORAGES = 1
INVARIANTS DocIsElements Fits ReadBack HashIsDigest
CHECK_DEADLOCK FALSE
