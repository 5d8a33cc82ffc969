SPECIFICATION Spec
CONSTANTS
    t1 = t1
    t2 = t2
    Threads <- MCThreads
    Packetized <- MCPacketized
    Plain <- MCPlain
    Data <- MCData
    MaxLen = 2
    WRITE_BUFFER_LEN = 2
    MaxCalls = 3
    MaxRestarts = 1
SYMMETRY Symmetry
INVARIANTS BufferFits HostUnderstands
CHECK_DEADLOCK FALSE
