SPECIFICATION Spec
CONSTANTS
    HEADER = 2
    WORD = 65536
    JOB = 4
    MAX_LENGTH = 3
    Data = {0, 3, 122, 255}
    MaxPackets = 3
    MaxSize = 4
INVARIANTS RequestsInOrder NothingMissing JobFits JobFreed
CHECK_DEADLOCK FALSE
