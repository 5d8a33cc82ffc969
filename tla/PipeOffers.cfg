\* Both are violated; TLC stops at the first that it finds: take out the other.
SPECIFICATION FairSpec
CONSTANTS
    Capacity = 4
    MaxBytes = 5
    MaxRead = 2
INVARIANT NoSleepOnData
PROPERTY OverflowDropsData
CHECK_DEADLOCK FALSE
