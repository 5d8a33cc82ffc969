SPECIFICATION Spec
CONSTANTS
    Capacity = 4
    MaxBytes = 9
    MaxRead = 3
INVARIANTS
    TypeOK
    RingInv
    NoTornCopy
PROPERTIES
    ChannelSpec
CHECK_DEADLOCK FALSE
