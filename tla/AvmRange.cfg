SPECIFICATION Spec
CONSTANTS
    SIZE_BYTES = 1
    ADDRESS_BYTES = 1
    BASE = 16
    SPAN = 16
    HostPackets <- TopPackets
INVARIANT OutOfRangeIsZero
