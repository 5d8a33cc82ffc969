\* Both are violated; TLC stops at the first that it finds: take out the other.
SPECIFICATION Spec
CONSTANTS
    Packetized <- MCEscapedNumber
    Raw <- MCRaw
    Unregistered <- MCNone
    Data <- MCData
    RawData <- MCSpecialData
    READ_BUFFER_LEN = 4
    MaxTokens = 4
    MaxPacket = 1
INVARIANT PacketsInOrder
INVARIANT SpecialBytesDropped
CHECK_DEADLOCK FALSE
