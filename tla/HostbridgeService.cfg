SPECIFICATION Spec
CONSTANTS
    Packetized <- MCOnePacketized
    Raw <- MCRaw
    Unregistered <- MCUnregistered
    Data <- MCData
    RawData <- MCRawData
    READ_BUFFER_LEN = 4
    MaxTokens = 4
    MaxPacket = 2
INVARIANTS PacketsInOrder NothingMissing PlainInOrder
CHECK_DEADLOCK FALSE
