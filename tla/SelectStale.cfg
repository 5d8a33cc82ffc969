SPECIFICATION BridgeSpec
CONSTANTS
    w1 = w1
    w2 = w2
    m1 = m1
    m2 = m2
    m3 = m3
    Workers = {w1, w2}
    MaxPackets = 3
    SurplusPosts = FALSE
    Makers = {m1, m2, m3}
    Numbers = {1, 2}
    RPC_CHANNEL = 3
    Limit = 3
    Setups <- JustMakers
    Patient = TRUE
    Reselects = FALSE
INVARIANT NothingLost
CHECK_DEADLOCK FALSE
