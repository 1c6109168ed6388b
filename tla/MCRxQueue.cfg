SPECIFICATION FairSpec
CONSTANTS
    WqeCnt = 2
    CqeCnt = 2
    CounterMod = 8
    WqeIdxMod = 4
    CqDbMod = 4
    Budget = 2
    Bufs = {b1, b2, b3, b4, b5}
    MaxHeld = 2
    Outcomes = {"RESP_SEND", "RESP_ERR"}
    NULL = NULL
INVARIANTS
    TypeOK
    RingFull
    NicBuffersExclusive
    GathersWhatArrived
    NoBufferLost
    NoCqOverrun
PROPERTY
    EveryPacketGathered
CHECK_DEADLOCK FALSE
