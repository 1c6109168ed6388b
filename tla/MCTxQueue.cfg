SPECIFICATION Spec
CONSTANTS
    WqeCnt = 4
    CqeCnt = 4
    CounterMod = 8
    WqeIdxMod = 8
    CqDbMod = 8
    SQ_CLEAN_THRESH = 3
    SQ_CLEAN_MAX = 2
    Mbufs = {m1, m2, m3}
    Shapes <- MixedShapes
    Outcomes = {"REQ"}
    NULL = NULL
INVARIANTS
    TypeOK
    RingAccounting
    RecordedUntilReaped
    UnfetchedWqesIntact
    OneOwner
    CompletionsInOrder
    NoCqOverrun
    DmaBuffersOwned
SYMMETRY MbufSymmetry
CHECK_DEADLOCK FALSE
