SPECIFICATION FairSpec
CONSTANTS
    WqeCnt = 2
    CqeCnt = 2
    CounterMod = 4
    WqeIdxMod = 4
    CqDbMod = 4
    SQ_CLEAN_THRESH = 2
    SQ_CLEAN_MAX = 1
    Mbufs = {m1, m2, m3}
    Shapes <- ShortShapes
    Outcomes = {"REQ", "REQ_ERR"}
    NULL = NULL
PROPERTIES
    TransmitCompletes
    ImplementsFifo
CHECK_DEADLOCK FALSE
