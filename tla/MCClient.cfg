SPECIFICATION FairSpec
CONSTANTS
    MAX_ITERATIONS = 3
    MAX_SEGMENT_SIZE = 2
    IntMod = 4
    Setups <- AllSetups
    Interval = 2
    FillSegs = 1
    RingBlocks = 2
    SQ_CLEAN_THRESH = 2
    SQ_CLEAN_MAX = 1
    Burst = 2
    Copies = 2
    MaxPackets = 4
INVARIANTS
    MapRecordsRtts
    PacedWithinList
    SendsOwnBuffers
    ReportExact
PROPERTY
    ClientFinishes
CHECK_DEADLOCK FALSE
