SPECIFICATION FairSpec
CONSTANTS
    Modes = {"echo", "copy", "zero_copy"}
    BURST_SIZE = 2
    BATCH_SIZE = 2
    Bursts <- FlushedBursts
    RxBufs = {r1, r2, r3, r4, r5, r6}
    RxWqeCnt = 2
    Mbufs = {m1, m2, m3, m4, m5, m6, m7, m8}
    TxBufs = {t1, t2, t3, t4}
    num_segments = 2
    Segments = {g1, g2}
    using_ref_counting = TRUE
    RefcntMod = 16
    EchoFits = TRUE
    Capacity = 2
    ReplyBlocks = 1
    SQ_CLEAN_THRESH = 2
    SQ_CLEAN_MAX = 2
    NULL = NULL
INVARIANTS
    TypeOK
    RxBufferOwners
    ReplyOwners
    RefcntExact
    PoolsSuffice
PROPERTIES
    AnsweredBeforeForgotten
    ReturnsToPoll
