SPECIFICATION Spec
CONSTANTS
    Modes = {"echo"}
    BURST_SIZE = 2
    BATCH_SIZE = 2
    Bursts <- AllBursts
    RxBufs = {r1, r2, r3, r4, r5, r6}
    RxWqeCnt = 2
    Mbufs = {}
    TxBufs = {}
    num_segments = 2
    Segments = {g1, g2}
    using_ref_counting = TRUE
    RefcntMod = 16
    EchoFits = TRUE
    Capacity = 2
    ReplyBlocks = 1
    SQ_CLEAN_THRESH = 2
    SQ_CLEAN_MAX = 2
    NULL = NULL
INVARIANT
    PoolsSuffice
