CONSTANTS
    p1 = p1
    p2 = p2
    p3 = p3
    b1 = b1
    b2 = b2
    b3 = b3
    v1 = v1
    v2 = v2
    d1 = d1
    d2 = d2
    d3 = d3
    Procs <- LogProcs
    Blocks <- LogBlocks
    Values <- TwoValues
    LOGSIZE = 4
    MAXOPBLOCKS = 2
    OpBlocks = 1
    NLOG = 4
    NoBuf = NoBuf
    NoProc = NoProc
    BProcs <- CacheProcs
    BBlocks <- CacheBlocks
    BValues <- TwoValues
    NBUF = 2
    MaxPins = 2
    NoBlock = NoBlock
    BNoProc = BNoProc
    DProcs <- DiskProcs
    DNoProc = DNoProc
    NUM = 8
SPECIFICATION StorageSpec
SYMMETRY Symmetry
INVARIANTS NoPanic SleeperHasReason QuietIsDurable NoLostCompletion
PROPERTIES CrashAtomic CacheIsStore TransferDone
