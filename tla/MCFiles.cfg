CONSTANTS
    q1 = q1
    q2 = q2
    w1 = w1
    n1 = n1
    n2 = n2
    Readers <- TwoProcs
    Writers <- OneWriter
    Nobody = Nobody
    Chars = {"x"}
    INPUT_BUF_SIZE = 2
    IdxMod = 4
    UART_TX_BUF_SIZE = 1
    Counts = {1, 2}
    WriteLen = 2
    PProc = {1, 2, 3}
    Shares <- ThreeShares
    PIPESIZE = 2
    WRAP = 4
    Victims = {2, 3}
    MaxBytes = 5
    IProc <- TwoProcs
    INames <- TwoNames
    INodes = 3
    ISlots = 2
    MaxCalls = 4
SPECIFICATION FilesSpec
SYMMETRY Symmetry
INVARIANTS ConsoleSleepers PipeFifo PipeSleepers OpenFileStays ItableCoherent ItableExact
PROPERTY InputIsQueue
