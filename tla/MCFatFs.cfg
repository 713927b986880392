CONSTANTS
    Files = {"a", "b"}
    OnImage = {"a"}
    N = 7
    CS = 2
    DirCap = 4
    Lengths = {1, 5}
    LogLen = 1
    MaxSize = 5
    ListFirst = TRUE
    Parts = {"volume", "tree"}
SPECIFICATION VolumeSpec
INVARIANTS DataKept ChainsKept MemoryMatchesImage TreeExact
PROPERTY OthersKept
