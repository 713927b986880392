CONSTANTS
    Files = {"a", "b"}
    OnImage = {"a"}
    N = 7
    CS = 2
    DirCap = 4
    Lengths = {1, 3}
    LogLen = 1
    MaxSize = 5
    ListFirst = FALSE
    Parts = {"volume"}
SPECIFICATION VolumeSpec
PROPERTY OthersKept
