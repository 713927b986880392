CONSTANTS
    Files = {"a", "b"}
    OnImage = {"a"}
    N = 7
    CS = 2
    DirCap = 4
    Lengths = {1, 5}
    LogLen = 1
    MaxSize = 5
    ListFirst = TRUE
    Parts = {"volume"}
SPECIFICATION VolumeSpec
INVARIANT DataInPlace
