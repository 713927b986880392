CONSTANTS
    NPROC = 2
    NCPU = 2
    MaxPid = 3
    TickMod = 3
    SleepTicks = 2
    Calls <- AllCalls
    KillPids = {2, 3}
    TimerCPUs = {0, 1}
    SchedStampsTicks = TRUE
    Parent = Parent
    Child = Child
    Other = Other
    Procs <- Callers
    Unheld = Unheld
    NSEM = 3
    NPages = 3
    SemArgs = {0, 1}
    Values = {0, 1}
    MaxValue = 2
    Excluded = {"open", "use", "close"}
    N = 3
    Taken = {1}
    Parts = {"table"}
SPECIFICATION PartSpec
INVARIANT NoLockCycle
