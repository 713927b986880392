CONSTANTS
    NPROC = 4
    NCPU = 2
    MaxPid = 4
    TickMod = 1
    SleepTicks = 1
    Calls <- NoSleep
    KillPids = {2, 3}
    TimerCPUs = {}
    SchedStampsTicks = FALSE
    Parent = Parent
    Child = Child
    Other = Other
    Procs <- Callers
    Unheld = Unheld
    NSEM = 3
    NPages = 3
    SemArgs = {0, 1}
    Values = {0, 1}
    MaxValue = 2
    Excluded = {"open", "use", "close"}
    N = 3
    Taken = {1}
    Parts = {"table", "calls", "pingpong"}
SPECIFICATION PartSpec
INVARIANTS OneCpuPerProc SchedPrecondition ZombieHasParent NoLostExit NoLockCycle NoLostUp PagesAccounted
PROPERTY PingThenPong
