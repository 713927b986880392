CONSTANTS
    NPROC = 2
    NCPU = 1
    MaxPid = 4
    TickMod = 1
    SleepTicks = 1
    Calls <- NoSleep
    KillPids = {2, 3}
    TimerCPUs = {}
    SchedStampsTicks = FALSE
    Parent = Parent
    Child = Child
    Other = Other
    Procs <- Both
    Unheld = Unheld
    NSEM = 1
    NPages = 2
    SemArgs = {0}
    Values = {0, 1}
    MaxValue = 2
    Excluded = {"open", "use"}
    N = 3
    Taken = {}
    Parts = {"calls"}
SPECIFICATION PartSpec
INVARIANT NameInUse
