----------------------------- MODULE MCProgress -----------------------------
(***************************************************************************)
(* What programs rely on in the end: the scheduler runs every process that *)
(* can run, wait() returns, and two processes that take turns finish.      *)
(* Instances of Proc and PingPong under their fairness, for TLC, to be     *)
(* explored as the parts "fair" and "pingpong" of a larger model.          *)
(***************************************************************************)
EXTENDS Integers

VARIABLES
    part,
    \* of Proc
    state, chan, killed, parent, pid, pc, ret, idx, arg, cproc, sidx, intr,
    widx, plock, wait_lock, tickslock, nextpid, ticks,
    \* of PingPong
    open, value, lk, semName, freePages, kpc, sem, val, myPage, granted, panicked,
    at, left, r, t, pings, pongs

tableVars == <<state, chan, killed, parent, pid, pc, ret, idx, arg, cproc, sidx,
               intr, widx, plock, wait_lock, tickslock, nextpid, ticks>>
gameVars == <<open, value, lk, semName, freePages, kpc, sem, val, myPage, granted,
              panicked, at, left, r, t, pings, pongs>>
progressVars == <<tableVars, gameVars>>

\* Every system call and the clock, one CPU, two slots.
Table == INSTANCE Proc WITH
    NPROC <- 2, NCPU <- 1, MaxPid <- 3, TickMod <- 3, SleepTicks <- 1,
    Calls <- {"fork", "exit", "wait", "kill", "sleep", "fault"},
    KillPids <- {2}, TimerCPUs <- {0}, SchedStampsTicks <- FALSE

\* Three rounds, with a semaphore that another program has open.
Game == INSTANCE PingPong WITH
    Parent <- "parent", Child <- "child", Procs <- {"parent", "child"},
    Unheld <- "nobody", NSEM <- 3, NPages <- 3, SemArgs <- {0, 1}, Values <- {0, 1},
    MaxValue <- 1, Excluded <- {}, N <- 3, Taken <- {1},
    name <- semName, free <- freePages, n <- left, mine <- myPage

ProgressInit == Table!Init /\ Game!PPInit

ProgressNext ==
    \/ part = "fair" /\ Table!Next /\ UNCHANGED gameVars
    \/ part = "pingpong" /\ Game!PPNext /\ UNCHANGED tableVars
    \* When the program is over nothing more happens.
    \/ part = "pingpong" /\ Game!Done /\ UNCHANGED progressVars

\* Fairness of Proc, of its one CPU and its two processes, and of PingPong.
ProgressFairness ==
    /\ SF_tableVars(part = "fair" /\ Table!Scheduler(0))
    /\ SF_tableVars(part = "fair" /\ (Table!ClockWake(0) \/ \E p \in {1, 2} : Table!SwitchStep(0, p)))
    /\ SF_tableVars(part = "fair" /\ Table!ClockIntr(0))
    /\ SF_tableVars(part = "fair" /\ \E p \in {1, 2} : Table!TimerYield(0, p))
    /\ \A p \in {1, 2} : SF_tableVars(part = "fair" /\ Table!CallStep(0, p))
    /\ \A p \in {"parent", "child"} : SF_gameVars(part = "pingpong" /\ Game!PPStep(p))

\* Round robin does not starve: scheduler() reaches every RUNNABLE process,
\* although every other process may compute for ever (Proc).
SchedulerIsFair == part = "fair" => Table!RunnableRuns

\* A parent asleep in wait() returns from it once a child starts exit() (Proc).
WaiterReturns == part = "fair" => Table!WaitReturns

\* A run of pingpong ends, with the semaphores as it found them (PingPong).
GameFinishes == part = "pingpong" => Game!Finishes
=============================================================================
