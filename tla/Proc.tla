-------------------------------- MODULE Proc --------------------------------
(***************************************************************************)
(* The process table of the xv6 kernel of lab2 and lab3: kernel/proc.c,    *)
(* the traps of kernel/trap.c that preempt and clock it, and the process   *)
(* system calls of kernel/sysproc.c.                                       *)
(*                                                                         *)
(* Every CPU runs scheduler(); a process runs on a CPU from the swtch() of *)
(* scheduler() to the swtch() of sched().  pc[p] is the point of the       *)
(* kernel (or "user") where p's thread is.  A spin lock is owned by a CPU, *)
(* as in spinlock.c's holding().  A section "acquire(x) ... release(x)"    *)
(* that touches only what x protects and acquires nothing else is one      *)
(* step, enabled while x is free; every lock that is held while another is *)
(* acquired, or across swtch(), is held across steps here too.             *)
(*                                                                         *)
(* Interrupts are off while a CPU holds a lock (push_off), so a timer      *)
(* interrupt is taken only where the CPU holds none.                       *)
(*                                                                         *)
(* A loop variable is 1, and a local or a resume point has its initial     *)
(* value, while the loop or the call that uses it is not running.          *)
(*                                                                         *)
(* Left out as data: memory, files, names, exit status, and the counters   *)
(* that lab3 adds, which the kernel writes and never reads.                *)
(***************************************************************************)
EXTENDS Integers, FiniteSets

CONSTANTS
    NPROC,            \* slots of the process table (param.h)
    NCPU,             \* harts (param.h)
    MaxPid,           \* bound: largest pid fork() may hand out
    TickMod,          \* ticks is a uint: it counts modulo TickMod
    SleepTicks,       \* the n of sleep(n)
    Calls,            \* the system calls user programs make
    KillPids,         \* the arguments they pass to kill()
    TimerCPUs,        \* the harts that take timer interrupts
    SchedStampsTicks  \* TRUE: lab3's sched(), which takes tickslock

ASSUME ProcAssumption ==
    /\ NPROC \in Nat \ {0}
    /\ NCPU \in Nat \ {0}
    /\ MaxPid \in Nat \ {0}
    /\ TickMod \in Nat \ {0}
    /\ SleepTicks \in Nat
    /\ Calls \subseteq {"fork", "exit", "wait", "kill", "sleep", "fault"}
    /\ KillPids \subseteq Nat
    /\ TimerCPUs \subseteq 0..(NCPU - 1)
    /\ SchedStampsTicks \in BOOLEAN

Proc == 1..NPROC
CPU == 0..(NCPU - 1)
initproc == 1            \* userinit() takes the first slot
NoProc == 0              \* a null struct proc *
NoCpu == -1              \* the owner of a free lock
TicksChan == NPROC + 1   \* the channel &ticks; the channel p is p itself
NoChan == 0

VARIABLES
    state,      \* p->state
    chan,       \* p->chan
    killed,     \* p->killed
    parent,     \* p->parent
    pid,        \* p->pid
    pc,         \* where the thread of p is
    ret,        \* where it goes on when sched() returns
    idx,        \* loop variable of the table scan p is in
    arg,        \* np of fork(), pid of kill(), ticks0 of sys_sleep()
    cproc,      \* c->proc
    sidx,       \* loop variable of scheduler() on c
    intr,       \* trap handler running on c
    widx,       \* loop variable of the wakeup() running on c
    plock,      \* owner of p->lock
    wait_lock,  \* owner of wait_lock
    tickslock,  \* owner of tickslock
    nextpid,
    ticks

procVars == <<state, chan, killed, parent, pid>>
threadVars == <<pc, ret, idx, arg>>
cpuVars == <<cproc, sidx, intr, widx>>
lockVars == <<plock, wait_lock, tickslock>>
vars == <<procVars, threadVars, cpuVars, lockVars, nextpid, ticks>>

PStates == {"UNUSED", "USED", "SLEEPING", "RUNNABLE", "RUNNING", "ZOMBIE"}

\* Points where the thread holds no lock and interrupts are on.
OpenPcs == {"user", "fork", "forkParent", "forkRun", "exit", "wait", "kill",
            "sleep", "waitLock", "sleepLock", "sysret"}
\* Points inside a wait_lock section, and inside a tickslock section.
WaitLockPcs == {"reparent", "reparentWake", "exitWake", "exitZombie",
                "waitScan", "waitEnd", "waitSleep"}
TicksLockPcs == {"sleepTest", "sleepSleep"}
\* Points where the thread holds its own p->lock.
PLockPcs == {"forkret", "sched", "slept", "yielded", "dead"}
Pcs == OpenPcs \cup WaitLockPcs \cup TicksLockPcs \cup PLockPcs \cup {"none"}

\* procinit() and userinit(): slot 1 is initproc, RUNNABLE at forkret.
Init ==
    /\ state = [p \in Proc |-> IF p = initproc THEN "RUNNABLE" ELSE "UNUSED"]
    /\ chan = [p \in Proc |-> NoChan]
    /\ killed = [p \in Proc |-> FALSE]
    /\ parent = [p \in Proc |-> NoProc]
    /\ pid = [p \in Proc |-> IF p = initproc THEN 1 ELSE 0]
    /\ pc = [p \in Proc |-> IF p = initproc THEN "forkret" ELSE "none"]
    /\ ret = [p \in Proc |-> "none"]
    /\ idx = [p \in Proc |-> 1]
    /\ arg = [p \in Proc |-> 0]
    /\ cproc = [c \in CPU |-> NoProc]
    /\ sidx = [c \in CPU |-> 1]
    /\ intr = [c \in CPU |-> "none"]
    /\ widx = [c \in CPU |-> 1]
    /\ plock = [p \in Proc |-> NoCpu]
    /\ wait_lock = NoCpu
    /\ tickslock = NoCpu
    /\ nextpid = 2
    /\ ticks = 0

-----------------------------------------------------------------------------
(* scheduler() and sched() *)

Free(q) == plock[q] = NoCpu

\* CPU c runs p's thread, which is at point l and not in a trap handler.
At(c, p, l) == cproc[c] = p /\ intr[c] = "none" /\ pc[p] = l

Goto(p, l) == pc' = [pc EXCEPT ![p] = l]

\* for(p = proc; ...; p++), started again by for(;;).
Advance(i) == IF i = NPROC THEN 1 ELSE i + 1

\* The loop looks at slot sidx[c]: a RUNNABLE process is switched to, and
\* keeps its p->lock until its own thread releases it.
Scheduler(c) ==
    LET p == sidx[c] IN
    /\ cproc[c] = NoProc /\ intr[c] = "none"
    /\ Free(p)
    /\ IF state[p] = "RUNNABLE"
       THEN /\ state' = [state EXCEPT ![p] = "RUNNING"]
            /\ cproc' = [cproc EXCEPT ![c] = p]
            /\ plock' = [plock EXCEPT ![p] = c]
            /\ UNCHANGED sidx
       ELSE /\ sidx' = [sidx EXCEPT ![c] = Advance(p)]
            /\ UNCHANGED <<state, cproc, plock>>
    /\ UNCHANGED <<chan, killed, parent, pid, threadVars, intr, widx,
                   wait_lock, tickslock, nextpid, ticks>>

\* The point where a thread that called sched() from state st resumes.
Resume(st) == CASE st = "SLEEPING" -> "slept"
                [] st = "RUNNABLE" -> "yielded"
                [] OTHER           -> "dead"

\* Mutant: scheduler() starts again at the first slot after a switch.
SchedRestartsScan(c, p) ==
    /\ At(c, p, "sched")
    /\ SchedStampsTicks => tickslock = NoCpu
    /\ Goto(p, Resume(state[p]))
    /\ cproc' = [cproc EXCEPT ![c] = NoProc]
    /\ plock' = [plock EXCEPT ![p] = NoCpu]
    /\ sidx' = [sidx EXCEPT ![c] = 1]
    /\ UNCHANGED <<procVars, ret, idx, arg, intr, widx, wait_lock, tickslock,
                   nextpid, ticks>>

\* sched(): lab3 first stamps p->last_executed under tickslock; then
\* swtch() to scheduler(), which clears c->proc and releases p->lock.
Sched(c, p) ==
    /\ At(c, p, "sched")
    /\ SchedStampsTicks => tickslock = NoCpu
    /\ Goto(p, Resume(state[p]))
    /\ cproc' = [cproc EXCEPT ![c] = NoProc]
    /\ plock' = [plock EXCEPT ![p] = NoCpu]
    /\ sidx' = [sidx EXCEPT ![c] = Advance(@)]
    /\ UNCHANGED <<procVars, ret, idx, arg, intr, widx, wait_lock, tickslock,
                   nextpid, ticks>>

\* forkret(): release p->lock and go to user space.
Forkret(c, p) ==
    /\ At(c, p, "forkret")
    /\ Goto(p, "user")
    /\ plock' = [plock EXCEPT ![p] = NoCpu]
    /\ UNCHANGED <<procVars, ret, idx, arg, cpuVars, wait_lock, tickslock,
                   nextpid, ticks>>

\* The end of yield(): release p->lock.
Yielded(c, p) ==
    /\ At(c, p, "yielded")
    /\ Goto(p, ret[p])
    /\ ret' = [ret EXCEPT ![p] = "none"]
    /\ plock' = [plock EXCEPT ![p] = NoCpu]
    /\ UNCHANGED <<procVars, idx, arg, cpuVars, wait_lock, tickslock,
                   nextpid, ticks>>

\* Mutant: sleep() reacquires lk without releasing p->lock.
SleptKeepsLock(c, p) ==
    /\ At(c, p, "slept")
    /\ Goto(p, ret[p])
    /\ ret' = [ret EXCEPT ![p] = "none"]
    /\ chan' = [chan EXCEPT ![p] = NoChan]
    /\ UNCHANGED <<state, killed, parent, pid, idx, arg, cpuVars, lockVars,
                   nextpid, ticks>>

\* The end of sleep(): clear p->chan, release p->lock; lk is next.
Slept(c, p) ==
    /\ At(c, p, "slept")
    /\ Goto(p, ret[p])
    /\ ret' = [ret EXCEPT ![p] = "none"]
    /\ chan' = [chan EXCEPT ![p] = NoChan]
    /\ plock' = [plock EXCEPT ![p] = NoCpu]
    /\ UNCHANGED <<state, killed, parent, pid, idx, arg, cpuVars, wait_lock,
                   tickslock, nextpid, ticks>>

-----------------------------------------------------------------------------
(* Parts shared by several system calls *)

\* freeproc(q): every field of the slot is cleared.
FreeProc(q) ==
    /\ state' = [state EXCEPT ![q] = "UNUSED"]
    /\ pid' = [pid EXCEPT ![q] = 0]
    /\ parent' = [parent EXCEPT ![q] = NoProc]
    /\ chan' = [chan EXCEPT ![q] = NoChan]
    /\ killed' = [killed EXCEPT ![q] = FALSE]

\* sleep(ch, lk) up to sched(); the caller's action releases lk.
GoToSleep(p, c, ch, back) ==
    /\ Free(p)
    /\ plock' = [plock EXCEPT ![p] = c]
    /\ chan' = [chan EXCEPT ![p] = ch]
    /\ state' = [state EXCEPT ![p] = "SLEEPING"]
    /\ ret' = [ret EXCEPT ![p] = back]
    /\ Goto(p, "sched")

\* One iteration of wakeup(ch) on CPU c, at slot q.
WakeupOne(c, q, ch) ==
    /\ q # cproc[c] => Free(q)
    /\ state' = IF q # cproc[c] /\ state[q] = "SLEEPING" /\ chan[q] = ch
                THEN [state EXCEPT ![q] = "RUNNABLE"] ELSE state
    /\ widx' = [widx EXCEPT ![c] = Advance(q)]

-----------------------------------------------------------------------------
(* usertrap() and the system calls *)

\* The first point of each call; "fault" is an exception in user code.
Entry(call) == IF call = "fault" THEN "sysret" ELSE call

\* fork() consumes pids up to the bound: calls in progress count too.
ForkBudget == nextpid + Cardinality({q \in Proc : pc[q] = "fork"}) <= MaxPid

\* usertrap(): a killed process exits, another starts the call; a fault
\* marks the process killed.  init only forks and waits (user/init.c).
Trap(c, p, call) ==
    /\ At(c, p, "user") /\ Free(p)
    /\ p = initproc => call \in {"fork", "wait"}
    /\ call = "fork" => ForkBudget
    /\ Goto(p, IF killed[p] /\ call # "fault" THEN "exit" ELSE Entry(call))
    /\ killed' = IF call = "fault" THEN [killed EXCEPT ![p] = TRUE] ELSE killed
    /\ \E v \in (IF call = "kill" /\ ~killed[p] THEN KillPids ELSE {0}) :
          arg' = [arg EXCEPT ![p] = v]
    /\ UNCHANGED <<state, chan, parent, pid, ret, idx, cpuVars, lockVars,
                   nextpid, ticks>>

\* The end of usertrap(): exit if killed, else back to user space.
Sysret(c, p) ==
    /\ At(c, p, "sysret") /\ Free(p)
    /\ Goto(p, IF killed[p] THEN "exit" ELSE "user")
    /\ UNCHANGED <<procVars, ret, idx, arg, cpuVars, lockVars, nextpid, ticks>>

\* allocproc() at slot idx[p], and fork() up to the release of np->lock.
\* kalloc(), proc_pagetable() or uvmcopy() may fail: the slot is freed
\* again and its pid is lost.
ForkAlloc(c, p) ==
    LET np == idx[p] IN
    /\ At(c, p, "fork") /\ Free(np)
    /\ \/ /\ state[np] # "UNUSED"
          /\ idx' = [idx EXCEPT ![p] = Advance(np)]
          /\ Goto(p, IF np = NPROC THEN "sysret" ELSE "fork")
          /\ UNCHANGED <<procVars, arg, nextpid>>
       \/ /\ state[np] = "UNUSED"
          /\ nextpid' = nextpid + 1
          /\ state' = [state EXCEPT ![np] = "USED"]
          /\ pid' = [pid EXCEPT ![np] = nextpid]
          /\ pc' = [pc EXCEPT ![np] = "forkret", ![p] = "forkParent"]
          /\ idx' = [idx EXCEPT ![p] = 1]
          /\ arg' = [arg EXCEPT ![p] = np]
          /\ UNCHANGED <<chan, killed, parent>>
       \/ /\ state[np] = "UNUSED"
          /\ nextpid' = nextpid + 1
          /\ FreeProc(np)
          /\ idx' = [idx EXCEPT ![p] = 1]
          /\ Goto(p, "sysret")
          /\ UNCHANGED arg
    /\ UNCHANGED <<ret, cpuVars, lockVars, ticks>>

\* fork(): np->parent = p under wait_lock.
ForkParent(c, p) ==
    /\ At(c, p, "forkParent") /\ wait_lock = NoCpu
    /\ parent' = [parent EXCEPT ![arg[p]] = p]
    /\ Goto(p, "forkRun")
    /\ UNCHANGED <<state, chan, killed, pid, ret, idx, arg, cpuVars, lockVars,
                   nextpid, ticks>>

\* fork(): np->state = RUNNABLE under np->lock.
ForkRun(c, p) ==
    /\ At(c, p, "forkRun") /\ Free(arg[p])
    /\ state' = [state EXCEPT ![arg[p]] = "RUNNABLE"]
    /\ arg' = [arg EXCEPT ![p] = 0]
    /\ Goto(p, "sysret")
    /\ UNCHANGED <<chan, killed, parent, pid, ret, idx, cpuVars, lockVars,
                   nextpid, ticks>>

\* kill(arg[p]) at slot idx[p].
Kill(c, p) ==
    LET q == idx[p]
        found == pid[q] = arg[p]
        done == found \/ q = NPROC
    IN
    /\ At(c, p, "kill") /\ Free(q)
    /\ killed' = IF found THEN [killed EXCEPT ![q] = TRUE] ELSE killed
    /\ state' = IF found /\ state[q] = "SLEEPING"
                THEN [state EXCEPT ![q] = "RUNNABLE"] ELSE state
    /\ idx' = [idx EXCEPT ![p] = IF done THEN 1 ELSE Advance(q)]
    /\ arg' = [arg EXCEPT ![p] = IF done THEN 0 ELSE @]
    /\ Goto(p, IF done THEN "sysret" ELSE "kill")
    /\ UNCHANGED <<chan, parent, pid, ret, cpuVars, lockVars, nextpid,
                   ticks>>

-----------------------------------------------------------------------------
(* exit() *)

\* Mutant: exit() does not call reparent().
ExitNoReparent(c, p) ==
    /\ At(c, p, "exit") /\ wait_lock = NoCpu
    /\ wait_lock' = c
    /\ Goto(p, "exitWake")
    /\ UNCHANGED <<procVars, ret, idx, arg, cpuVars, plock, tickslock, nextpid,
                   ticks>>

\* exit() up to acquire(&wait_lock); reparent() starts.
Exit(c, p) ==
    /\ At(c, p, "exit") /\ wait_lock = NoCpu
    /\ wait_lock' = c
    /\ Goto(p, "reparent")
    /\ UNCHANGED <<procVars, ret, idx, arg, cpuVars, plock, tickslock, nextpid,
                   ticks>>

\* Mutant: reparent() does not call wakeup(initproc).
ReparentNoWakeup(c, p) ==
    LET pp == idx[p] IN
    /\ At(c, p, "reparent")
    /\ IF parent[pp] = p
       THEN /\ parent' = [parent EXCEPT ![pp] = initproc]
            /\ idx' = [idx EXCEPT ![p] = Advance(pp)]
            /\ Goto(p, IF pp = NPROC THEN "exitWake" ELSE "reparent")
       ELSE /\ idx' = [idx EXCEPT ![p] = Advance(pp)]
            /\ Goto(p, IF pp = NPROC THEN "exitWake" ELSE "reparent")
            /\ UNCHANGED parent
    /\ UNCHANGED <<state, chan, killed, pid, ret, arg, cpuVars, lockVars,
                   nextpid, ticks>>

\* reparent() at slot idx[p]: a child is given to init, then wakeup(init).
Reparent(c, p) ==
    LET pp == idx[p] IN
    /\ At(c, p, "reparent")
    /\ IF parent[pp] = p
       THEN /\ parent' = [parent EXCEPT ![pp] = initproc]
            /\ Goto(p, "reparentWake")
            /\ UNCHANGED idx
       ELSE /\ idx' = [idx EXCEPT ![p] = Advance(pp)]
            /\ Goto(p, IF pp = NPROC THEN "exitWake" ELSE "reparent")
            /\ UNCHANGED parent
    /\ UNCHANGED <<state, chan, killed, pid, ret, arg, cpuVars, lockVars,
                   nextpid, ticks>>

\* wakeup(initproc) inside reparent(), which then looks at the next slot.
ReparentWake(c, p) ==
    LET last == widx[c] = NPROC IN
    /\ At(c, p, "reparentWake")
    /\ WakeupOne(c, widx[c], initproc)
    /\ idx' = IF last THEN [idx EXCEPT ![p] = Advance(@)] ELSE idx
    /\ Goto(p, IF ~last THEN "reparentWake"
               ELSE IF idx[p] # NPROC THEN "reparent" ELSE "exitWake")
    /\ UNCHANGED <<chan, killed, parent, pid, ret, arg, cproc, sidx, intr,
                   lockVars, nextpid, ticks>>

\* Mutant: exit() does not wake its parent.
ExitWakeSkipped(c, p) ==
    /\ At(c, p, "exitWake")
    /\ Goto(p, "exitZombie")
    /\ UNCHANGED <<procVars, ret, idx, arg, cpuVars, lockVars, nextpid, ticks>>

\* wakeup(p->parent).
ExitWake(c, p) ==
    /\ At(c, p, "exitWake")
    /\ WakeupOne(c, widx[c], parent[p])
    /\ Goto(p, IF widx[c] = NPROC THEN "exitZombie" ELSE "exitWake")
    /\ UNCHANGED <<chan, killed, parent, pid, ret, idx, arg, cproc, sidx, intr,
                   lockVars, nextpid, ticks>>

\* Mutant: exit() calls sched() without releasing wait_lock.
ExitZombieKeepsLock(c, p) ==
    /\ At(c, p, "exitZombie") /\ Free(p)
    /\ plock' = [plock EXCEPT ![p] = c]
    /\ state' = [state EXCEPT ![p] = "ZOMBIE"]
    /\ Goto(p, "sched")
    /\ UNCHANGED <<chan, killed, parent, pid, ret, idx, arg, cpuVars,
                   wait_lock, tickslock, nextpid, ticks>>

\* acquire(&p->lock); p->state = ZOMBIE; release(&wait_lock); sched().
ExitZombie(c, p) ==
    /\ At(c, p, "exitZombie") /\ Free(p)
    /\ plock' = [plock EXCEPT ![p] = c]
    /\ state' = [state EXCEPT ![p] = "ZOMBIE"]
    /\ wait_lock' = NoCpu
    /\ Goto(p, "sched")
    /\ UNCHANGED <<chan, killed, parent, pid, ret, idx, arg, cpuVars,
                   tickslock, nextpid, ticks>>

-----------------------------------------------------------------------------
(* wait() *)

\* acquire(&wait_lock), on entry and again at the end of sleep().
WaitLock(c, p) ==
    /\ \E l \in {"wait", "waitLock"} : At(c, p, l)
    /\ wait_lock = NoCpu
    /\ wait_lock' = c
    /\ Goto(p, "waitScan")
    /\ UNCHANGED <<procVars, ret, idx, arg, cpuVars, plock, tickslock, nextpid,
                   ticks>>

\* Mutant: wait() does not acquire pp->lock.
WaitScanNoLock(c, p) ==
    LET pp == idx[p] IN
    /\ At(c, p, "waitScan")
    /\ \/ /\ parent[pp] # p \/ state[pp] # "ZOMBIE"
          /\ idx' = [idx EXCEPT ![p] = Advance(pp)]
          /\ Goto(p, IF pp = NPROC THEN "waitEnd" ELSE "waitScan")
          /\ UNCHANGED <<procVars, wait_lock>>
       \/ /\ parent[pp] = p /\ state[pp] = "ZOMBIE"
          /\ FreeProc(pp)
          /\ pc' = [pc EXCEPT ![pp] = "none", ![p] = "sysret"]
          /\ idx' = [idx EXCEPT ![p] = 1]
          /\ wait_lock' = NoCpu
       \/ /\ parent[pp] = p /\ state[pp] = "ZOMBIE"
          /\ Goto(p, "sysret")
          /\ idx' = [idx EXCEPT ![p] = 1]
          /\ wait_lock' = NoCpu
          /\ UNCHANGED procVars
    /\ UNCHANGED <<ret, arg, cpuVars, plock, tickslock, nextpid, ticks>>

\* wait() at slot idx[p].  A ZOMBIE child is freed and wait() returns; when
\* copyout() of the status fails, wait() returns and the child stays.
WaitScan(c, p) ==
    LET pp == idx[p] IN
    /\ At(c, p, "waitScan")
    /\ parent[pp] = p => Free(pp)
    /\ \/ /\ parent[pp] # p \/ state[pp] # "ZOMBIE"
          /\ idx' = [idx EXCEPT ![p] = Advance(pp)]
          /\ Goto(p, IF pp = NPROC THEN "waitEnd" ELSE "waitScan")
          /\ UNCHANGED <<procVars, wait_lock>>
       \/ /\ parent[pp] = p /\ state[pp] = "ZOMBIE"
          /\ FreeProc(pp)
          /\ pc' = [pc EXCEPT ![pp] = "none", ![p] = "sysret"]
          /\ idx' = [idx EXCEPT ![p] = 1]
          /\ wait_lock' = NoCpu
       \/ /\ parent[pp] = p /\ state[pp] = "ZOMBIE"
          /\ Goto(p, "sysret")
          /\ idx' = [idx EXCEPT ![p] = 1]
          /\ wait_lock' = NoCpu
          /\ UNCHANGED procVars
    /\ UNCHANGED <<ret, arg, cpuVars, plock, tickslock, nextpid, ticks>>

\* After the scan: return if p has no children or was killed.  havekids is
\* read off parent, which wait_lock has kept as the scan saw it.
WaitEnd(c, p) ==
    LET havekids == \E pp \in Proc : parent[pp] = p IN
    /\ At(c, p, "waitEnd") /\ Free(p)
    /\ IF ~havekids \/ killed[p]
       THEN Goto(p, "sysret") /\ wait_lock' = NoCpu
       ELSE Goto(p, "waitSleep") /\ UNCHANGED wait_lock
    /\ UNCHANGED <<procVars, ret, idx, arg, cpuVars, plock, tickslock, nextpid,
                   ticks>>

\* sleep(p, &wait_lock).
WaitSleep(c, p) ==
    /\ At(c, p, "waitSleep")
    /\ GoToSleep(p, c, p, "waitLock")
    /\ wait_lock' = NoCpu
    /\ UNCHANGED <<killed, parent, pid, idx, arg, cpuVars, tickslock, nextpid,
                   ticks>>

-----------------------------------------------------------------------------
(* sys_sleep() *)

\* acquire(&tickslock); ticks0 = ticks on entry.
SleepLock(c, p) ==
    /\ \E l \in {"sleep", "sleepLock"} : At(c, p, l)
    /\ tickslock = NoCpu
    /\ tickslock' = c
    /\ arg' = IF pc[p] = "sleep" THEN [arg EXCEPT ![p] = ticks] ELSE arg
    /\ Goto(p, "sleepTest")
    /\ UNCHANGED <<procVars, ret, idx, cpuVars, plock, wait_lock, nextpid, ticks>>

\* while(ticks - ticks0 < n) in unsigned arithmetic, and killed(p).
SleepTest(c, p) ==
    LET elapsed == (ticks - arg[p]) % TickMod IN
    /\ At(c, p, "sleepTest")
    /\ elapsed < SleepTicks => Free(p)
    /\ IF elapsed < SleepTicks /\ ~killed[p]
       THEN Goto(p, "sleepSleep") /\ UNCHANGED <<arg, tickslock>>
       ELSE /\ Goto(p, "sysret")
            /\ arg' = [arg EXCEPT ![p] = 0]
            /\ tickslock' = NoCpu
    /\ UNCHANGED <<procVars, ret, idx, cpuVars, plock, wait_lock, nextpid, ticks>>

\* sleep(&ticks, &tickslock).
SleepSleep(c, p) ==
    /\ At(c, p, "sleepSleep")
    /\ GoToSleep(p, c, TicksChan, "sleepLock")
    /\ tickslock' = NoCpu
    /\ UNCHANGED <<killed, parent, pid, idx, arg, cpuVars, wait_lock, nextpid,
                   ticks>>

-----------------------------------------------------------------------------
(* Timer interrupts *)

\* Interrupts are on: in the scheduler loop, in user space, or in the
\* kernel with no lock held; and no handler runs.
Interruptible(c) ==
    /\ intr[c] = "none"
    /\ cproc[c] # NoProc => pc[cproc[c]] \in OpenPcs

\* clockintr() on hart 0: acquire(&tickslock); ticks++; wakeup(&ticks).
ClockIntr(c) ==
    /\ c = 0 /\ c \in TimerCPUs /\ Interruptible(c) /\ tickslock = NoCpu
    /\ tickslock' = c
    /\ ticks' = (ticks + 1) % TickMod
    /\ intr' = [intr EXCEPT ![c] = "clock"]
    /\ UNCHANGED <<procVars, threadVars, cproc, sidx, widx, plock, wait_lock,
                   nextpid>>

\* The loop of wakeup(&ticks), then release(&tickslock).  With no process
\* on the CPU kerneltrap() returns; otherwise it goes on to yield().
ClockWake(c) ==
    LET last == widx[c] = NPROC IN
    /\ intr[c] = "clock"
    /\ WakeupOne(c, widx[c], TicksChan)
    /\ tickslock' = IF last THEN NoCpu ELSE tickslock
    /\ intr' = [intr EXCEPT ![c] = IF ~last THEN "clock"
                                   ELSE IF cproc[c] = NoProc THEN "none"
                                   ELSE "yield"]
    /\ UNCHANGED <<chan, killed, parent, pid, threadVars, cproc, sidx, plock,
                   wait_lock, nextpid, ticks>>

\* The end of a timer trap with process p on the CPU: usertrap() lets a
\* killed process exit, otherwise yield().  Harts other than 0 come here at
\* once.
TimerYield(c, p) ==
    /\ cproc[c] = p /\ Free(p)
    /\ intr[c] = "yield" \/ (c # 0 /\ c \in TimerCPUs /\ Interruptible(c))
    /\ intr' = [intr EXCEPT ![c] = "none"]
    /\ IF pc[p] = "user" /\ killed[p]
       THEN Goto(p, "exit") /\ UNCHANGED <<state, plock, ret>>
       ELSE /\ state' = [state EXCEPT ![p] = "RUNNABLE"]
            /\ plock' = [plock EXCEPT ![p] = c]
            /\ ret' = [ret EXCEPT ![p] = pc[p]]
            /\ Goto(p, "sched")
    /\ UNCHANGED <<chan, killed, parent, pid, idx, arg, cproc, sidx, widx,
                   wait_lock, tickslock, nextpid, ticks>>

-----------------------------------------------------------------------------
\* The steps of p's thread from sched() to the point where it goes on.
SwitchStep(c, p) ==
    Sched(c, p) \/ Forkret(c, p) \/ Yielded(c, p) \/ Slept(c, p)

\* The steps of p's thread inside a system call.
CallStep(c, p) ==
    \/ Sysret(c, p) \/ ForkAlloc(c, p) \/ ForkParent(c, p) \/ ForkRun(c, p)
    \/ Kill(c, p)
    \/ Exit(c, p) \/ Reparent(c, p) \/ ReparentWake(c, p) \/ ExitWake(c, p)
    \/ ExitZombie(c, p)
    \/ WaitLock(c, p) \/ WaitScan(c, p) \/ WaitEnd(c, p) \/ WaitSleep(c, p)
    \/ SleepLock(c, p) \/ SleepTest(c, p) \/ SleepSleep(c, p)

Next ==
    \E c \in CPU :
        \/ Scheduler(c)
        \/ ClockIntr(c)
        \/ ClockWake(c)
        \/ \E p \in Proc :
              \/ SwitchStep(c, p)
              \/ CallStep(c, p)
              \/ TimerYield(c, p)
              \/ \E call \in Calls : Trap(c, p, call)

Spec == Init /\ [][Next]_vars

\* Fairness.  Every CPU keeps executing: it scans the table, finishes its
\* handlers and context switches, and spins in acquire() until it gets the
\* lock (SF, because others may take the lock in between).  A system call
\* advances although timer interrupts keep coming: the interval is far longer
\* than a step.  The timer of every hart of TimerCPUs keeps interrupting.
\* User programs are not made to call anything.
Fairness ==
    /\ \A c \in CPU :
          /\ SF_vars(Scheduler(c))
          /\ SF_vars(ClockWake(c) \/ \E p \in Proc : SwitchStep(c, p))
          /\ SF_vars(ClockIntr(c))
          /\ SF_vars(\E p \in Proc : TimerYield(c, p))
    /\ \A p \in Proc : SF_vars(\E c \in CPU : CallStep(c, p))

FairSpec == Spec /\ Fairness
-----------------------------------------------------------------------------
(* Properties *)

\* Type invariant of the process table, the threads, the CPUs and the locks.
TypeOK ==
    /\ state \in [Proc -> PStates]
    /\ chan \in [Proc -> Proc \cup {NoChan, TicksChan}]
    /\ killed \in [Proc -> BOOLEAN]
    /\ parent \in [Proc -> Proc \cup {NoProc}]
    /\ pid \in [Proc -> Nat]
    /\ pc \in [Proc -> Pcs]
    /\ ret \in [Proc -> Pcs]
    /\ idx \in [Proc -> Proc]
    /\ arg \in [Proc -> Nat]
    /\ cproc \in [CPU -> Proc \cup {NoProc}]
    /\ sidx \in [CPU -> Proc]
    /\ intr \in [CPU -> {"none", "clock", "yield"}]
    /\ widx \in [CPU -> Proc]
    /\ plock \in [Proc -> CPU \cup {NoCpu}]
    /\ wait_lock \in CPU \cup {NoCpu}
    /\ tickslock \in CPU \cup {NoCpu}
    /\ nextpid \in Nat
    /\ ticks \in Nat

\* One kernel stack per process: a process is on at most one CPU, it is
\* RUNNING exactly while it is on a CPU, except between its change of state
\* and swtch(), where the CPU still holds its p->lock.
OneCpuPerProc ==
    \A p \in Proc :
        /\ \A c, d \in CPU : cproc[c] = p /\ cproc[d] = p => c = d
        /\ state[p] = "RUNNING" => \E c \in CPU : cproc[c] = p
        /\ \A c \in CPU : cproc[c] = p /\ state[p] # "RUNNING" =>
                pc[p] = "sched" /\ plock[p] = c

\* No panic in sched(): its caller holds p->lock and no other lock, has
\* changed p->state, and no handler is running on the CPU; and an exited
\* process is never switched to again ("zombie exit").
SchedPrecondition ==
    \A c \in CPU, p \in Proc :
        /\ At(c, p, "sched") =>
              /\ plock[p] = c /\ state[p] # "RUNNING"
              /\ \A q \in Proc \ {p} : plock[q] # c
              /\ wait_lock # c /\ tickslock # c
        /\ cproc[c] = p => pc[p] \notin {"dead", "none"}

\* wait() does not miss an exit: while no exit() is in its wait_lock section,
\* a process asleep in wait() has no ZOMBIE child, be it its own or one
\* given to init when its parent exited.
NoLostExit ==
    wait_lock = NoCpu => \A p, k \in Proc :
        ~(state[p] = "SLEEPING" /\ chan[p] = p
            /\ parent[k] = p /\ state[k] = "ZOMBIE")

\* Every exited process can be reaped: its parent is a process that has not
\* exited, so no slot is lost.
ZombieHasParent ==
    \A k \in Proc : state[k] = "ZOMBIE" =>
        /\ parent[k] # NoProc
        /\ state[parent[k]] \in {"SLEEPING", "RUNNABLE", "RUNNING"}

\* The lock that the next step of CPU c acquires: p stands for p->lock.
WaitLk == NPROC + 1
TicksLk == NPROC + 2
NoLk == 0
NextLock(c) ==
    LET p == cproc[c]
        wake == IF widx[c] # p THEN widx[c] ELSE NoLk
        elapsed == (ticks - arg[p]) % TickMod
    IN
    CASE intr[c] = "clock" -> wake
      [] intr[c] = "yield" -> p
      [] intr[c] = "none" /\ p = NoProc -> sidx[c]
      [] OTHER ->
         CASE pc[p] \in {"exitZombie", "waitEnd", "waitSleep", "sleepSleep",
                         "sysret"} -> p
           [] pc[p] \in {"fork", "kill"} -> idx[p]
           [] pc[p] = "forkRun" -> arg[p]
           [] pc[p] \in {"forkParent", "exit", "wait", "waitLock"} -> WaitLk
           [] pc[p] \in {"sleep", "sleepLock"} -> TicksLk
           [] pc[p] \in {"reparentWake", "exitWake"} -> wake
           [] pc[p] = "waitScan" /\ parent[idx[p]] = p -> idx[p]
           [] pc[p] = "sleepTest" /\ elapsed < SleepTicks -> p
           [] pc[p] = "sched" /\ SchedStampsTicks -> TicksLk
           [] OTHER -> NoLk

Owner(l) == CASE l = NoLk -> NoCpu
              [] l = WaitLk -> wait_lock
              [] l = TicksLk -> tickslock
              [] OTHER -> plock[l]

\* No deadlock among spinning CPUs: there is no set of CPUs in which each
\* one spins in acquire() on a lock held by another one of the set (or by
\* itself, which is the panic of acquire()).
NoLockCycle ==
    \A S \in (SUBSET CPU) \ {{}} : \E c \in S : Owner(NextLock(c)) \notin S

\* Round robin does not starve: scheduler() reaches every RUNNABLE process,
\* although every other process may compute for ever.
RunnableRuns ==
    \A p \in Proc : (state[p] = "RUNNABLE") ~> (state[p] = "RUNNING")

\* A parent asleep in wait() returns from it once a child starts exit().
WaitReturns ==
    \A p \in Proc :
        (/\ state[p] = "SLEEPING" /\ chan[p] = p
         /\ \E k \in Proc : parent[k] = p /\ pc[k] = "exit") ~> (pc[p] = "sysret")

-----------------------------------------------------------------------------
(* The inductive invariant of the proofs in ProcProofs *)

\* The point of the kernel a thread will be at when it has the CPU again.
Point(p) == IF pc[p] \in {"sched", "slept", "yielded"} THEN ret[p] ELSE pc[p]

\* c->proc: no process is on two CPUs.
OneCpuInv ==
    \A c, d \in CPU : cproc[c] # NoProc /\ cproc[c] = cproc[d] => c = d

\* A thread on a CPU is RUNNING until it has called sched().
OnCpuInv ==
    \A c \in CPU, p \in Proc : cproc[c] = p =>
        \/ pc[p] = "sched" /\ state[p] \in {"SLEEPING", "RUNNABLE", "ZOMBIE"}
        \/ pc[p] \notin {"sched", "dead", "none"} /\ state[p] = "RUNNING"

\* A thread that is on no CPU is where its state says.
OffCpuInv ==
    \A p \in Proc :
        \/ \E c \in CPU : cproc[c] = p
        \/ state[p] = "UNUSED"   /\ pc[p] = "none"
        \/ state[p] = "USED"     /\ pc[p] = "forkret"
        \/ state[p] = "RUNNABLE" /\ pc[p] \in {"forkret", "slept", "yielded"}
        \/ state[p] = "SLEEPING" /\ pc[p] = "slept"
        \/ state[p] = "ZOMBIE"   /\ pc[p] = "dead"

\* p->lock is held exactly by a CPU that executes p between scheduler()'s
\* acquire and the thread's release, or between sched() and swtch().
PLockInv ==
    /\ \A p \in Proc : plock[p] # NoCpu => cproc[plock[p]] = p /\ pc[p] \in PLockPcs
    /\ \A c \in CPU, p \in Proc : cproc[c] = p /\ pc[p] \in PLockPcs => plock[p] = c

\* wait_lock is held exactly inside its sections.
WaitLockInv ==
    /\ wait_lock # NoCpu =>
          cproc[wait_lock] \in Proc /\ pc[cproc[wait_lock]] \in WaitLockPcs
    /\ \A c \in CPU, p \in Proc : cproc[c] = p /\ pc[p] \in WaitLockPcs => wait_lock = c

\* tickslock is held exactly by clockintr() and inside sys_sleep().
TicksLockInv ==
    /\ tickslock # NoCpu =>
          \/ intr[tickslock] = "clock"
          \/ cproc[tickslock] \in Proc /\ pc[cproc[tickslock]] \in TicksLockPcs
    /\ \A c \in CPU : intr[c] = "clock" => tickslock = c
    /\ \A c \in CPU, p \in Proc : cproc[c] = p /\ pc[p] \in TicksLockPcs => tickslock = c

\* A trap handler runs only over code that holds no lock.
IntrInv ==
    \A c \in CPU :
        /\ intr[c] = "yield" => cproc[c] \in Proc
        /\ \A p \in Proc : intr[c] # "none" /\ cproc[c] = p => pc[p] \in OpenPcs

\* A thread that gave up the CPU resumes outside every section.
RetOk(p) ==
    /\ pc[p] \in {"slept", "yielded"} => ret[p] \in OpenPcs
    /\ pc[p] = "sched" /\ state[p] # "ZOMBIE" => ret[p] \in OpenPcs
    /\ pc[p] = "sched" /\ state[p] = "ZOMBIE" => ret[p] = "none"
    /\ pc[p] \notin {"sched", "slept", "yielded"} => ret[p] = "none"
RetInv == \A p \in Proc : RetOk(p)

\* The slot a fork() is filling is USED, and no other fork() fills it.
Forking(p) == Point(p) \in {"forkParent", "forkRun"}
ForkInv ==
    /\ \A p \in Proc : Forking(p) => arg[p] \in Proc /\ state[arg[p]] = "USED"
    /\ \A p, q \in Proc : Forking(p) /\ Forking(q) /\ arg[p] = arg[q] => p = q

\* Together with the types, they are preserved by every step.
IndInv ==
    /\ TypeOK
    /\ OneCpuInv /\ OnCpuInv /\ OffCpuInv
    /\ PLockInv /\ WaitLockInv /\ TicksLockInv /\ IntrInv
    /\ RetInv /\ ForkInv
=============================================================================
