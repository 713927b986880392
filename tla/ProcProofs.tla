----------------------------- MODULE ProcProofs -----------------------------
(***************************************************************************)
(* Proofs about module Proc, for every number of CPUs and process slots.   *)
(*                                                                         *)
(* The inductive invariant is IndInv of module Proc: which point of the    *)
(* code each process and each CPU is at determines which locks it holds,   *)
(* and conversely every lock that is held is accounted for by exactly one  *)
(* such point.  One lemma per action of Next shows that the action         *)
(* preserves it; each has the same steps, one per part of IndInv.          *)
(*                                                                         *)
(* On top of it stands FamilyInv, about parents and children: the table    *)
(* that wait(), exit() and reparent() scan slot by slot while others fork, *)
(* exit and are woken.  Again one lemma per action.                        *)
(***************************************************************************)
EXTENDS Proc, TLAPS

\* The values that stand for "no process", "no CPU" and the channels are
\* distinct from the real ones, and the scan index stays in the table.
LEMMA Consts ==
    /\ NoProc \notin Proc
    /\ NoCpu \notin CPU
    /\ initproc \in Proc /\ 1 \in Proc
    /\ TicksChan \notin Proc
    /\ NoChan \notin Proc
    /\ Proc \subseteq Nat
    /\ 0 \in Nat
    /\ \A i \in Proc : Advance(i) \in Proc
  BY ProcAssumption DEF ProcAssumption, NoProc, Proc, NoCpu, CPU, initproc,
        TicksChan, NoChan, Advance

\* Whoever acquires the lock of a slot that is not RUNNING finds a process
\* that no CPU is executing: the scheduler may run it, wait() may free it.
LEMMA FreeOffCpu ==
    ASSUME IndInv, NEW q \in Proc, plock[q] = NoCpu, state[q] # "RUNNING"
    PROVE  /\ \A d \in CPU : cproc[d] # q
           /\ state[q] = "UNUSED" => pc[q] = "none"
           /\ state[q] = "USED" => pc[q] = "forkret"
           /\ state[q] = "ZOMBIE" => pc[q] = "dead"
           /\ state[q] = "SLEEPING" => pc[q] = "slept"
<1>1. ASSUME NEW d \in CPU, cproc[d] = q PROVE FALSE
  <2>1. pc[q] = "sched"
    BY <1>1 DEF IndInv, OnCpuInv
  <2>2. plock[q] = d
    BY <1>1, <2>1 DEF IndInv, PLockInv, PLockPcs
  <2> QED BY <2>2, Consts
<1> QED BY <1>1 DEF IndInv, OffCpuInv

\* A step that does not touch tickslock, and moves no process into or out of
\* a section it protects, preserves the ownership of tickslock.
LEMMA TicksFrame ==
    ASSUME TypeOK, TicksLockInv, UNCHANGED <<cproc, tickslock>>,
           \A d \in CPU : intr'[d] = "clock" <=> intr[d] = "clock",
           \A q \in Proc : pc'[q] = pc[q]
               \/ (pc[q] \notin TicksLockPcs /\ pc'[q] \notin TicksLockPcs)
    PROVE  TicksLockInv'
  BY Consts DEF TicksLockInv, TypeOK

\* The same for wait_lock.
LEMMA WaitFrame ==
    ASSUME TypeOK, WaitLockInv, UNCHANGED <<cproc, wait_lock>>,
           \A q \in Proc : pc'[q] = pc[q]
               \/ (pc[q] \notin WaitLockPcs /\ pc'[q] \notin WaitLockPcs)
    PROVE  WaitLockInv'
  BY Consts DEF WaitLockInv, TypeOK

\* Forkret preserves the invariant: the first return of a new process from
\* the scheduler.
LEMMA ForkretPreserves ==
    ASSUME IndInv, NEW c \in CPU, NEW p \in Proc, Forkret(c, p)
    PROVE  IndInv'
<1> USE Consts DEF IndInv, TypeOK, Forkret, At, Goto, procVars, threadVars,
      cpuVars, lockVars, Pcs, OpenPcs, PLockPcs, WaitLockPcs, TicksLockPcs
<1>0. idx[p] \in Proc /\ Advance(idx[p]) \in Proc
  OBVIOUS
<1>1. TypeOK'
  BY <1>0, ProcAssumption DEF ProcAssumption
<1>2. OneCpuInv'
  BY DEF OneCpuInv, OnCpuInv
<1>3. OnCpuInv' /\ OffCpuInv'
  BY DEF OneCpuInv, OnCpuInv, OffCpuInv, PLockInv, IntrInv, RetInv, RetOk,
        ForkInv, Forking, Point
<1>4. PLockInv'
  BY DEF OneCpuInv, OnCpuInv, OffCpuInv, PLockInv, IntrInv, RetInv, RetOk
<1>5. WaitLockInv'
  BY DEF OneCpuInv, OnCpuInv, OffCpuInv, PLockInv, WaitLockInv, RetInv, RetOk
<1>6. TicksLockInv'
  BY DEF OneCpuInv, OnCpuInv, OffCpuInv, PLockInv, TicksLockInv, RetInv,
        RetOk, IntrInv
<1>7. IntrInv'
  BY DEF OneCpuInv, OnCpuInv, IntrInv
<1>8. RetInv'
  BY DEF RetInv, RetOk
<1>9. ForkInv'
  BY DEF OneCpuInv, OnCpuInv, OffCpuInv, PLockInv, RetInv, RetOk, ForkInv,
        Forking, Point
<1> QED BY <1>1, <1>2, <1>3, <1>4, <1>5, <1>6, <1>7, <1>8, <1>9

\* Yielded preserves the invariant: the second half of yield(), back from the
\* scheduler.
LEMMA YieldedPreserves ==
    ASSUME IndInv, NEW c \in CPU, NEW p \in Proc, Yielded(c, p)
    PROVE  IndInv'
<1> USE Consts DEF IndInv, TypeOK, Yielded, At, Goto, procVars, threadVars,
      cpuVars, lockVars, Pcs, OpenPcs, PLockPcs, WaitLockPcs, TicksLockPcs
<1>0. idx[p] \in Proc /\ Advance(idx[p]) \in Proc
  OBVIOUS
<1>1. TypeOK'
  BY <1>0, ProcAssumption DEF ProcAssumption
<1>2. OneCpuInv'
  BY DEF OneCpuInv, OnCpuInv
<1>3. OnCpuInv' /\ OffCpuInv'
  BY DEF OneCpuInv, OnCpuInv, OffCpuInv, PLockInv, IntrInv, RetInv, RetOk,
        ForkInv, Forking, Point
<1>4. PLockInv'
  BY DEF OneCpuInv, OnCpuInv, OffCpuInv, PLockInv, IntrInv, RetInv, RetOk
<1>5. WaitLockInv'
  BY DEF OneCpuInv, OnCpuInv, OffCpuInv, PLockInv, WaitLockInv, RetInv, RetOk
<1>6. TicksLockInv'
  BY DEF OneCpuInv, OnCpuInv, OffCpuInv, PLockInv, TicksLockInv, RetInv,
        RetOk, IntrInv
<1>7. IntrInv'
  BY DEF OneCpuInv, OnCpuInv, IntrInv
<1>8. RetInv'
  BY DEF RetInv, RetOk
<1>9. ForkInv'
  BY DEF OneCpuInv, OnCpuInv, OffCpuInv, PLockInv, RetInv, RetOk, ForkInv,
        Forking, Point
<1> QED BY <1>1, <1>2, <1>3, <1>4, <1>5, <1>6, <1>7, <1>8, <1>9

\* Slept preserves the invariant: the second half of sleep(), back from the
\* scheduler.
LEMMA SleptPreserves ==
    ASSUME IndInv, NEW c \in CPU, NEW p \in Proc, Slept(c, p)
    PROVE  IndInv'
<1> USE Consts DEF IndInv, TypeOK, Slept, At, Goto, procVars, threadVars,
      cpuVars, lockVars, Pcs, OpenPcs, PLockPcs, WaitLockPcs, TicksLockPcs
<1>0. idx[p] \in Proc /\ Advance(idx[p]) \in Proc
  OBVIOUS
<1>1. TypeOK'
  BY <1>0, ProcAssumption DEF ProcAssumption
<1>2. OneCpuInv'
  BY DEF OneCpuInv, OnCpuInv
<1>3. OnCpuInv' /\ OffCpuInv'
  BY DEF OneCpuInv, OnCpuInv, OffCpuInv, PLockInv, IntrInv, RetInv, RetOk,
        ForkInv, Forking, Point
<1>4. PLockInv'
  BY DEF OneCpuInv, OnCpuInv, OffCpuInv, PLockInv, IntrInv, RetInv, RetOk
<1>5. WaitLockInv'
  BY DEF OneCpuInv, OnCpuInv, OffCpuInv, PLockInv, WaitLockInv, RetInv, RetOk
<1>6. TicksLockInv'
  BY DEF OneCpuInv, OnCpuInv, OffCpuInv, PLockInv, TicksLockInv, RetInv,
        RetOk, IntrInv
<1>7. IntrInv'
  BY DEF OneCpuInv, OnCpuInv, IntrInv
<1>8. RetInv'
  BY DEF RetInv, RetOk
<1>9. ForkInv'
  BY DEF OneCpuInv, OnCpuInv, OffCpuInv, PLockInv, RetInv, RetOk, ForkInv,
        Forking, Point
<1> QED BY <1>1, <1>2, <1>3, <1>4, <1>5, <1>6, <1>7, <1>8, <1>9

\* Sched preserves the invariant: sched() switching to the scheduler of its
\* CPU.
LEMMA SchedPreserves ==
    ASSUME IndInv, NEW c \in CPU, NEW p \in Proc, Sched(c, p)
    PROVE  IndInv'
<1> USE Consts DEF IndInv, TypeOK, Sched, Resume, At, Goto, procVars,
      threadVars, cpuVars, lockVars, Pcs, OpenPcs, PLockPcs, WaitLockPcs,
      TicksLockPcs
<1>0. idx[p] \in Proc /\ Advance(idx[p]) \in Proc
  OBVIOUS
<1>1. TypeOK'
  BY <1>0, ProcAssumption DEF ProcAssumption
<1>2. OneCpuInv'
  BY DEF OneCpuInv, OnCpuInv
<1>3. OnCpuInv' /\ OffCpuInv'
  BY DEF OneCpuInv, OnCpuInv, OffCpuInv, PLockInv, IntrInv, RetInv, RetOk,
        ForkInv, Forking, Point
<1>4. PLockInv'
  BY DEF OneCpuInv, OnCpuInv, OffCpuInv, PLockInv, IntrInv, RetInv, RetOk
<1>5. WaitLockInv'
  BY DEF OneCpuInv, OnCpuInv, OffCpuInv, PLockInv, WaitLockInv, RetInv, RetOk
<1>6. TicksLockInv'
  BY DEF OneCpuInv, OnCpuInv, OffCpuInv, PLockInv, TicksLockInv, RetInv,
        RetOk, IntrInv
<1>7. IntrInv'
  BY DEF OneCpuInv, OnCpuInv, IntrInv
<1>8. RetInv'
  BY DEF RetInv, RetOk, OnCpuInv
<1>9. ForkInv'
  BY DEF OneCpuInv, OnCpuInv, OffCpuInv, PLockInv, RetInv, RetOk, ForkInv,
        Forking, Point
<1> QED BY <1>1, <1>2, <1>3, <1>4, <1>5, <1>6, <1>7, <1>8, <1>9

\* Sysret preserves the invariant: usertrap() on its way back to user mode.
LEMMA SysretPreserves ==
    ASSUME IndInv, NEW c \in CPU, NEW p \in Proc, Sysret(c, p)
    PROVE  IndInv'
<1> USE Consts DEF IndInv, TypeOK, Sysret, Free, At, Goto, procVars,
      threadVars, cpuVars, lockVars, Pcs, OpenPcs, PLockPcs, WaitLockPcs,
      TicksLockPcs
<1>0. idx[p] \in Proc /\ Advance(idx[p]) \in Proc
  OBVIOUS
<1>1. TypeOK'
  BY <1>0, ProcAssumption DEF ProcAssumption
<1>2. OneCpuInv'
  BY DEF OneCpuInv, OnCpuInv
<1>3. OnCpuInv' /\ OffCpuInv'
  BY DEF OneCpuInv, OnCpuInv, OffCpuInv, PLockInv, IntrInv, RetInv, RetOk,
        ForkInv, Forking, Point
<1>4. PLockInv'
  BY DEF OneCpuInv, OnCpuInv, OffCpuInv, PLockInv, IntrInv, RetInv, RetOk
<1>5. WaitLockInv'
  BY DEF OneCpuInv, OnCpuInv, OffCpuInv, PLockInv, WaitLockInv, RetInv, RetOk
<1>6. TicksLockInv'
  BY DEF OneCpuInv, OnCpuInv, OffCpuInv, PLockInv, TicksLockInv, RetInv,
        RetOk, IntrInv
<1>7. IntrInv'
  BY DEF OneCpuInv, OnCpuInv, IntrInv
<1>8. RetInv'
  BY DEF RetInv, RetOk
<1>9. ForkInv'
  BY DEF OneCpuInv, OnCpuInv, OffCpuInv, PLockInv, RetInv, RetOk, ForkInv,
        Forking, Point
<1> QED BY <1>1, <1>2, <1>3, <1>4, <1>5, <1>6, <1>7, <1>8, <1>9

\* ForkAlloc preserves the invariant: allocproc() as fork() calls it.
LEMMA ForkAllocPreserves ==
    ASSUME IndInv, NEW c \in CPU, NEW p \in Proc, ForkAlloc(c, p)
    PROVE  IndInv'
<1> USE Consts DEF IndInv, TypeOK, ForkAlloc, Free, FreeProc, PStates, At,
      Goto, procVars, threadVars, cpuVars, lockVars, Pcs, OpenPcs, PLockPcs,
      WaitLockPcs, TicksLockPcs
<1>0. idx[p] \in Proc /\ Advance(idx[p]) \in Proc
  OBVIOUS
<1>1. TypeOK'
  <2>1. CASE state[idx[p]] # "UNUSED"
    BY <1>0, <2>1
  <2>2. CASE state[idx[p]] = "UNUSED"
    <3>1. idx' \in [Proc -> Proc] /\ pc' \in [Proc -> Pcs]
      BY <1>0, <2>2
    <3>2. state' \in [Proc -> PStates] /\ nextpid' \in Nat /\ pid' \in [Proc -> Nat]
      BY <1>0, <2>2
    <3>3. chan' \in [Proc -> Proc \cup {NoChan, TicksChan}]
      BY <1>0, <2>2
    <3>4. killed' \in [Proc -> BOOLEAN]
      BY <1>0, <2>2
    <3>5. parent' \in [Proc -> Proc \cup {NoProc}]
      BY <1>0, <2>2
    <3>6. arg' \in [Proc -> Nat]
      BY <1>0, <2>2
    <3> QED BY <3>1, <3>2, <3>3, <3>4, <3>5, <3>6
  <2> QED BY <2>1, <2>2
<1>2. OneCpuInv'
  BY DEF OneCpuInv, OnCpuInv
<1>3. OnCpuInv' /\ OffCpuInv'
  BY DEF OneCpuInv, OnCpuInv, OffCpuInv, PLockInv, IntrInv, RetInv, RetOk,
        ForkInv, Forking, Point
<1>4. PLockInv'
  BY DEF OneCpuInv, OnCpuInv, OffCpuInv, PLockInv, IntrInv, RetInv, RetOk
<1>5. WaitLockInv'
  <2>0. state[idx[p]] = "UNUSED" => pc[idx[p]] = "none"
    BY <1>0, FreeOffCpu
  <2>1. \A q \in Proc : pc'[q] = pc[q]
              \/ (pc[q] \notin WaitLockPcs /\ pc'[q] \notin WaitLockPcs)
    BY <1>0, <2>0 DEF OnCpuInv, IntrInv
  <2>2. UNCHANGED <<cproc, wait_lock>>
    OBVIOUS
  <2> QED BY <2>1, <2>2, WaitFrame
<1>6. TicksLockInv'
  <2>0. state[idx[p]] = "UNUSED" => pc[idx[p]] = "none"
    BY <1>0, FreeOffCpu
  <2>1. \A q \in Proc : pc'[q] = pc[q]
              \/ (pc[q] \notin TicksLockPcs /\ pc'[q] \notin TicksLockPcs)
    BY <1>0, <2>0 DEF OnCpuInv, IntrInv
  <2>2. /\ UNCHANGED <<cproc, tickslock>>
        /\ \A d \in CPU : intr'[d] = "clock" <=> intr[d] = "clock"
    OBVIOUS
  <2> QED BY <2>1, <2>2, TicksFrame
<1>7. IntrInv'
  BY DEF OneCpuInv, OnCpuInv, IntrInv
<1>8. RetInv'
  BY DEF RetInv, RetOk, OnCpuInv, OffCpuInv, ForkInv, Forking, Point
<1>9. ForkInv'
  BY DEF OneCpuInv, OnCpuInv, OffCpuInv, PLockInv, RetInv, RetOk, ForkInv,
        Forking, Point
<1> QED BY <1>1, <1>2, <1>3, <1>4, <1>5, <1>6, <1>7, <1>8, <1>9

\* ForkParent preserves the invariant: fork() setting the parent under
\* wait_lock.
LEMMA ForkParentPreserves ==
    ASSUME IndInv, NEW c \in CPU, NEW p \in Proc, ForkParent(c, p)
    PROVE  IndInv'
<1> USE Consts DEF IndInv, TypeOK, ForkParent, At, Goto, procVars,
      threadVars, cpuVars, lockVars, Pcs, OpenPcs, PLockPcs, WaitLockPcs,
      TicksLockPcs
<1>0. idx[p] \in Proc /\ Advance(idx[p]) \in Proc
  OBVIOUS
<1>1. TypeOK'
  BY <1>0, ProcAssumption DEF ProcAssumption
<1>2. OneCpuInv'
  BY DEF OneCpuInv, OnCpuInv
<1>3. OnCpuInv' /\ OffCpuInv'
  BY DEF OneCpuInv, OnCpuInv, OffCpuInv, PLockInv, IntrInv, RetInv, RetOk,
        ForkInv, Forking, Point
<1>4. PLockInv'
  BY DEF OneCpuInv, OnCpuInv, OffCpuInv, PLockInv, IntrInv, RetInv, RetOk
<1>5. WaitLockInv'
  BY DEF OneCpuInv, OnCpuInv, OffCpuInv, PLockInv, WaitLockInv, RetInv, RetOk
<1>6. TicksLockInv'
  BY DEF OneCpuInv, OnCpuInv, OffCpuInv, PLockInv, TicksLockInv, RetInv,
        RetOk, IntrInv
<1>7. IntrInv'
  BY DEF OneCpuInv, OnCpuInv, IntrInv
<1>8. RetInv'
  BY DEF RetInv, RetOk
<1>9. ForkInv'
  BY DEF OneCpuInv, OnCpuInv, OffCpuInv, PLockInv, RetInv, RetOk, ForkInv,
        Forking, Point
<1> QED BY <1>1, <1>2, <1>3, <1>4, <1>5, <1>6, <1>7, <1>8, <1>9

\* ForkRun preserves the invariant: fork() making the child RUNNABLE.
LEMMA ForkRunPreserves ==
    ASSUME IndInv, NEW c \in CPU, NEW p \in Proc, ForkRun(c, p)
    PROVE  IndInv'
<1> USE Consts DEF IndInv, TypeOK, ForkRun, Free, PStates, At, Goto,
      procVars, threadVars, cpuVars, lockVars, Pcs, OpenPcs, PLockPcs,
      WaitLockPcs, TicksLockPcs
<1>0. idx[p] \in Proc /\ Advance(idx[p]) \in Proc
  OBVIOUS
<1>1. TypeOK'
  BY <1>0, ProcAssumption DEF ProcAssumption
<1>2. OneCpuInv'
  BY DEF OneCpuInv, OnCpuInv
<1>3. OnCpuInv' /\ OffCpuInv'
  BY DEF OneCpuInv, OnCpuInv, OffCpuInv, PLockInv, IntrInv, RetInv, RetOk,
        ForkInv, Forking, Point
<1>4. PLockInv'
  BY DEF OneCpuInv, OnCpuInv, OffCpuInv, PLockInv, IntrInv, RetInv, RetOk
<1>5. WaitLockInv'
  BY DEF OneCpuInv, OnCpuInv, OffCpuInv, PLockInv, WaitLockInv, RetInv, RetOk
<1>6. TicksLockInv'
  BY DEF OneCpuInv, OnCpuInv, OffCpuInv, PLockInv, TicksLockInv, RetInv,
        RetOk, IntrInv
<1>7. IntrInv'
  BY DEF OneCpuInv, OnCpuInv, IntrInv
<1>8. RetInv'
  BY DEF RetInv, RetOk, OnCpuInv, OffCpuInv, ForkInv, Forking, Point
<1>9. ForkInv'
  BY DEF OneCpuInv, OnCpuInv, OffCpuInv, PLockInv, RetInv, RetOk, ForkInv,
        Forking, Point
<1> QED BY <1>1, <1>2, <1>3, <1>4, <1>5, <1>6, <1>7, <1>8, <1>9

\* Kill preserves the invariant: kill().
LEMMA KillPreserves ==
    ASSUME IndInv, NEW c \in CPU, NEW p \in Proc, Kill(c, p)
    PROVE  IndInv'
<1> USE Consts DEF IndInv, TypeOK, Kill, Free, PStates, At, Goto, procVars,
      threadVars, cpuVars, lockVars, Pcs, OpenPcs, PLockPcs, WaitLockPcs,
      TicksLockPcs
<1>0. idx[p] \in Proc /\ Advance(idx[p]) \in Proc
  OBVIOUS
<1>1. TypeOK'
  BY <1>0, ProcAssumption DEF ProcAssumption
<1>2. OneCpuInv'
  BY DEF OneCpuInv, OnCpuInv
<1>3. OnCpuInv' /\ OffCpuInv'
  BY DEF OneCpuInv, OnCpuInv, OffCpuInv, PLockInv, IntrInv, RetInv, RetOk,
        ForkInv, Forking, Point
<1>4. PLockInv'
  BY DEF OneCpuInv, OnCpuInv, OffCpuInv, PLockInv, IntrInv, RetInv, RetOk
<1>5. WaitLockInv'
  BY DEF OneCpuInv, OnCpuInv, OffCpuInv, PLockInv, WaitLockInv, RetInv, RetOk
<1>6. TicksLockInv'
  BY DEF OneCpuInv, OnCpuInv, OffCpuInv, PLockInv, TicksLockInv, RetInv,
        RetOk, IntrInv
<1>7. IntrInv'
  BY DEF OneCpuInv, OnCpuInv, IntrInv
<1>8. RetInv'
  BY DEF RetInv, RetOk, OnCpuInv, OffCpuInv, ForkInv, Forking, Point
<1>9. ForkInv'
  BY DEF OneCpuInv, OnCpuInv, OffCpuInv, PLockInv, RetInv, RetOk, ForkInv,
        Forking, Point
<1> QED BY <1>1, <1>2, <1>3, <1>4, <1>5, <1>6, <1>7, <1>8, <1>9

\* Exit preserves the invariant: exit() up to its acquire of wait_lock.
LEMMA ExitPreserves ==
    ASSUME IndInv, NEW c \in CPU, NEW p \in Proc, Exit(c, p)
    PROVE  IndInv'
<1> USE Consts DEF IndInv, TypeOK, Exit, At, Goto, procVars, threadVars,
      cpuVars, lockVars, Pcs, OpenPcs, PLockPcs, WaitLockPcs, TicksLockPcs
<1>0. idx[p] \in Proc /\ Advance(idx[p]) \in Proc
  OBVIOUS
<1>1. TypeOK'
  BY <1>0, ProcAssumption DEF ProcAssumption
<1>2. OneCpuInv'
  BY DEF OneCpuInv, OnCpuInv
<1>3. OnCpuInv' /\ OffCpuInv'
  BY DEF OneCpuInv, OnCpuInv, OffCpuInv, PLockInv, IntrInv, RetInv, RetOk,
        ForkInv, Forking, Point
<1>4. PLockInv'
  BY DEF OneCpuInv, OnCpuInv, OffCpuInv, PLockInv, IntrInv, RetInv, RetOk
<1>5. WaitLockInv'
  BY DEF OneCpuInv, OnCpuInv, OffCpuInv, PLockInv, WaitLockInv, RetInv, RetOk
<1>6. TicksLockInv'
  BY DEF OneCpuInv, OnCpuInv, OffCpuInv, PLockInv, TicksLockInv, RetInv,
        RetOk, IntrInv
<1>7. IntrInv'
  BY DEF OneCpuInv, OnCpuInv, IntrInv
<1>8. RetInv'
  BY DEF RetInv, RetOk
<1>9. ForkInv'
  BY DEF OneCpuInv, OnCpuInv, OffCpuInv, PLockInv, RetInv, RetOk, ForkInv,
        Forking, Point
<1> QED BY <1>1, <1>2, <1>3, <1>4, <1>5, <1>6, <1>7, <1>8, <1>9

\* Reparent preserves the invariant: one turn of the loop of reparent().
LEMMA ReparentPreserves ==
    ASSUME IndInv, NEW c \in CPU, NEW p \in Proc, Reparent(c, p)
    PROVE  IndInv'
<1> USE Consts DEF IndInv, TypeOK, Reparent, At, Goto, procVars, threadVars,
      cpuVars, lockVars, Pcs, OpenPcs, PLockPcs, WaitLockPcs, TicksLockPcs
<1>0. idx[p] \in Proc /\ Advance(idx[p]) \in Proc
  OBVIOUS
<1>1. TypeOK'
  <2>1. CASE parent[idx[p]] = p
    BY <1>0, <2>1
  <2>2. CASE parent[idx[p]] # p
    BY <1>0, <2>2
  <2> QED BY <2>1, <2>2
<1>2. OneCpuInv'
  BY DEF OneCpuInv, OnCpuInv
<1>3. OnCpuInv' /\ OffCpuInv'
  BY DEF OneCpuInv, OnCpuInv, OffCpuInv, PLockInv, IntrInv, RetInv, RetOk,
        ForkInv, Forking, Point
<1>4. PLockInv'
  BY DEF OneCpuInv, OnCpuInv, OffCpuInv, PLockInv, IntrInv, RetInv, RetOk
<1>5. WaitLockInv'
  BY DEF OneCpuInv, OnCpuInv, OffCpuInv, PLockInv, WaitLockInv, RetInv, RetOk
<1>6. TicksLockInv'
  <2>1. \A q \in Proc : pc'[q] = pc[q]
              \/ (pc[q] \notin TicksLockPcs /\ pc'[q] \notin TicksLockPcs)
    BY DEF OnCpuInv, IntrInv
  <2>2. /\ UNCHANGED <<cproc, tickslock>>
        /\ \A d \in CPU : intr'[d] = "clock" <=> intr[d] = "clock"
    OBVIOUS
  <2> QED BY <2>1, <2>2, TicksFrame
<1>7. IntrInv'
  BY DEF OneCpuInv, OnCpuInv, IntrInv
<1>8. RetInv'
  BY DEF RetInv, RetOk
<1>9. ForkInv'
  BY DEF OneCpuInv, OnCpuInv, OffCpuInv, PLockInv, RetInv, RetOk, ForkInv,
        Forking, Point
<1> QED BY <1>1, <1>2, <1>3, <1>4, <1>5, <1>6, <1>7, <1>8, <1>9

\* ReparentWake preserves the invariant: the wakeup(initproc) of reparent().
LEMMA ReparentWakePreserves ==
    ASSUME IndInv, NEW c \in CPU, NEW p \in Proc, ReparentWake(c, p)
    PROVE  IndInv'
<1> USE Consts DEF IndInv, TypeOK, ReparentWake, WakeupOne, Free, PStates,
      At, Goto, procVars, threadVars, cpuVars, lockVars, Pcs, OpenPcs,
      PLockPcs, WaitLockPcs, TicksLockPcs
<1>0. idx[p] \in Proc /\ Advance(idx[p]) \in Proc
  OBVIOUS
<1>1. TypeOK'
  BY <1>0, ProcAssumption DEF ProcAssumption
<1>2. OneCpuInv'
  BY DEF OneCpuInv, OnCpuInv
<1>3. OnCpuInv' /\ OffCpuInv'
  BY DEF OneCpuInv, OnCpuInv, OffCpuInv, PLockInv, IntrInv, RetInv, RetOk,
        ForkInv, Forking, Point
<1>4. PLockInv'
  BY DEF OneCpuInv, OnCpuInv, OffCpuInv, PLockInv, IntrInv, RetInv, RetOk
<1>5. WaitLockInv'
  BY DEF OneCpuInv, OnCpuInv, OffCpuInv, PLockInv, WaitLockInv, RetInv, RetOk
<1>6. TicksLockInv'
  BY DEF OneCpuInv, OnCpuInv, OffCpuInv, PLockInv, TicksLockInv, RetInv,
        RetOk, IntrInv
<1>7. IntrInv'
  BY DEF OneCpuInv, OnCpuInv, IntrInv
<1>8. RetInv'
  BY DEF RetInv, RetOk
<1>9. ForkInv'
  BY DEF OneCpuInv, OnCpuInv, OffCpuInv, PLockInv, RetInv, RetOk, ForkInv,
        Forking, Point
<1> QED BY <1>1, <1>2, <1>3, <1>4, <1>5, <1>6, <1>7, <1>8, <1>9

\* ExitWake preserves the invariant: the wakeup of the parent in exit().
LEMMA ExitWakePreserves ==
    ASSUME IndInv, NEW c \in CPU, NEW p \in Proc, ExitWake(c, p)
    PROVE  IndInv'
<1> USE Consts DEF IndInv, TypeOK, ExitWake, WakeupOne, Free, PStates, At,
      Goto, procVars, threadVars, cpuVars, lockVars, Pcs, OpenPcs, PLockPcs,
      WaitLockPcs, TicksLockPcs
<1>0. idx[p] \in Proc /\ Advance(idx[p]) \in Proc
  OBVIOUS
<1>1. TypeOK'
  BY <1>0, ProcAssumption DEF ProcAssumption
<1>2. OneCpuInv'
  BY DEF OneCpuInv, OnCpuInv
<1>3. OnCpuInv' /\ OffCpuInv'
  BY DEF OneCpuInv, OnCpuInv, OffCpuInv, PLockInv, IntrInv, RetInv, RetOk,
        ForkInv, Forking, Point
<1>4. PLockInv'
  BY DEF OneCpuInv, OnCpuInv, OffCpuInv, PLockInv, IntrInv, RetInv, RetOk
<1>5. WaitLockInv'
  BY DEF OneCpuInv, OnCpuInv, OffCpuInv, PLockInv, WaitLockInv, RetInv, RetOk
<1>6. TicksLockInv'
  BY DEF OneCpuInv, OnCpuInv, OffCpuInv, PLockInv, TicksLockInv, RetInv,
        RetOk, IntrInv
<1>7. IntrInv'
  BY DEF OneCpuInv, OnCpuInv, IntrInv
<1>8. RetInv'
  BY DEF RetInv, RetOk
<1>9. ForkInv'
  BY DEF OneCpuInv, OnCpuInv, OffCpuInv, PLockInv, RetInv, RetOk, ForkInv,
        Forking, Point
<1> QED BY <1>1, <1>2, <1>3, <1>4, <1>5, <1>6, <1>7, <1>8, <1>9

\* ExitZombie preserves the invariant: exit() becoming ZOMBIE.
LEMMA ExitZombiePreserves ==
    ASSUME IndInv, NEW c \in CPU, NEW p \in Proc, ExitZombie(c, p)
    PROVE  IndInv'
<1> USE Consts DEF IndInv, TypeOK, ExitZombie, Free, PStates, At, Goto,
      procVars, threadVars, cpuVars, lockVars, Pcs, OpenPcs, PLockPcs,
      WaitLockPcs, TicksLockPcs
<1>0. idx[p] \in Proc /\ Advance(idx[p]) \in Proc
  OBVIOUS
<1>1. TypeOK'
  BY <1>0, ProcAssumption DEF ProcAssumption
<1>2. OneCpuInv'
  BY DEF OneCpuInv, OnCpuInv
<1>3. OnCpuInv' /\ OffCpuInv'
  BY DEF OneCpuInv, OnCpuInv, OffCpuInv, PLockInv, IntrInv, RetInv, RetOk,
        ForkInv, Forking, Point
<1>4. PLockInv'
  BY DEF OneCpuInv, OnCpuInv, OffCpuInv, PLockInv, IntrInv, RetInv, RetOk
<1>5. WaitLockInv'
  BY DEF OneCpuInv, OnCpuInv, OffCpuInv, PLockInv, WaitLockInv, RetInv, RetOk
<1>6. TicksLockInv'
  BY DEF OneCpuInv, OnCpuInv, OffCpuInv, PLockInv, TicksLockInv, RetInv,
        RetOk, IntrInv
<1>7. IntrInv'
  BY DEF OneCpuInv, OnCpuInv, IntrInv
<1>8. RetInv'
  BY DEF RetInv, RetOk
<1>9. ForkInv'
  BY DEF OneCpuInv, OnCpuInv, OffCpuInv, PLockInv, RetInv, RetOk, ForkInv,
        Forking, Point
<1> QED BY <1>1, <1>2, <1>3, <1>4, <1>5, <1>6, <1>7, <1>8, <1>9

\* WaitLock preserves the invariant: the acquire of wait_lock in wait().
LEMMA WaitLockPreserves ==
    ASSUME IndInv, NEW c \in CPU, NEW p \in Proc, WaitLock(c, p)
    PROVE  IndInv'
<1> USE Consts DEF IndInv, TypeOK, WaitLock, At, Goto, procVars, threadVars,
      cpuVars, lockVars, Pcs, OpenPcs, PLockPcs, WaitLockPcs, TicksLockPcs
<1>0. idx[p] \in Proc /\ Advance(idx[p]) \in Proc
  OBVIOUS
<1>1. TypeOK'
  BY <1>0, ProcAssumption DEF ProcAssumption
<1>2. OneCpuInv'
  BY DEF OneCpuInv, OnCpuInv
<1>3. OnCpuInv' /\ OffCpuInv'
  BY DEF OneCpuInv, OnCpuInv, OffCpuInv, PLockInv, IntrInv, RetInv, RetOk,
        ForkInv, Forking, Point
<1>4. PLockInv'
  BY DEF OneCpuInv, OnCpuInv, OffCpuInv, PLockInv, IntrInv, RetInv, RetOk
<1>5. WaitLockInv'
  BY DEF OneCpuInv, OnCpuInv, OffCpuInv, PLockInv, WaitLockInv, RetInv, RetOk
<1>6. TicksLockInv'
  BY DEF OneCpuInv, OnCpuInv, OffCpuInv, PLockInv, TicksLockInv, RetInv,
        RetOk, IntrInv
<1>7. IntrInv'
  BY DEF OneCpuInv, OnCpuInv, IntrInv
<1>8. RetInv'
  BY DEF RetInv, RetOk
<1>9. ForkInv'
  BY DEF OneCpuInv, OnCpuInv, OffCpuInv, PLockInv, RetInv, RetOk, ForkInv,
        Forking, Point
<1> QED BY <1>1, <1>2, <1>3, <1>4, <1>5, <1>6, <1>7, <1>8, <1>9

\* WaitScan preserves the invariant: one turn of the loop of wait(), with
\* freeproc() when it reaps.
LEMMA WaitScanPreserves ==
    ASSUME IndInv, NEW c \in CPU, NEW p \in Proc, WaitScan(c, p)
    PROVE  IndInv'
<1> USE Consts DEF IndInv, TypeOK, WaitScan, Free, FreeProc, PStates, At,
      Goto, procVars, threadVars, cpuVars, lockVars, Pcs, OpenPcs, PLockPcs,
      WaitLockPcs, TicksLockPcs
<1>0. idx[p] \in Proc /\ Advance(idx[p]) \in Proc
  OBVIOUS
<1>1. TypeOK'
  <2>1. CASE parent[idx[p]] # p \/ state[idx[p]] # "ZOMBIE"
    BY <1>0, <2>1
  <2>2. CASE parent[idx[p]] = p /\ state[idx[p]] = "ZOMBIE"
    <3>1. state' \in [Proc -> PStates] /\ pid' \in [Proc -> Nat]
      BY <1>0, <2>2
    <3>2. parent' \in [Proc -> Proc \cup {NoProc}]
      BY <1>0, <2>2
    <3>3. chan' \in [Proc -> Proc \cup {NoChan, TicksChan}]
      BY <1>0, <2>2
    <3>4. killed' \in [Proc -> BOOLEAN] /\ idx' \in [Proc -> Proc]
      BY <1>0, <2>2, ZenonT(40)
    <3>5. pc' \in [Proc -> Pcs]
      BY <1>0, <2>2
    <3>6. wait_lock' \in CPU \cup {NoCpu}
      BY <2>2
    <3> QED BY <3>1, <3>2, <3>3, <3>4, <3>5, <3>6
  <2> QED BY <2>1, <2>2
<1>2. OneCpuInv'
  BY DEF OneCpuInv, OnCpuInv
<1>3. OnCpuInv' /\ OffCpuInv'
  BY DEF OneCpuInv, OnCpuInv, OffCpuInv, PLockInv, IntrInv, RetInv, RetOk,
        ForkInv, Forking, Point
<1>4. PLockInv'
  BY DEF OneCpuInv, OnCpuInv, OffCpuInv, PLockInv, IntrInv, RetInv, RetOk
<1>5. WaitLockInv'
  BY DEF OneCpuInv, OnCpuInv, OffCpuInv, PLockInv, WaitLockInv, RetInv, RetOk
<1>6. TicksLockInv'
  <2>0. parent[idx[p]] = p /\ state[idx[p]] = "ZOMBIE" => pc[idx[p]] = "dead"
    BY <1>0, FreeOffCpu
  <2>1. \A q \in Proc : pc'[q] = pc[q]
              \/ (pc[q] \notin TicksLockPcs /\ pc'[q] \notin TicksLockPcs)
    BY <1>0, <2>0 DEF OnCpuInv, IntrInv
  <2>2. /\ UNCHANGED <<cproc, tickslock>>
        /\ \A d \in CPU : intr'[d] = "clock" <=> intr[d] = "clock"
    OBVIOUS
  <2> QED BY <2>1, <2>2, TicksFrame
<1>7. IntrInv'
  BY DEF OneCpuInv, OnCpuInv, IntrInv
<1>8. RetInv'
  BY DEF RetInv, RetOk, OnCpuInv, OffCpuInv, ForkInv, Forking, Point
<1>9. ForkInv'
  BY DEF OneCpuInv, OnCpuInv, OffCpuInv, PLockInv, RetInv, RetOk, ForkInv,
        Forking, Point
<1> QED BY <1>1, <1>2, <1>3, <1>4, <1>5, <1>6, <1>7, <1>8, <1>9

\* WaitEnd preserves the invariant: wait() returning -1 or going to sleep.
LEMMA WaitEndPreserves ==
    ASSUME IndInv, NEW c \in CPU, NEW p \in Proc, WaitEnd(c, p)
    PROVE  IndInv'
<1> USE Consts DEF IndInv, TypeOK, WaitEnd, Free, At, Goto, procVars,
      threadVars, cpuVars, lockVars, Pcs, OpenPcs, PLockPcs, WaitLockPcs,
      TicksLockPcs
<1>0. idx[p] \in Proc /\ Advance(idx[p]) \in Proc
  OBVIOUS
<1>1. TypeOK'
  BY <1>0, ProcAssumption DEF ProcAssumption
<1>2. OneCpuInv'
  BY DEF OneCpuInv, OnCpuInv
<1>3. OnCpuInv' /\ OffCpuInv'
  BY DEF OneCpuInv, OnCpuInv, OffCpuInv, PLockInv, IntrInv, RetInv, RetOk,
        ForkInv, Forking, Point
<1>4. PLockInv'
  BY DEF OneCpuInv, OnCpuInv, OffCpuInv, PLockInv, IntrInv, RetInv, RetOk
<1>5. WaitLockInv'
  BY DEF OneCpuInv, OnCpuInv, OffCpuInv, PLockInv, WaitLockInv, RetInv, RetOk
<1>6. TicksLockInv'
  <2>1. \A q \in Proc : pc'[q] = pc[q]
              \/ (pc[q] \notin TicksLockPcs /\ pc'[q] \notin TicksLockPcs)
    BY DEF OnCpuInv, IntrInv
  <2>2. /\ UNCHANGED <<cproc, tickslock>>
        /\ \A d \in CPU : intr'[d] = "clock" <=> intr[d] = "clock"
    OBVIOUS
  <2> QED BY <2>1, <2>2, TicksFrame
<1>7. IntrInv'
  BY DEF OneCpuInv, OnCpuInv, IntrInv
<1>8. RetInv'
  BY DEF RetInv, RetOk
<1>9. ForkInv'
  BY DEF OneCpuInv, OnCpuInv, OffCpuInv, PLockInv, RetInv, RetOk, ForkInv,
        Forking, Point
<1> QED BY <1>1, <1>2, <1>3, <1>4, <1>5, <1>6, <1>7, <1>8, <1>9

\* WaitSleep preserves the invariant: the sleep() of wait().
LEMMA WaitSleepPreserves ==
    ASSUME IndInv, NEW c \in CPU, NEW p \in Proc, WaitSleep(c, p)
    PROVE  IndInv'
<1> USE Consts DEF IndInv, TypeOK, WaitSleep, GoToSleep, Free, PStates, At,
      Goto, procVars, threadVars, cpuVars, lockVars, Pcs, OpenPcs, PLockPcs,
      WaitLockPcs, TicksLockPcs
<1>0. idx[p] \in Proc /\ Advance(idx[p]) \in Proc
  OBVIOUS
<1>1. TypeOK'
  BY <1>0, ProcAssumption DEF ProcAssumption
<1>2. OneCpuInv'
  BY DEF OneCpuInv, OnCpuInv
<1>3. OnCpuInv' /\ OffCpuInv'
  BY DEF OneCpuInv, OnCpuInv, OffCpuInv, PLockInv, IntrInv, RetInv, RetOk,
        ForkInv, Forking, Point
<1>4. PLockInv'
  BY DEF OneCpuInv, OnCpuInv, OffCpuInv, PLockInv, IntrInv, RetInv, RetOk
<1>5. WaitLockInv'
  BY DEF OneCpuInv, OnCpuInv, OffCpuInv, PLockInv, WaitLockInv, RetInv, RetOk
<1>6. TicksLockInv'
  BY DEF OneCpuInv, OnCpuInv, OffCpuInv, PLockInv, TicksLockInv, RetInv,
        RetOk, IntrInv
<1>7. IntrInv'
  BY DEF OneCpuInv, OnCpuInv, IntrInv
<1>8. RetInv'
  <2> SUFFICES ASSUME NEW q \in Proc PROVE RetOk(q)'
    BY DEF RetInv
  <2>1. CASE q = p
    BY <2>1 DEF RetInv, RetOk, OnCpuInv, IntrInv
  <2>2. CASE q # p
    BY <2>2 DEF RetInv, RetOk
  <2> QED BY <2>1, <2>2
<1>9. ForkInv'
  BY DEF OneCpuInv, OnCpuInv, OffCpuInv, PLockInv, RetInv, RetOk, ForkInv,
        Forking, Point
<1> QED BY <1>1, <1>2, <1>3, <1>4, <1>5, <1>6, <1>7, <1>8, <1>9

\* SleepLock preserves the invariant: the acquire of tickslock in sys_sleep().
LEMMA SleepLockPreserves ==
    ASSUME IndInv, NEW c \in CPU, NEW p \in Proc, SleepLock(c, p)
    PROVE  IndInv'
<1> USE Consts DEF IndInv, TypeOK, SleepLock, At, Goto, procVars,
      threadVars, cpuVars, lockVars, Pcs, OpenPcs, PLockPcs, WaitLockPcs,
      TicksLockPcs
<1>0. idx[p] \in Proc /\ Advance(idx[p]) \in Proc
  OBVIOUS
<1>1. TypeOK'
  BY <1>0, ProcAssumption DEF ProcAssumption
<1>2. OneCpuInv'
  BY DEF OneCpuInv, OnCpuInv
<1>3. OnCpuInv' /\ OffCpuInv'
  BY DEF OneCpuInv, OnCpuInv, OffCpuInv, PLockInv, IntrInv, RetInv, RetOk,
        ForkInv, Forking, Point
<1>4. PLockInv'
  BY DEF OneCpuInv, OnCpuInv, OffCpuInv, PLockInv, IntrInv, RetInv, RetOk
<1>5. WaitLockInv'
  BY DEF OneCpuInv, OnCpuInv, OffCpuInv, PLockInv, WaitLockInv, RetInv, RetOk
<1>6. TicksLockInv'
  BY DEF OneCpuInv, OnCpuInv, OffCpuInv, PLockInv, TicksLockInv, RetInv,
        RetOk, IntrInv
<1>7. IntrInv'
  BY DEF OneCpuInv, OnCpuInv, IntrInv
<1>8. RetInv'
  BY DEF RetInv, RetOk
<1>9. ForkInv'
  BY DEF OneCpuInv, OnCpuInv, OffCpuInv, PLockInv, RetInv, RetOk, ForkInv,
        Forking, Point
<1> QED BY <1>1, <1>2, <1>3, <1>4, <1>5, <1>6, <1>7, <1>8, <1>9

\* SleepTest preserves the invariant: the loop test of sys_sleep().
LEMMA SleepTestPreserves ==
    ASSUME IndInv, NEW c \in CPU, NEW p \in Proc, SleepTest(c, p)
    PROVE  IndInv'
<1> USE Consts DEF IndInv, TypeOK, SleepTest, Free, At, Goto, procVars,
      threadVars, cpuVars, lockVars, Pcs, OpenPcs, PLockPcs, WaitLockPcs,
      TicksLockPcs
<1>0. idx[p] \in Proc /\ Advance(idx[p]) \in Proc
  OBVIOUS
<1>1. TypeOK'
  BY <1>0, ProcAssumption DEF ProcAssumption
<1>2. OneCpuInv'
  BY DEF OneCpuInv, OnCpuInv
<1>3. OnCpuInv' /\ OffCpuInv'
  BY DEF OneCpuInv, OnCpuInv, OffCpuInv, PLockInv, IntrInv, RetInv, RetOk,
        ForkInv, Forking, Point
<1>4. PLockInv'
  BY DEF OneCpuInv, OnCpuInv, OffCpuInv, PLockInv, IntrInv, RetInv, RetOk
<1>5. WaitLockInv'
  <2>1. \A q \in Proc : pc'[q] = pc[q]
              \/ (pc[q] \notin WaitLockPcs /\ pc'[q] \notin WaitLockPcs)
    BY DEF OnCpuInv, IntrInv
  <2>2. UNCHANGED <<cproc, wait_lock>>
    OBVIOUS
  <2> QED BY <2>1, <2>2, WaitFrame
<1>6. TicksLockInv'
  BY DEF OneCpuInv, OnCpuInv, OffCpuInv, PLockInv, TicksLockInv, RetInv,
        RetOk, IntrInv
<1>7. IntrInv'
  BY DEF OneCpuInv, OnCpuInv, IntrInv
<1>8. RetInv'
  BY DEF RetInv, RetOk
<1>9. ForkInv'
  BY DEF OneCpuInv, OnCpuInv, OffCpuInv, PLockInv, RetInv, RetOk, ForkInv,
        Forking, Point
<1> QED BY <1>1, <1>2, <1>3, <1>4, <1>5, <1>6, <1>7, <1>8, <1>9

\* SleepSleep preserves the invariant: the sleep() of sys_sleep().
LEMMA SleepSleepPreserves ==
    ASSUME IndInv, NEW c \in CPU, NEW p \in Proc, SleepSleep(c, p)
    PROVE  IndInv'
<1> USE Consts DEF IndInv, TypeOK, SleepSleep, GoToSleep, Free, PStates, At,
      Goto, procVars, threadVars, cpuVars, lockVars, Pcs, OpenPcs, PLockPcs,
      WaitLockPcs, TicksLockPcs
<1>0. idx[p] \in Proc /\ Advance(idx[p]) \in Proc
  OBVIOUS
<1>1. TypeOK'
  BY <1>0, ProcAssumption DEF ProcAssumption
<1>2. OneCpuInv'
  BY DEF OneCpuInv, OnCpuInv
<1>3. OnCpuInv' /\ OffCpuInv'
  BY DEF OneCpuInv, OnCpuInv, OffCpuInv, PLockInv, IntrInv, RetInv, RetOk,
        ForkInv, Forking, Point
<1>4. PLockInv'
  BY DEF OneCpuInv, OnCpuInv, OffCpuInv, PLockInv, IntrInv, RetInv, RetOk
<1>5. WaitLockInv'
  BY DEF OneCpuInv, OnCpuInv, OffCpuInv, PLockInv, WaitLockInv, RetInv, RetOk
<1>6. TicksLockInv'
  BY DEF OneCpuInv, OnCpuInv, OffCpuInv, PLockInv, TicksLockInv, RetInv,
        RetOk, IntrInv
<1>7. IntrInv'
  BY DEF OneCpuInv, OnCpuInv, IntrInv
<1>8. RetInv'
  <2> SUFFICES ASSUME NEW q \in Proc PROVE RetOk(q)'
    BY DEF RetInv
  <2>1. CASE q = p
    BY <2>1 DEF RetInv, RetOk, OnCpuInv, IntrInv
  <2>2. CASE q # p
    BY <2>2 DEF RetInv, RetOk
  <2> QED BY <2>1, <2>2
<1>9. ForkInv'
  BY DEF OneCpuInv, OnCpuInv, OffCpuInv, PLockInv, RetInv, RetOk, ForkInv,
        Forking, Point
<1> QED BY <1>1, <1>2, <1>3, <1>4, <1>5, <1>6, <1>7, <1>8, <1>9

\* TimerYield preserves the invariant: a timer interrupt ending in yield().
LEMMA TimerYieldPreserves ==
    ASSUME IndInv, NEW c \in CPU, NEW p \in Proc, TimerYield(c, p)
    PROVE  IndInv'
<1> USE Consts DEF IndInv, TypeOK, TimerYield, Free, Interruptible, PStates,
      At, Goto, procVars, threadVars, cpuVars, lockVars, Pcs, OpenPcs,
      PLockPcs, WaitLockPcs, TicksLockPcs
<1>0. idx[p] \in Proc /\ Advance(idx[p]) \in Proc
  OBVIOUS
<1>1. TypeOK'
  BY <1>0, ProcAssumption DEF ProcAssumption
<1>2. OneCpuInv'
  BY DEF OneCpuInv, OnCpuInv
<1>3. OnCpuInv' /\ OffCpuInv'
  BY DEF OneCpuInv, OnCpuInv, OffCpuInv, PLockInv, IntrInv, RetInv, RetOk,
        ForkInv, Forking, Point
<1>4. PLockInv'
  BY DEF OneCpuInv, OnCpuInv, OffCpuInv, PLockInv, IntrInv, RetInv, RetOk
<1>5. WaitLockInv'
  <2>1. \A q \in Proc : pc'[q] = pc[q]
              \/ (pc[q] \notin WaitLockPcs /\ pc'[q] \notin WaitLockPcs)
    BY DEF OnCpuInv, IntrInv
  <2>2. UNCHANGED <<cproc, wait_lock>>
    OBVIOUS
  <2> QED BY <2>1, <2>2, WaitFrame
<1>6. TicksLockInv'
  <2>1. \A q \in Proc : pc'[q] = pc[q]
              \/ (pc[q] \notin TicksLockPcs /\ pc'[q] \notin TicksLockPcs)
    BY DEF OnCpuInv, IntrInv
  <2>2. /\ UNCHANGED <<cproc, tickslock>>
        /\ \A d \in CPU : intr'[d] = "clock" <=> intr[d] = "clock"
    OBVIOUS
  <2> QED BY <2>1, <2>2, TicksFrame
<1>7. IntrInv'
  BY DEF OneCpuInv, OnCpuInv, IntrInv
<1>8. RetInv'
  <2> SUFFICES ASSUME NEW q \in Proc PROVE RetOk(q)'
    BY DEF RetInv
  <2>1. CASE q = p
    BY <2>1 DEF RetInv, RetOk, OnCpuInv, IntrInv
  <2>2. CASE q # p
    BY <2>2 DEF RetInv, RetOk
  <2> QED BY <2>1, <2>2
<1>9. ForkInv'
  BY DEF OneCpuInv, OnCpuInv, OffCpuInv, PLockInv, RetInv, RetOk, ForkInv,
        Forking, Point
<1> QED BY <1>1, <1>2, <1>3, <1>4, <1>5, <1>6, <1>7, <1>8, <1>9

\* Trap preserves the invariant: a process entering the kernel.
LEMMA TrapPreserves ==
    ASSUME IndInv, NEW c \in CPU, NEW p \in Proc, NEW call \in Calls,
           Trap(c, p, call)
    PROVE  IndInv'
<1> USE Consts DEF IndInv, TypeOK, Trap, Free, Entry, At, Goto, procVars,
      threadVars, cpuVars, lockVars, Pcs, OpenPcs, PLockPcs, WaitLockPcs,
      TicksLockPcs
<1>0. \E l \in {"exit", "fork", "wait", "kill", "sleep", "sysret"} :
            pc' = [pc EXCEPT ![p] = l]
  BY ProcAssumption DEF ProcAssumption
<1>1. TypeOK'
  BY <1>0, ProcAssumption DEF ProcAssumption
<1>2. OneCpuInv'
  BY <1>0 DEF OneCpuInv, OnCpuInv
<1>3. OnCpuInv' /\ OffCpuInv'
  BY <1>0 DEF OneCpuInv, OnCpuInv, OffCpuInv, PLockInv, IntrInv, RetInv,
        RetOk, ForkInv, Forking, Point
<1>4. PLockInv'
  BY <1>0 DEF OneCpuInv, OnCpuInv, OffCpuInv, PLockInv, IntrInv, RetInv, RetOk
<1>5. WaitLockInv'
  BY <1>0 DEF OneCpuInv, OnCpuInv, OffCpuInv, PLockInv, WaitLockInv, RetInv,
        RetOk
<1>6. TicksLockInv'
  BY <1>0 DEF OneCpuInv, OnCpuInv, OffCpuInv, PLockInv, TicksLockInv,
        RetInv, RetOk, IntrInv
<1>7. IntrInv'
  BY <1>0 DEF OneCpuInv, OnCpuInv, IntrInv
<1>8. RetInv'
  BY <1>0 DEF RetInv, RetOk
<1>9. ForkInv'
  BY <1>0 DEF OneCpuInv, OnCpuInv, OffCpuInv, PLockInv, RetInv, RetOk,
        ForkInv, Forking, Point
<1> QED BY <1>1, <1>2, <1>3, <1>4, <1>5, <1>6, <1>7, <1>8, <1>9

\* Scheduler preserves the invariant: one turn of the scan of scheduler().
LEMMA SchedulerPreserves ==
    ASSUME IndInv, NEW c \in CPU, Scheduler(c)
    PROVE  IndInv'
<1> USE Consts DEF IndInv, TypeOK, Scheduler, Free, PStates, At, Goto,
      procVars, threadVars, cpuVars, lockVars, Pcs, OpenPcs, PLockPcs,
      WaitLockPcs, TicksLockPcs
<1>0. sidx[c] \in Proc /\ Advance(sidx[c]) \in Proc
  OBVIOUS
<1>1. TypeOK'
  <2>1. CASE state[sidx[c]] = "RUNNABLE"
    BY <1>0, <2>1
  <2>2. CASE state[sidx[c]] # "RUNNABLE"
    BY <1>0, <2>2
  <2> QED BY <2>1, <2>2
<1>2. OneCpuInv'
  <2>1. CASE state[sidx[c]] = "RUNNABLE"
    <3>1. \A d \in CPU : cproc[d] # sidx[c]
      BY <1>0, <2>1, FreeOffCpu
    <3> QED BY <1>0, <2>1, <3>1 DEF OneCpuInv
  <2>2. CASE state[sidx[c]] # "RUNNABLE"
    BY <2>2 DEF OneCpuInv
  <2> QED BY <2>1, <2>2
<1>3. OnCpuInv' /\ OffCpuInv'
  BY DEF OneCpuInv, OnCpuInv, OffCpuInv, PLockInv, IntrInv, RetInv, RetOk,
        ForkInv, Forking, Point
<1>4. PLockInv'
  BY DEF OneCpuInv, OnCpuInv, OffCpuInv, PLockInv, IntrInv, RetInv, RetOk
<1>5. WaitLockInv'
  BY DEF OneCpuInv, OnCpuInv, OffCpuInv, PLockInv, WaitLockInv, RetInv, RetOk
<1>6. TicksLockInv'
  BY DEF OneCpuInv, OnCpuInv, OffCpuInv, PLockInv, TicksLockInv, RetInv,
        RetOk, IntrInv
<1>7. IntrInv'
  BY DEF OneCpuInv, OnCpuInv, IntrInv
<1>8. RetInv'
  BY DEF RetInv, RetOk, OnCpuInv, OffCpuInv, ForkInv, Forking, Point
<1>9. ForkInv'
  BY DEF OneCpuInv, OnCpuInv, OffCpuInv, PLockInv, RetInv, RetOk, ForkInv,
        Forking, Point
<1> QED BY <1>1, <1>2, <1>3, <1>4, <1>5, <1>6, <1>7, <1>8, <1>9

\* ClockIntr preserves the invariant: clockintr() taking tickslock.
LEMMA ClockIntrPreserves ==
    ASSUME IndInv, NEW c \in CPU, ClockIntr(c)
    PROVE  IndInv'
<1> USE Consts DEF IndInv, TypeOK, ClockIntr, Interruptible, At, Goto,
      procVars, threadVars, cpuVars, lockVars, Pcs, OpenPcs, PLockPcs,
      WaitLockPcs, TicksLockPcs
<1>0. sidx[c] \in Proc /\ Advance(sidx[c]) \in Proc
  OBVIOUS
<1>1. TypeOK'
  BY <1>0, ProcAssumption DEF ProcAssumption
<1>2. OneCpuInv'
  BY DEF OneCpuInv, OnCpuInv
<1>3. OnCpuInv' /\ OffCpuInv'
  BY DEF OneCpuInv, OnCpuInv, OffCpuInv, PLockInv, IntrInv, RetInv, RetOk,
        ForkInv, Forking, Point
<1>4. PLockInv'
  BY DEF OneCpuInv, OnCpuInv, OffCpuInv, PLockInv, IntrInv, RetInv, RetOk
<1>5. WaitLockInv'
  BY DEF OneCpuInv, OnCpuInv, OffCpuInv, PLockInv, WaitLockInv, RetInv, RetOk
<1>6. TicksLockInv'
  BY DEF OneCpuInv, OnCpuInv, OffCpuInv, PLockInv, TicksLockInv, RetInv,
        RetOk, IntrInv
<1>7. IntrInv'
  BY DEF OneCpuInv, OnCpuInv, IntrInv
<1>8. RetInv'
  BY DEF RetInv, RetOk
<1>9. ForkInv'
  BY DEF OneCpuInv, OnCpuInv, OffCpuInv, PLockInv, RetInv, RetOk, ForkInv,
        Forking, Point
<1> QED BY <1>1, <1>2, <1>3, <1>4, <1>5, <1>6, <1>7, <1>8, <1>9

\* ClockWake preserves the invariant: the wakeup(&ticks) of clockintr().
LEMMA ClockWakePreserves ==
    ASSUME IndInv, NEW c \in CPU, ClockWake(c)
    PROVE  IndInv'
<1> USE Consts DEF IndInv, TypeOK, ClockWake, WakeupOne, Free, PStates, At,
      Goto, procVars, threadVars, cpuVars, lockVars, Pcs, OpenPcs, PLockPcs,
      WaitLockPcs, TicksLockPcs
<1>0. sidx[c] \in Proc /\ Advance(sidx[c]) \in Proc
  OBVIOUS
<1>1. TypeOK'
  BY <1>0, ProcAssumption DEF ProcAssumption
<1>2. OneCpuInv'
  BY DEF OneCpuInv, OnCpuInv
<1>3. OnCpuInv' /\ OffCpuInv'
  BY DEF OneCpuInv, OnCpuInv, OffCpuInv, PLockInv, IntrInv, RetInv, RetOk,
        ForkInv, Forking, Point
<1>4. PLockInv'
  BY DEF OneCpuInv, OnCpuInv, OffCpuInv, PLockInv, IntrInv, RetInv, RetOk
<1>5. WaitLockInv'
  BY DEF OneCpuInv, OnCpuInv, OffCpuInv, PLockInv, WaitLockInv, RetInv, RetOk
<1>6. TicksLockInv'
  <2>1. CASE widx[c] = NPROC
    BY <2>1 DEF TicksLockInv, IntrInv
  <2>2. CASE widx[c] # NPROC
    <3>1. UNCHANGED <<cproc, tickslock, pc>>
      BY <2>2
    <3>2. \A d \in CPU : intr'[d] = "clock" <=> intr[d] = "clock"
      BY <2>2
    <3> QED BY <3>1, <3>2, TicksFrame
  <2> QED BY <2>1, <2>2
<1>7. IntrInv'
  BY DEF OneCpuInv, OnCpuInv, IntrInv
<1>8. RetInv'
  BY DEF RetInv, RetOk
<1>9. ForkInv'
  BY DEF OneCpuInv, OnCpuInv, OffCpuInv, PLockInv, RetInv, RetOk, ForkInv,
        Forking, Point
<1> QED BY <1>1, <1>2, <1>3, <1>4, <1>5, <1>6, <1>7, <1>8, <1>9

\* The invariant holds when main() has made the first process.
LEMMA InitIndInv == Init => IndInv
<1> SUFFICES ASSUME Init PROVE IndInv
  OBVIOUS
<1> USE Consts DEF Init, Pcs, OpenPcs, PLockPcs, WaitLockPcs, TicksLockPcs,
      PStates
<1>1. TypeOK
  BY DEF TypeOK
<1>2. OneCpuInv /\ OnCpuInv /\ OffCpuInv
  BY DEF OneCpuInv, OnCpuInv, OffCpuInv
<1>3. PLockInv /\ WaitLockInv /\ TicksLockInv /\ IntrInv
  BY DEF PLockInv, WaitLockInv, TicksLockInv, IntrInv
<1>4. RetInv /\ ForkInv
  BY DEF RetInv, RetOk, ForkInv, Forking, Point
<1> QED BY <1>1, <1>2, <1>3, <1>4 DEF IndInv

\* Steps of other components leave the invariant alone.
LEMMA StutterIndInv == IndInv /\ UNCHANGED vars => IndInv'
  BY DEF IndInv, vars, procVars, threadVars, cpuVars, lockVars, TypeOK,
        OneCpuInv, OnCpuInv, OffCpuInv,
         PLockInv, WaitLockInv, TicksLockInv, IntrInv, RetInv, RetOk, ForkInv, Forking, Point

\* Every step of the kernel preserves the invariant.
LEMMA NextIndInv == IndInv /\ Next => IndInv'
<1> SUFFICES ASSUME IndInv, NEW c \in CPU,
                    \/ Scheduler(c) \/ ClockIntr(c) \/ ClockWake(c)
                    \/ \E p \in Proc : \/ SwitchStep(c, p) \/ CallStep(c, p)
                                       \/ TimerYield(c, p)
                                       \/ \E call \in Calls : Trap(c, p, call)
             PROVE  IndInv'
  BY DEF Next
<1>1. CASE Scheduler(c) \/ ClockIntr(c) \/ ClockWake(c)
  BY <1>1, SchedulerPreserves, ClockIntrPreserves, ClockWakePreserves
<1>2. CASE \E p \in Proc : SwitchStep(c, p)
  BY <1>2, SchedPreserves, ForkretPreserves, YieldedPreserves,
        SleptPreserves DEF SwitchStep
<1>3. CASE \E p \in Proc : CallStep(c, p)
  BY <1>3, SysretPreserves, ForkAllocPreserves, ForkParentPreserves,
        ForkRunPreserves,
     KillPreserves, ExitPreserves, ReparentPreserves, ReparentWakePreserves, ExitWakePreserves,
     ExitZombiePreserves, WaitLockPreserves, WaitScanPreserves, WaitEndPreserves,
     WaitSleepPreserves, SleepLockPreserves, SleepTestPreserves, SleepSleepPreserves
     DEF CallStep
<1>4. CASE \E p \in Proc : TimerYield(c, p)
  BY <1>4, TimerYieldPreserves
<1>5. CASE \E p \in Proc : \E call \in Calls : Trap(c, p, call)
  BY <1>5, TrapPreserves
<1> QED BY <1>1, <1>2, <1>3, <1>4, <1>5

\* The inductive invariant holds in every state the kernel reaches: the lock
\* discipline of proc.c is consistent on any number of CPUs.
THEOREM IndInvHolds == Spec => []IndInv
<1>1. Init => IndInv
  BY InitIndInv
<1>2. IndInv /\ [Next]_vars => IndInv'
  BY NextIndInv, StutterIndInv
<1> QED BY <1>1, <1>2, PTL DEF Spec

\* Type correctness.
THEOREM TypeCorrect == Spec => []TypeOK
<1>1. IndInv => TypeOK
  BY DEF IndInv
<1> QED BY <1>1, IndInvHolds, PTL

\* No process is executed by two CPUs at once, and none is freed while a CPU
\* still runs on its kernel stack.
THEOREM OneCpu == Spec => []OneCpuPerProc
<1>1. IndInv => OneCpuPerProc
  <2> SUFFICES ASSUME IndInv, NEW p \in Proc
               PROVE  /\ \A c, d \in CPU : cproc[c] = p /\ cproc[d] = p => c = d
                      /\ state[p] = "RUNNING" => \E c \in CPU : cproc[c] = p
                      /\ \A c \in CPU : cproc[c] = p /\ state[p] # "RUNNING" =>
                              pc[p] = "sched" /\ plock[p] = c
    BY DEF OneCpuPerProc
  <2>1. \A c, d \in CPU : cproc[c] = p /\ cproc[d] = p => c = d
    BY Consts DEF IndInv, OneCpuInv
  <2>2. state[p] = "RUNNING" => \E c \in CPU : cproc[c] = p
    BY DEF IndInv, OffCpuInv
  <2>3. \A c \in CPU : cproc[c] = p /\ state[p] # "RUNNING" => pc[p] = "sched" /\ plock[p] = c
    BY DEF IndInv, OnCpuInv, PLockInv, PLockPcs
  <2> QED BY <2>1, <2>2, <2>3
<1> QED BY <1>1, IndInvHolds, PTL

\* The checks at the top of sched() never fail: it is entered holding p->lock
\* and no other lock, with the process no longer RUNNING.
THEOREM SchedSafe == Spec => []SchedPrecondition
<1>1. IndInv => SchedPrecondition
  <2> SUFFICES ASSUME IndInv, NEW c \in CPU, NEW p \in Proc, cproc[c] = p
               PROVE  /\ At(c, p, "sched") =>
                            /\ plock[p] = c /\ state[p] # "RUNNING"
                            /\ \A q \in Proc \ {p} : plock[q] # c
                            /\ wait_lock # c /\ tickslock # c
                      /\ pc[p] \notin {"dead", "none"}
    BY DEF SchedPrecondition, At
  <2>1. pc[p] \notin {"dead", "none"}
    BY DEF IndInv, OnCpuInv
  <2>2. ASSUME At(c, p, "sched")
        PROVE  /\ plock[p] = c /\ state[p] # "RUNNING"
               /\ \A q \in Proc \ {p} : plock[q] # c
    BY <2>2, Consts DEF At, IndInv, OnCpuInv, PLockInv, PLockPcs
  <2>3. ASSUME At(c, p, "sched") PROVE wait_lock # c /\ tickslock # c
    BY <2>3, Consts DEF At, IndInv, WaitLockInv, TicksLockInv, WaitLockPcs,
          TicksLockPcs
  <2> QED BY <2>1, <2>2, <2>3
<1> QED BY <1>1, IndInvHolds, PTL

\* A CPU that holds a p->lock spins on no lock: in the code of lab2, where
\* sched() takes no lock, p->lock is the innermost lock.
LEMMA PLockHolderDoesNotSpin ==
    ASSUME IndInv, ~SchedStampsTicks, NEW c \in CPU, NEW q \in Proc,
           plock[q] = c
    PROVE  Owner(NextLock(c)) = NoCpu
<1>1. cproc[c] = q /\ pc[q] \in PLockPcs
  BY Consts DEF IndInv, PLockInv
<1>2. intr[c] = "none"
  BY <1>1 DEF IndInv, TypeOK, IntrInv, PLockPcs, OpenPcs
<1>3. NextLock(c) = NoLk
  BY <1>1, <1>2, Consts DEF NextLock, PLockPcs
<1> QED BY <1>3, ProcAssumption DEF ProcAssumption, Owner, NoLk, WaitLk,
      TicksLk

\* The only locks a CPU can spin on are those of the process table,
\* wait_lock and tickslock.
LEMMA NextLockRange ==
    ASSUME IndInv, NEW c \in CPU
    PROVE  NextLock(c) \in Proc \cup {NoLk, WaitLk, TicksLk}
<1>1. CASE intr[c] = "clock"
  BY <1>1 DEF NextLock, IndInv, TypeOK
<1>2. CASE intr[c] = "yield"
  BY <1>2 DEF NextLock, IndInv, IntrInv
<1>3. CASE intr[c] = "none" /\ cproc[c] = NoProc
  BY <1>3 DEF NextLock, IndInv, TypeOK
<1>4. CASE intr[c] = "none" /\ cproc[c] # NoProc
  <2>1. /\ cproc[c] \in Proc /\ idx[cproc[c]] \in Proc /\ widx[c] \in Proc
        /\ pc[cproc[c]] = "forkRun" => arg[cproc[c]] \in Proc
    BY <1>4 DEF IndInv, TypeOK, ForkInv, Forking, Point
  <2> QED BY <1>4, <2>1 DEF NextLock
<1> QED BY <1>1, <1>2, <1>3, <1>4 DEF IndInv, TypeOK

\* A CPU that holds wait_lock or tickslock and spins, spins on a p->lock.
LEMMA HolderSpinsOnProcLock ==
    ASSUME IndInv, ~SchedStampsTicks, NEW c \in CPU,
           wait_lock = c \/ tickslock = c
    PROVE  NextLock(c) \in Proc \cup {NoLk}
<1>1. CASE intr[c] = "clock"
  BY <1>1 DEF NextLock, IndInv, TypeOK
<1>2. CASE intr[c] # "clock"
  <2>1. cproc[c] \in Proc /\ pc[cproc[c]] \in WaitLockPcs \cup TicksLockPcs
    BY <1>2, Consts DEF IndInv, WaitLockInv, TicksLockInv
  <2>2. intr[c] = "none"
    BY <2>1 DEF IndInv, TypeOK, IntrInv, WaitLockPcs, TicksLockPcs, OpenPcs
  <2>3. idx[cproc[c]] \in Proc /\ widx[c] \in Proc /\ cproc[c] # NoProc
    BY <2>1, Consts DEF IndInv, TypeOK
  <2> QED BY <2>1, <2>2, <2>3 DEF NextLock, WaitLockPcs, TicksLockPcs
<1> QED BY <1>1, <1>2

\* Without the tickslock acquire that lab3 adds to sched(), no set of CPUs
\* spins in a cycle: wait_lock and tickslock come before every p->lock.
THEOREM NoDeadlock == ~SchedStampsTicks => (Spec => []NoLockCycle)
<1>1. ASSUME ~SchedStampsTicks PROVE IndInv => NoLockCycle
  <2> SUFFICES ASSUME IndInv, NEW S \in (SUBSET CPU) \ {{}},
                      \A c \in S : Owner(NextLock(c)) \in S
               PROVE  FALSE
    BY DEF NoLockCycle
  <2>1. NoCpu \notin S
    BY Consts
  <2>2. \A c \in S, q \in Proc : plock[q] # c
    BY <1>1, <2>1, PLockHolderDoesNotSpin
  <2>3. \A c \in S : NextLock(c) \notin Proc \cup {NoLk}
    BY <2>1, <2>2, ProcAssumption DEF ProcAssumption, Owner, Proc, NoLk,
          WaitLk, TicksLk
  <2>4. \A c \in S : Owner(NextLock(c)) \notin {wait_lock, tickslock}
    BY <1>1, <2>3, HolderSpinsOnProcLock
  <2>5. PICK c \in S : TRUE
    OBVIOUS
  <2>6. NextLock(c) \in {WaitLk, TicksLk}
    BY <2>3, <2>5, NextLockRange
  <2>7. Owner(NextLock(c)) \in {wait_lock, tickslock}
    BY <2>6, ProcAssumption DEF ProcAssumption, Owner, NoLk, WaitLk, TicksLk
  <2> QED BY <2>4, <2>5, <2>7
<1>2. CASE ~SchedStampsTicks
  <2>1. IndInv => NoLockCycle
    BY <1>1, <1>2
  <2> QED BY <2>1, IndInvHolds, PTL
<1> QED BY <1>2
-----------------------------------------------------------------------------
(* Parents and children: a second invariant, on top of IndInv. *)

Alive == {"SLEEPING", "RUNNABLE", "RUNNING"}
ExitPcs == {"exit", "reparent", "reparentWake", "exitWake", "exitZombie"}
ScanPcs == {"fork", "kill", "waitScan", "reparent", "reparentWake"}

\* No program kills init: the kernel would panic ("init exiting").
InitSpared == 1 \notin KillPids

\* p sleeps in wait().
AsleepInWait(p) == state[p] = "SLEEPING" /\ chan[p] = p

\* init is there for good: nobody passes its pid to kill().
InitLives ==
    /\ pid[initproc] = 1 /\ killed[initproc] = FALSE
    /\ state[initproc] \in Alive /\ Point(initproc) \notin ExitPcs
    /\ \A p \in Proc : Point(p) = "kill" => arg[p] # 1

\* A process that has children is alive, and reparent() leaves it none: below
\* the slot where it is, the process has no child any more.
KidsInv ==
    \A p, k \in Proc : parent[k] = p =>
        /\ state[p] \in Alive
        /\ pc[p] \notin {"exitWake", "exitZombie"}
        /\ pc[p] = "reparent" => k >= idx[p]
        /\ pc[p] = "reparentWake" => k > idx[p]

\* Every process but init has a parent before it runs for the first time.
ParentInv ==
    /\ \A k \in Proc \ {initproc} : state[k] \in Alive \cup {"ZOMBIE"} => parent[k] # NoProc
    /\ \A p \in Proc : Point(p) = "forkRun" => parent[arg[p]] # NoProc

\* A scan of the table begins at the first slot, for a thread and for wakeup().
ScanInv == \A p \in Proc : Point(p) \notin ScanPcs => idx[p] = 1
WakeScanInv ==
    \A c \in CPU : \/ widx[c] = 1
                   \/ intr[c] = "clock"
                   \/ \E p \in Proc : cproc[c] = p /\ pc[p] \in {"reparentWake", "exitWake"}

\* wait() has met no ZOMBIE child below the slot where it is.
WaitInv ==
    \A p, k \in Proc : parent[k] = p /\ state[k] = "ZOMBIE" =>
        /\ pc[p] \notin {"waitEnd", "waitSleep"}
        /\ pc[p] = "waitScan" => k >= idx[p]

\* exit() has woken its parent when its wakeup() has passed the slot of it.
ExitInv ==
    \A c \in CPU, k \in Proc : cproc[c] = k =>
        \A p \in Proc : parent[k] = p /\ AsleepInWait(p) =>
            /\ pc[k] # "exitZombie"
            /\ pc[k] = "exitWake" => p >= widx[c]

\* A process that sleeps in wait() has no ZOMBIE child, except for init at the
\* moment when it is given one, with the wakeup() still to come.
SleeperInv ==
    \A p, k \in Proc : AsleepInWait(p) /\ parent[k] = p /\ state[k] = "ZOMBIE" =>
        /\ p = initproc
        /\ \E c \in CPU, q \in Proc : cproc[c] = q /\ pc[q] = "reparentWake" /\ widx[c] = 1

FamilyInv ==
    /\ InitLives /\ KidsInv /\ ParentInv /\ ScanInv /\ WakeScanInv
    /\ WaitInv /\ ExitInv /\ SleeperInv

\* The order of the slots.
LEMMA ScanOrder ==
    ASSUME NEW i \in Proc, NEW k \in Proc
    PROVE  /\ k >= 1 /\ k >= initproc
           /\ i = NPROC => Advance(i) = 1 /\ ~(k > i)
           /\ i # NPROC => (k >= Advance(i) <=> k > i)
           /\ k >= i => k > i \/ k = i
           /\ (k >= i /\ k # i) <=> k > i
  BY ProcAssumption DEF ProcAssumption, Proc, Advance, initproc

\* Only one thread is inside a section of wait_lock.
LEMMA WaitAlone ==
    ASSUME IndInv, NEW c \in CPU, NEW p \in Proc, cproc[c] = p, pc[p] \in WaitLockPcs
    PROVE  /\ wait_lock = c
           /\ \A d \in CPU, q \in Proc : cproc[d] = q /\ pc[q] \in WaitLockPcs => d = c /\ q = p
           /\ \A q \in Proc : pc[q] \in WaitLockPcs => q = p
<1>1. wait_lock = c
  BY DEF IndInv, WaitLockInv
<1>2. \A d \in CPU, q \in Proc : cproc[d] = q /\ pc[q] \in WaitLockPcs => d = c /\ q = p
  BY <1>1 DEF IndInv, WaitLockInv
<1>3. \A q \in Proc : pc[q] \in WaitLockPcs => \E d \in CPU : cproc[d] = q
  BY DEF IndInv, OffCpuInv, WaitLockPcs
<1> QED BY <1>1, <1>2, <1>3

\* Nobody sleeps in wait() with a ZOMBIE child unless a child is being given to init.
LEMMA NoLateSleeper ==
    ASSUME IndInv, SleeperInv,
           \A d \in CPU, q \in Proc : cproc[d] = q /\ pc[q] = "reparentWake" => widx[d] # 1
    PROVE  \A x, k \in Proc : ~(AsleepInWait(x) /\ parent[k] = x /\ state[k] = "ZOMBIE")
  BY DEF SleeperInv

\* The first return of a new process.
LEMMA ForkretFamily ==
    ASSUME InitSpared, IndInv, FamilyInv, NEW c \in CPU, NEW p \in Proc, Forkret(c, p)
    PROVE  FamilyInv'
<1> USE Consts DEF IndInv, TypeOK, FamilyInv, At, Goto, procVars, threadVars, cpuVars, lockVars, Forkret
<1>1. InitLives'
  BY DEF InitLives, Point, Alive, ExitPcs, RetInv, RetOk
<1>2. KidsInv'
  BY DEF KidsInv, Alive
<1>3. ParentInv'
  BY DEF ParentInv, Point, Alive
<1>4. ScanInv'
  BY DEF ScanInv, Point, ScanPcs
<1>5. WakeScanInv'
  BY DEF WakeScanInv
<1>6. WaitInv'
  BY DEF WaitInv
<1>7. ExitInv'
  BY DEF ExitInv, AsleepInWait
<1>8. SleeperInv'
  BY DEF SleeperInv, AsleepInWait
<1> QED BY <1>1, <1>2, <1>3, <1>4, <1>5, <1>6, <1>7, <1>8 DEF FamilyInv

\* The end of yield().
LEMMA YieldedFamily ==
    ASSUME InitSpared, IndInv, FamilyInv, NEW c \in CPU, NEW p \in Proc, Yielded(c, p)
    PROVE  FamilyInv'
<1> USE Consts DEF IndInv, TypeOK, FamilyInv, At, Goto, procVars, threadVars, cpuVars, lockVars, Yielded
<1>0. ret[p] \in OpenPcs /\ pc'[p] = ret[p] /\ \A q \in Proc \ {p} : pc'[q] = pc[q]
  BY DEF RetInv, RetOk
<1>1. InitLives'
  BY DEF InitLives, Point, Alive, ExitPcs, RetInv, RetOk
<1>2. KidsInv'
  BY <1>0 DEF KidsInv, OpenPcs
<1>3. ParentInv'
  BY DEF ParentInv, Point, Alive
<1>4. ScanInv'
  BY DEF ScanInv, Point, ScanPcs
<1>5. WakeScanInv'
  BY DEF WakeScanInv
<1>6. WaitInv'
  BY <1>0 DEF WaitInv, OpenPcs
<1>7. ExitInv'
  BY <1>0 DEF ExitInv, AsleepInWait, OpenPcs
<1>8. SleeperInv'
  BY DEF SleeperInv, AsleepInWait
<1> QED BY <1>1, <1>2, <1>3, <1>4, <1>5, <1>6, <1>7, <1>8 DEF FamilyInv

\* The end of sleep().
LEMMA SleptFamily ==
    ASSUME InitSpared, IndInv, FamilyInv, NEW c \in CPU, NEW p \in Proc, Slept(c, p)
    PROVE  FamilyInv'
<1> USE Consts DEF IndInv, TypeOK, FamilyInv, At, Goto, procVars, threadVars, cpuVars, lockVars, Slept
<1>0. ret[p] \in OpenPcs /\ pc'[p] = ret[p] /\ \A q \in Proc \ {p} : pc'[q] = pc[q]
  BY DEF RetInv, RetOk
<1>1. InitLives'
  BY DEF InitLives, Point, Alive, ExitPcs, RetInv, RetOk
<1>2. KidsInv'
  BY <1>0 DEF KidsInv, OpenPcs
<1>3. ParentInv'
  BY DEF ParentInv, Point, Alive
<1>4. ScanInv'
  BY DEF ScanInv, Point, ScanPcs
<1>5. WakeScanInv'
  BY DEF WakeScanInv
<1>6. WaitInv'
  BY <1>0 DEF WaitInv, OpenPcs
<1>7. ExitInv'
  BY <1>0 DEF ExitInv, AsleepInWait, OpenPcs
<1>8. SleeperInv'
  BY DEF SleeperInv, AsleepInWait
<1> QED BY <1>1, <1>2, <1>3, <1>4, <1>5, <1>6, <1>7, <1>8 DEF FamilyInv

\* The switch to scheduler().
LEMMA SchedFamily ==
    ASSUME InitSpared, IndInv, FamilyInv, NEW c \in CPU, NEW p \in Proc, Sched(c, p)
    PROVE  FamilyInv'
<1> USE Consts DEF IndInv, TypeOK, FamilyInv, At, Goto, procVars, threadVars, cpuVars, lockVars,
        Sched, Resume
<1>1. InitLives'
  BY DEF InitLives, Point, Alive, ExitPcs, RetInv, RetOk
<1>2. KidsInv'
  BY DEF KidsInv, Alive
<1>3. ParentInv'
  BY DEF ParentInv, Point, Alive
<1>4. ScanInv'
  BY DEF ScanInv, Point, ScanPcs, RetInv, RetOk, OnCpuInv, OffCpuInv
<1>5. WakeScanInv'
  BY DEF WakeScanInv
<1>6. WaitInv'
  BY DEF WaitInv
<1>7. ExitInv'
  BY DEF ExitInv, AsleepInWait
<1>8. SleeperInv'
  BY ZenonT(40) DEF SleeperInv, AsleepInWait
<1> QED BY <1>1, <1>2, <1>3, <1>4, <1>5, <1>6, <1>7, <1>8 DEF FamilyInv

\* The end of usertrap().
LEMMA SysretFamily ==
    ASSUME InitSpared, IndInv, FamilyInv, NEW c \in CPU, NEW p \in Proc, Sysret(c, p)
    PROVE  FamilyInv'
<1> USE Consts DEF IndInv, TypeOK, FamilyInv, At, Goto, procVars, threadVars, cpuVars, lockVars,
        Sysret, Free
<1>1. InitLives'
  BY DEF InitLives, Point, Alive, ExitPcs, RetInv, RetOk
<1>2. KidsInv'
  BY DEF KidsInv, Alive
<1>3. ParentInv'
  BY DEF ParentInv, Point, Alive
<1>4. ScanInv'
  BY DEF ScanInv, Point, ScanPcs
<1>5. WakeScanInv'
  BY DEF WakeScanInv
<1>6. WaitInv'
  BY DEF WaitInv
<1>7. ExitInv'
  BY DEF ExitInv, AsleepInWait
<1>8. SleeperInv'
  BY DEF SleeperInv, AsleepInWait
<1> QED BY <1>1, <1>2, <1>3, <1>4, <1>5, <1>6, <1>7, <1>8 DEF FamilyInv

\* fork() takes a slot: nobody is a child of a free one.
LEMMA ForkAllocFamily ==
    ASSUME InitSpared, IndInv, FamilyInv, NEW c \in CPU, NEW p \in Proc, ForkAlloc(c, p)
    PROVE  FamilyInv'
<1> USE Consts DEF IndInv, TypeOK, FamilyInv, At, Goto, procVars, threadVars, cpuVars, lockVars,
     ForkAlloc, FreeProc, Free
<1>1. InitLives'
  BY DEF InitLives, Point, Alive, ExitPcs, RetInv, RetOk
<1>2. KidsInv'
  BY DEF KidsInv, Alive
<1>3. ParentInv'
  BY DEF ParentInv, Point, Alive, RetInv, RetOk, ForkInv, Forking, OnCpuInv, OffCpuInv
<1>4. ScanInv'
  <2>1. /\ idx[p] \in Proc /\ pc[p] = "fork"
        /\ idx[p] = NPROC => Advance(idx[p]) = 1
    BY ScanOrder
  <2>2. state[idx[p]] = "UNUSED" => pc[idx[p]] = "none" /\ idx[p] # p
    BY FreeOffCpu DEF OnCpuInv
  <2> HIDE DEF Advance, Proc
  <2>3. \A q \in Proc \ {p} : idx'[q] = idx[q] /\ (pc'[q] = pc[q] \/ pc[q] = "none")
    BY <2>2
  <2>4. pc'[p] = "fork" \/ idx'[p] = 1
    BY <2>1
  <2>5. \A q \in Proc \ {p} : ret'[q] = ret[q] /\ (pc'[q] # pc[q] => pc[q] = "none")
    BY <2>3
  <2>6. pc'[p] \in {"fork", "forkParent", "sysret"}
    BY <2>2
  <2> QED BY <2>3, <2>4, <2>5, <2>6 DEF ScanInv, Point, ScanPcs
<1>5. WakeScanInv'
  BY DEF WakeScanInv, OneCpuInv, OnCpuInv, IntrInv, OpenPcs
<1>6. WaitInv'
  BY DEF WaitInv
<1>7. ExitInv'
  BY DEF ExitInv, AsleepInWait
<1>8. SleeperInv'
  BY DEF SleeperInv, AsleepInWait, OneCpuInv, OnCpuInv, OffCpuInv, WaitLockInv, WaitLockPcs, OpenPcs
<1> QED BY <1>1, <1>2, <1>3, <1>4, <1>5, <1>6, <1>7, <1>8 DEF FamilyInv

\* fork() sets the parent, which is alive.
LEMMA ForkParentFamily ==
    ASSUME InitSpared, IndInv, FamilyInv, NEW c \in CPU, NEW p \in Proc, ForkParent(c, p)
    PROVE  FamilyInv'
<1> USE Consts DEF IndInv, TypeOK, FamilyInv, At, Goto, procVars, threadVars, cpuVars, lockVars,
        ForkParent
<1>1. InitLives'
  BY DEF InitLives, Point, Alive, ExitPcs, RetInv, RetOk
<1>2. KidsInv'
  BY DEF KidsInv, Alive, OnCpuInv, OffCpuInv, WaitLockInv, WaitLockPcs, OpenPcs
<1>3. ParentInv'
  BY DEF ParentInv, Point, Alive, RetInv, RetOk, ForkInv, Forking, OnCpuInv, OffCpuInv
<1>4. ScanInv'
  BY DEF ScanInv, Point, ScanPcs
<1>5. WakeScanInv'
  BY DEF WakeScanInv
<1>6. WaitInv'
  BY DEF WaitInv
<1>7. ExitInv'
  BY DEF ExitInv, AsleepInWait, OnCpuInv, OneCpuInv, WaitLockInv, WaitLockPcs, OpenPcs
<1>8. SleeperInv'
  BY DEF SleeperInv, AsleepInWait, OneCpuInv, OnCpuInv, OffCpuInv, WaitLockInv, WaitLockPcs, OpenPcs
<1> QED BY <1>1, <1>2, <1>3, <1>4, <1>5, <1>6, <1>7, <1>8 DEF FamilyInv

\* fork() makes the child runnable.
LEMMA ForkRunFamily ==
    ASSUME InitSpared, IndInv, FamilyInv, NEW c \in CPU, NEW p \in Proc, ForkRun(c, p)
    PROVE  FamilyInv'
<1> USE Consts DEF IndInv, TypeOK, FamilyInv, At, Goto, procVars, threadVars, cpuVars, lockVars,
        ForkRun, Free
<1>1. InitLives'
  BY DEF InitLives, Point, Alive, ExitPcs, RetInv, RetOk
<1>2. KidsInv'
  BY DEF KidsInv, Alive
<1>3. ParentInv'
  BY DEF ParentInv, Point, Alive
<1>4. ScanInv'
  BY DEF ScanInv, Point, ScanPcs
<1>5. WakeScanInv'
  BY DEF WakeScanInv
<1>6. WaitInv'
  BY DEF WaitInv
<1>7. ExitInv'
  BY DEF ExitInv, AsleepInWait
<1>8. SleeperInv'
  BY DEF SleeperInv, AsleepInWait
<1> QED BY <1>1, <1>2, <1>3, <1>4, <1>5, <1>6, <1>7, <1>8 DEF FamilyInv

\* kill(): never of init.
LEMMA KillFamily ==
    ASSUME InitSpared, IndInv, FamilyInv, NEW c \in CPU, NEW p \in Proc, Kill(c, p)
    PROVE  FamilyInv'
<1> USE Consts DEF IndInv, TypeOK, FamilyInv, At, Goto, procVars, threadVars, cpuVars, lockVars,
        Kill, Free
<1>1. InitLives'
  BY DEF InitLives, Point, Alive, ExitPcs, RetInv, RetOk
<1>2. KidsInv'
  BY DEF KidsInv, Alive
<1>3. ParentInv'
  BY DEF ParentInv, Point, Alive
<1>4. ScanInv'
  BY DEF ScanInv, Point, ScanPcs
<1>5. WakeScanInv'
  BY DEF WakeScanInv
<1>6. WaitInv'
  BY DEF WaitInv
<1>7. ExitInv'
  BY DEF ExitInv, AsleepInWait
<1>8. SleeperInv'
  BY DEF SleeperInv, AsleepInWait
<1> QED BY <1>1, <1>2, <1>3, <1>4, <1>5, <1>6, <1>7, <1>8 DEF FamilyInv

\* exit() takes wait_lock.
LEMMA ExitFamily ==
    ASSUME InitSpared, IndInv, FamilyInv, NEW c \in CPU, NEW p \in Proc, Exit(c, p)
    PROVE  FamilyInv'
<1> USE Consts DEF IndInv, TypeOK, FamilyInv, At, Goto, procVars, threadVars, cpuVars, lockVars, Exit
<1>1. InitLives'
  BY DEF InitLives, Point, Alive, ExitPcs, RetInv, RetOk
<1>2. KidsInv'
  <2>1. idx[p] = 1
    BY DEF ScanInv, Point, ScanPcs
  <2> QED BY <2>1, ScanOrder DEF KidsInv
<1>3. ParentInv'
  BY DEF ParentInv, Point, Alive
<1>4. ScanInv'
  BY DEF ScanInv, Point, ScanPcs
<1>5. WakeScanInv'
  BY DEF WakeScanInv
<1>6. WaitInv'
  BY DEF WaitInv
<1>7. ExitInv'
  BY DEF ExitInv, AsleepInWait
<1>8. SleeperInv'
  BY DEF SleeperInv, AsleepInWait
<1> QED BY <1>1, <1>2, <1>3, <1>4, <1>5, <1>6, <1>7, <1>8 DEF FamilyInv

\* A child goes to init.
LEMMA ReparentFamily ==
    ASSUME InitSpared, IndInv, FamilyInv, NEW c \in CPU, NEW p \in Proc, Reparent(c, p)
    PROVE  FamilyInv'
<1> USE Consts DEF IndInv, TypeOK, FamilyInv, At, Goto, procVars, threadVars, cpuVars, lockVars, Reparent
<1>a. /\ p # initproc /\ idx[p] \in Proc /\ cproc[c] = p /\ pc[p] = "reparent"
      /\ pc[initproc] \notin ExitPcs
  BY DEF InitLives, Point, ExitPcs
<1>b. \A d \in CPU, q \in Proc : cproc[d] = q /\ pc[q] \in WaitLockPcs => d = c /\ q = p
  BY <1>a, WaitAlone DEF WaitLockPcs
<1>c. widx[c] = 1
  BY <1>a DEF WakeScanInv
<1>d. \A q \in Proc \ {p} : pc'[q] = pc[q] /\ idx'[q] = idx[q]
  OBVIOUS
<1>1. InitLives'
  BY DEF InitLives, Point, Alive, ExitPcs, RetInv, RetOk
<1>2. KidsInv'
  <2>1. CASE parent[idx[p]] = p
    <3>1. parent' = [parent EXCEPT ![idx[p]] = initproc] /\ pc'[p] = "reparentWake" /\ idx' = idx
      BY <2>1
    <3>2. \A k \in Proc : parent[k] = p /\ k # idx[p] => k > idx[p]
      BY <1>a, ScanOrder DEF KidsInv
    <3>3. state[initproc] \in Alive
      BY DEF InitLives
    <3>4. \A x, k \in Proc : parent'[k] = x => (x = initproc \/ (parent[k] = x /\ k # idx[p]))
      BY <3>1
    <3> QED BY <1>a, <1>d, <3>1, <3>2, <3>3, <3>4 DEF KidsInv, ExitPcs
  <2>2. CASE parent[idx[p]] # p
    <3>1. /\ parent' = parent /\ idx'[p] = Advance(idx[p])
          /\ pc'[p] = IF idx[p] = NPROC THEN "exitWake" ELSE "reparent"
      BY <2>2
    <3>2. \A k \in Proc : parent[k] = p => idx[p] # NPROC /\ k >= Advance(idx[p])
      BY <1>a, <2>2, ScanOrder DEF KidsInv
    <3> QED BY <1>d, <3>1, <3>2 DEF KidsInv
  <2> QED BY <2>1, <2>2
<1>3. ParentInv'
  BY DEF ParentInv, Point, Alive, RetInv, RetOk, ForkInv, Forking, OnCpuInv, OffCpuInv
<1>4. ScanInv'
  <2>1. idx[p] = NPROC => Advance(idx[p]) = 1
    BY <1>a, ScanOrder
  <2> QED BY <1>d, <2>1 DEF ScanInv, Point, ScanPcs
<1>5. WakeScanInv'
  BY DEF WakeScanInv
<1>6. WaitInv'
  <2>1. \A q \in Proc : pc'[q] \notin {"waitEnd", "waitSleep", "waitScan"}
    BY <1>a, <1>d, WaitAlone DEF WaitLockPcs
  <2> QED BY <2>1 DEF WaitInv
<1>7. ExitInv'
  <2>1. \A d \in CPU, k \in Proc :
          cproc[d] = k /\ pc'[k] \in {"exitZombie", "exitWake"} => d = c /\ k = p /\ pc'[k] = "exitWake"
    BY <1>a, <1>b, <1>d DEF WaitLockPcs
  <2>2. \A x \in Proc : x >= widx'[c]
    BY <1>c, ScanOrder
  <2> QED BY <2>1, <2>2 DEF ExitInv
<1>8. SleeperInv'
  <2>1. \A x, k \in Proc : ~(AsleepInWait(x) /\ parent[k] = x /\ state[k] = "ZOMBIE")
    <3>1. \A d \in CPU, q \in Proc : cproc[d] = q => pc[q] # "reparentWake"
      BY <1>a, <1>b DEF WaitLockPcs
    <3> QED BY <3>1, NoLateSleeper
  <2>2. CASE parent[idx[p]] = p
    <3>1. pc'[p] = "reparentWake" /\ cproc'[c] = p /\ widx'[c] = 1
      BY <1>a, <1>c, <2>2
    <3>2. \A x, k \in Proc : parent'[k] = x => x = initproc \/ parent[k] = x
      BY <2>2
    <3> QED BY <2>1, <3>1, <3>2 DEF SleeperInv, AsleepInWait
  <2>3. CASE parent[idx[p]] # p
    BY <2>1, <2>3 DEF SleeperInv, AsleepInWait
  <2> QED BY <2>2, <2>3
<1> QED BY <1>1, <1>2, <1>3, <1>4, <1>5, <1>6, <1>7, <1>8 DEF FamilyInv

\* wakeup(initproc) in reparent().
LEMMA ReparentWakeFamily ==
    ASSUME InitSpared, IndInv, FamilyInv, NEW c \in CPU, NEW p \in Proc, ReparentWake(c, p)
    PROVE  FamilyInv'
<1> USE Consts DEF IndInv, TypeOK, FamilyInv, At, Goto, procVars, threadVars, cpuVars, lockVars,
     ReparentWake, WakeupOne, Free
<1>a. /\ p # initproc /\ idx[p] \in Proc /\ widx[c] \in Proc /\ cproc[c] = p /\ pc[p] = "reparentWake" /\ intr[c] = "none"
  BY DEF InitLives, Point, ExitPcs
<1>b. \A d \in CPU, q \in Proc : cproc[d] = q /\ pc[q] \in WaitLockPcs => d = c /\ q = p
  BY <1>a, WaitAlone DEF WaitLockPcs
<1>c. widx' = [widx EXCEPT ![c] = Advance(widx[c])] /\ UNCHANGED <<parent, cproc, intr, chan, ret>>
  OBVIOUS
<1>d. \A q \in Proc \ {p} : pc'[q] = pc[q] /\ idx'[q] = idx[q]
  OBVIOUS
<1>e. /\ pc'[p] = IF widx[c] # NPROC THEN "reparentWake" ELSE IF idx[p] # NPROC THEN "reparent" ELSE "exitWake"
      /\ idx'[p] = IF widx[c] = NPROC THEN Advance(idx[p]) ELSE idx[p]
  <2>1. CASE widx[c] # NPROC
    BY <2>1
  <2>2. CASE widx[c] = NPROC /\ idx[p] # NPROC
    BY <2>2
  <2>3. CASE widx[c] = NPROC /\ idx[p] = NPROC
    BY <2>3
  <2> QED BY <2>1, <2>2, <2>3
<1>g. widx[c] = NPROC => widx'[c] = 1
  <2>1. widx'[c] = Advance(widx[c])
    BY <1>c
  <2>2. widx[c] = NPROC => Advance(widx[c]) = 1
    BY <1>a, ScanOrder
  <2> QED BY <2>1, <2>2
<1>f. /\ \A q \in Proc : state'[q] = state[q] \/ (state[q] = "SLEEPING" /\ state'[q] = "RUNNABLE")
      /\ widx[c] # p /\ AsleepInWait(initproc) /\ widx[c] = initproc => state'[initproc] = "RUNNABLE"
  BY <1>a DEF AsleepInWait
<1>1. InitLives'
  BY DEF InitLives, Point, Alive, ExitPcs, RetInv, RetOk
<1>2. KidsInv'
  <2>1. \A k \in Proc : parent[k] = p => k > idx[p]
    BY <1>a DEF KidsInv
  <2>2. \A k \in Proc : parent[k] = p => idx[p] # NPROC /\ k >= Advance(idx[p])
    BY <1>a, <2>1, ScanOrder
  <2>3. \A q \in Proc : state[q] \in Alive => state'[q] \in Alive
    BY <1>f DEF Alive
  <2> QED BY <1>c, <1>d, <1>e, <2>1, <2>2, <2>3 DEF KidsInv
<1>3. ParentInv'
  BY DEF ParentInv, Point, Alive
<1>4. ScanInv'
  <2>1. idx[p] = NPROC => Advance(idx[p]) = 1
    BY <1>a, ScanOrder
  <2>2. pc'[p] \in {"reparentWake", "reparent", "exitWake"} /\ (pc'[p] = "exitWake" => idx'[p] = 1)
    BY <1>e, <2>1
  <2> QED BY <1>c, <1>d, <2>2 DEF ScanInv, Point, ScanPcs
<1>5. WakeScanInv'
  <2>1. widx[c] = NPROC => widx'[c] = 1
    BY <1>g
  <2>2. widx'[c] = 1 \/ pc'[p] = "reparentWake"
    <3>1. widx[c] # NPROC => pc'[p] = "reparentWake"
      BY <1>e
    <3> QED BY <2>1, <3>1
  <2>3. \A d \in CPU \ {c} : widx'[d] = widx[d] /\ cproc[d] # p
    BY <1>a, <1>c DEF OneCpuInv
  <2> QED BY <1>a, <1>c, <1>d, <2>2, <2>3 DEF WakeScanInv
<1>6. WaitInv'
  BY DEF WaitInv
<1>7. ExitInv'
  <2>1. \A d \in CPU, k \in Proc :
          cproc[d] = k /\ pc'[k] \in {"exitZombie", "exitWake"} => d = c /\ k = p /\ pc'[k] = "exitWake"
    BY <1>a, <1>b, <1>d, <1>e DEF WaitLockPcs
  <2>2. pc'[p] = "exitWake" => widx'[c] = 1
    BY <1>e, <1>g
  <2>3. \A x \in Proc : x >= 1
    BY ScanOrder
  <2> QED BY <1>c, <2>1, <2>2, <2>3 DEF ExitInv
<1>8. SleeperInv'
  <2>1. \A x, k \in Proc : state'[x] = "SLEEPING" => state[x] = "SLEEPING"
    BY <1>f
  <2>2. \A k \in Proc : state'[k] = "ZOMBIE" => state[k] = "ZOMBIE"
    BY <1>f
  <2>3. CASE widx[c] = initproc
    <3>1. ~AsleepInWait(initproc)'
      BY <1>a, <1>c, <1>f, <2>1, <2>3 DEF AsleepInWait
    <3> QED BY <1>c, <2>1, <2>2, <3>1 DEF SleeperInv, AsleepInWait
  <2>4. CASE widx[c] # initproc
    <3>1. \A d \in CPU, q \in Proc : cproc[d] = q /\ pc[q] = "reparentWake" => widx[d] # 1
      BY <1>a, <1>b, <2>4 DEF WaitLockPcs, initproc
    <3>2. \A x, k \in Proc : ~(AsleepInWait(x) /\ parent[k] = x /\ state[k] = "ZOMBIE")
      BY <3>1, NoLateSleeper
    <3> QED BY <1>c, <2>1, <2>2, <3>2 DEF SleeperInv, AsleepInWait
  <2> QED BY <2>3, <2>4
<1> QED BY <1>1, <1>2, <1>3, <1>4, <1>5, <1>6, <1>7, <1>8 DEF FamilyInv

\* wakeup(p->parent) in exit().
LEMMA ExitWakeFamily ==
    ASSUME InitSpared, IndInv, FamilyInv, NEW c \in CPU, NEW p \in Proc, ExitWake(c, p)
    PROVE  FamilyInv'
<1> USE Consts DEF IndInv, TypeOK, FamilyInv, At, Goto, procVars, threadVars, cpuVars, lockVars,
     ExitWake, WakeupOne, Free
<1>a. widx[c] \in Proc /\ cproc[c] = p /\ pc[p] = "exitWake" /\ intr[c] = "none" /\ state[p] = "RUNNING"
  BY DEF OnCpuInv
<1>b. \A d \in CPU, q \in Proc : cproc[d] = q /\ pc[q] \in WaitLockPcs => d = c /\ q = p
  BY <1>a, WaitAlone DEF WaitLockPcs
<1>c. widx' = [widx EXCEPT ![c] = Advance(widx[c])] /\ UNCHANGED <<parent, cproc, intr, chan, ret>>
  OBVIOUS
<1>d. /\ \A q \in Proc \ {p} : pc'[q] = pc[q]
      /\ pc'[p] = IF widx[c] = NPROC THEN "exitZombie" ELSE "exitWake"
  OBVIOUS
<1>1. InitLives'
  BY DEF InitLives, Point, Alive, ExitPcs, RetInv, RetOk
<1>2. KidsInv'
  BY DEF KidsInv, Alive
<1>3. ParentInv'
  BY DEF ParentInv, Point, Alive
<1>4. ScanInv'
  BY DEF ScanInv, Point, ScanPcs
<1>5. WakeScanInv'
  <2>1. widx[c] = NPROC => widx'[c] = 1
    <3>1. widx'[c] = Advance(widx[c])
      BY <1>c
    <3>2. widx[c] = NPROC => Advance(widx[c]) = 1
      BY <1>a, ScanOrder
    <3> QED BY <3>1, <3>2
  <2>2. widx'[c] = 1 \/ pc'[p] = "exitWake"
    BY <1>d, <2>1
  <2>3. \A d \in CPU \ {c} : widx'[d] = widx[d] /\ cproc[d] # p
    BY <1>a, <1>c DEF OneCpuInv
  <2> QED BY <1>a, <1>c, <1>d, <2>2, <2>3 DEF WakeScanInv
<1>6. WaitInv'
  BY DEF WaitInv
<1>7. ExitInv'
  <2>1. \A d \in CPU, k \in Proc : cproc[d] = k /\ pc'[k] \in {"exitZombie", "exitWake"} => d = c /\ k = p
    BY <1>a, <1>b, <1>d DEF WaitLockPcs
  <2>2. \A x \in Proc : parent[p] = x /\ AsleepInWait(x)' => AsleepInWait(x) /\ x # widx[c]
    BY <1>a, <1>c DEF AsleepInWait
  <2>3. \A x \in Proc : parent[p] = x /\ AsleepInWait(x)' => x >= widx[c] /\ x # widx[c]
    BY <1>a, <2>2 DEF ExitInv
  <2>4. \A x \in Proc : parent[p] = x /\ AsleepInWait(x)' => widx[c] # NPROC /\ x >= Advance(widx[c])
    BY <1>a, <2>3, ScanOrder
  <2> QED BY <1>c, <1>d, <2>1, <2>4 DEF ExitInv
<1>8. SleeperInv'
  BY DEF SleeperInv, AsleepInWait
<1> QED BY <1>1, <1>2, <1>3, <1>4, <1>5, <1>6, <1>7, <1>8 DEF FamilyInv

\* exit() ends: its parent has been woken.
LEMMA ExitZombieFamily ==
    ASSUME InitSpared, IndInv, FamilyInv, NEW c \in CPU, NEW p \in Proc, ExitZombie(c, p)
    PROVE  FamilyInv'
<1> USE Consts DEF IndInv, TypeOK, FamilyInv, At, Goto, procVars, threadVars, cpuVars, lockVars,
        ExitZombie, Free
<1>1. InitLives'
  BY DEF InitLives, Point, Alive, ExitPcs, RetInv, RetOk
<1>2. KidsInv'
  BY DEF KidsInv, Alive
<1>3. ParentInv'
  BY DEF ParentInv, Point, Alive, RetInv, RetOk, ForkInv, Forking, OnCpuInv, OffCpuInv
<1>4. ScanInv'
  BY DEF ScanInv, Point, ScanPcs
<1>5. WakeScanInv'
  BY DEF WakeScanInv
<1>6. WaitInv'
  BY DEF WaitInv, OnCpuInv, OffCpuInv, WaitLockInv, WaitLockPcs, OpenPcs
<1>7. ExitInv'
  BY DEF ExitInv, AsleepInWait
<1>8. SleeperInv'
  <2>1. cproc[c] = p /\ pc[p] = "exitZombie" /\ state[p] = "RUNNING"
    BY DEF OnCpuInv
  <2>2. \A x, k \in Proc : ~(AsleepInWait(x) /\ parent[k] = x /\ state[k] = "ZOMBIE")
    <3>1. \A d \in CPU, q \in Proc : cproc[d] = q => pc[q] # "reparentWake"
      BY <2>1, WaitAlone DEF WaitLockPcs
    <3> QED BY <3>1, NoLateSleeper
  <2>3. \A x \in Proc : ~(AsleepInWait(x) /\ parent[p] = x)
    BY <2>1 DEF ExitInv
  <2>4. \A x \in Proc : AsleepInWait(x)' => AsleepInWait(x)
    BY DEF AsleepInWait
  <2>5. \A k \in Proc \ {p} : state'[k] = state[k]
    OBVIOUS
  <2> QED BY <2>2, <2>3, <2>4, <2>5 DEF SleeperInv
<1> QED BY <1>1, <1>2, <1>3, <1>4, <1>5, <1>6, <1>7, <1>8 DEF FamilyInv

\* wait() takes wait_lock.
LEMMA WaitLockFamily ==
    ASSUME InitSpared, IndInv, FamilyInv, NEW c \in CPU, NEW p \in Proc, WaitLock(c, p)
    PROVE  FamilyInv'
<1> USE Consts DEF IndInv, TypeOK, FamilyInv, At, Goto, procVars, threadVars, cpuVars, lockVars, WaitLock
<1>1. InitLives'
  BY DEF InitLives, Point, Alive, ExitPcs, RetInv, RetOk
<1>2. KidsInv'
  BY DEF KidsInv, Alive
<1>3. ParentInv'
  BY DEF ParentInv, Point, Alive
<1>4. ScanInv'
  BY DEF ScanInv, Point, ScanPcs
<1>5. WakeScanInv'
  BY DEF WakeScanInv
<1>6. WaitInv'
  <2>1. idx[p] = 1
    BY DEF ScanInv, Point, ScanPcs
  <2> QED BY <2>1, ScanOrder DEF WaitInv
<1>7. ExitInv'
  BY DEF ExitInv, AsleepInWait
<1>8. SleeperInv'
  BY DEF SleeperInv, AsleepInWait
<1> QED BY <1>1, <1>2, <1>3, <1>4, <1>5, <1>6, <1>7, <1>8 DEF FamilyInv

\* wait() looks at a slot, and may free it.
LEMMA WaitScanFamily ==
    ASSUME InitSpared, IndInv, FamilyInv, NEW c \in CPU, NEW p \in Proc, WaitScan(c, p)
    PROVE  FamilyInv'
<1> USE Consts DEF IndInv, TypeOK, FamilyInv, At, Goto, procVars, threadVars, cpuVars, lockVars,
     WaitScan, FreeProc, Free
<1>a. /\ idx[p] \in Proc /\ cproc[c] = p /\ pc[p] = "waitScan" /\ state[p] = "RUNNING"
      /\ idx[p] = NPROC => Advance(idx[p]) = 1
  BY ScanOrder DEF OnCpuInv
<1>b. parent[idx[p]] = p /\ state[idx[p]] = "ZOMBIE" => pc[idx[p]] = "dead" /\ idx[p] # p
  BY <1>a, FreeOffCpu
<1>1. InitLives'
  BY DEF InitLives, Point, Alive, ExitPcs, RetInv, RetOk
<1>2. KidsInv'
  BY DEF KidsInv, Alive
<1>3. ParentInv'
  BY DEF ParentInv, Point, Alive, RetInv, RetOk, ForkInv, Forking, OnCpuInv, OffCpuInv
<1>4. ScanInv'
  <2>1. \A q \in Proc \ {p} : idx'[q] = idx[q] /\ ret'[q] = ret[q] /\ (pc'[q] = pc[q] \/ pc[q] = "dead")
    BY <1>b
  <2>2. (pc'[p] = "waitScan" \/ idx'[p] = 1) /\ pc'[p] \in {"waitScan", "waitEnd", "sysret"}
    BY <1>a, <1>b
  <2> QED BY <2>1, <2>2 DEF ScanInv, Point, ScanPcs
<1>5. WakeScanInv'
  BY DEF WakeScanInv, OneCpuInv, OnCpuInv, IntrInv, OpenPcs
<1>6. WaitInv'
  <2>1. \A q \in Proc \ {p} : pc'[q] \notin {"waitEnd", "waitSleep", "waitScan"}
    BY <1>a, <1>b, WaitAlone DEF WaitLockPcs
  <2>2. CASE parent[idx[p]] = p /\ state[idx[p]] = "ZOMBIE"
    <3>1. pc'[p] = "sysret"
      BY <1>b, <2>2
    <3> QED BY <2>1, <3>1 DEF WaitInv
  <2>3. CASE ~(parent[idx[p]] = p /\ state[idx[p]] = "ZOMBIE")
    <3>1. /\ UNCHANGED <<state, parent>> /\ idx'[p] = Advance(idx[p])
          /\ pc'[p] = IF idx[p] = NPROC THEN "waitEnd" ELSE "waitScan"
      BY <2>3
    <3>2. \A k \in Proc : parent[k] = p /\ state[k] = "ZOMBIE" => k >= idx[p] /\ k # idx[p]
      BY <1>a, <2>3 DEF WaitInv
    <3>3. \A k \in Proc : parent[k] = p /\ state[k] = "ZOMBIE" => idx[p] # NPROC /\ k >= Advance(idx[p])
      BY <1>a, <3>2, ScanOrder, ZenonT(40)
    <3> QED BY <2>1, <3>1, <3>3 DEF WaitInv
  <2> QED BY <2>2, <2>3
<1>7. ExitInv'
  BY DEF ExitInv, AsleepInWait
<1>8. SleeperInv'
  BY DEF SleeperInv, AsleepInWait, OneCpuInv, OnCpuInv, OffCpuInv, WaitLockInv, WaitLockPcs, OpenPcs
<1> QED BY <1>1, <1>2, <1>3, <1>4, <1>5, <1>6, <1>7, <1>8 DEF FamilyInv

\* wait() after its scan.
LEMMA WaitEndFamily ==
    ASSUME InitSpared, IndInv, FamilyInv, NEW c \in CPU, NEW p \in Proc, WaitEnd(c, p)
    PROVE  FamilyInv'
<1> USE Consts DEF IndInv, TypeOK, FamilyInv, At, Goto, procVars, threadVars, cpuVars, lockVars,
        WaitEnd, Free
<1>1. InitLives'
  BY DEF InitLives, Point, Alive, ExitPcs, RetInv, RetOk
<1>2. KidsInv'
  BY DEF KidsInv, Alive
<1>3. ParentInv'
  BY DEF ParentInv, Point, Alive
<1>4. ScanInv'
  BY DEF ScanInv, Point, ScanPcs
<1>5. WakeScanInv'
  BY DEF WakeScanInv
<1>6. WaitInv'
  BY DEF WaitInv
<1>7. ExitInv'
  BY DEF ExitInv, AsleepInWait
<1>8. SleeperInv'
  BY DEF SleeperInv, AsleepInWait
<1> QED BY <1>1, <1>2, <1>3, <1>4, <1>5, <1>6, <1>7, <1>8 DEF FamilyInv

\* wait() sleeps: it has seen no ZOMBIE child.
LEMMA WaitSleepFamily ==
    ASSUME InitSpared, IndInv, FamilyInv, NEW c \in CPU, NEW p \in Proc, WaitSleep(c, p)
    PROVE  FamilyInv'
<1> USE Consts DEF IndInv, TypeOK, FamilyInv, At, Goto, procVars, threadVars, cpuVars, lockVars,
     WaitSleep, GoToSleep, Free
<1>1. InitLives'
  BY DEF InitLives, Point, Alive, ExitPcs, RetInv, RetOk
<1>2. KidsInv'
  BY DEF KidsInv, Alive
<1>3. ParentInv'
  BY DEF ParentInv, Point, Alive, RetInv, RetOk, ForkInv, Forking, OnCpuInv, OffCpuInv
<1>4. ScanInv'
  BY DEF ScanInv, Point, ScanPcs
<1>5. WakeScanInv'
  BY DEF WakeScanInv
<1>6. WaitInv'
  BY DEF WaitInv
<1>7. ExitInv'
  BY DEF ExitInv, AsleepInWait, OnCpuInv, OneCpuInv, WaitLockInv, WaitLockPcs, OpenPcs
<1>8. SleeperInv'
  <2>1. cproc[c] = p /\ pc[p] = "waitSleep"
    OBVIOUS
  <2>2. \A x, k \in Proc : ~(AsleepInWait(x) /\ parent[k] = x /\ state[k] = "ZOMBIE")
    <3>1. \A d \in CPU, q \in Proc : cproc[d] = q => pc[q] # "reparentWake"
      BY <2>1, WaitAlone DEF WaitLockPcs
    <3> QED BY <3>1, NoLateSleeper
  <2>3. \A k \in Proc : ~(parent[k] = p /\ state[k] = "ZOMBIE")
    BY <2>1 DEF WaitInv
  <2>4. \A x \in Proc \ {p} : AsleepInWait(x)' => AsleepInWait(x)
    BY DEF AsleepInWait
  <2>5. \A k \in Proc : state'[k] = "ZOMBIE" => state[k] = "ZOMBIE"
    OBVIOUS
  <2> QED BY <2>2, <2>3, <2>4, <2>5 DEF SleeperInv
<1> QED BY <1>1, <1>2, <1>3, <1>4, <1>5, <1>6, <1>7, <1>8 DEF FamilyInv

\* sys_sleep() takes tickslock.
LEMMA SleepLockFamily ==
    ASSUME InitSpared, IndInv, FamilyInv, NEW c \in CPU, NEW p \in Proc, SleepLock(c, p)
    PROVE  FamilyInv'
<1> USE Consts DEF IndInv, TypeOK, FamilyInv, At, Goto, procVars, threadVars, cpuVars, lockVars,
        SleepLock
<1>1. InitLives'
  BY DEF InitLives, Point, Alive, ExitPcs, RetInv, RetOk
<1>2. KidsInv'
  BY DEF KidsInv, Alive
<1>3. ParentInv'
  BY DEF ParentInv, Point, Alive
<1>4. ScanInv'
  BY DEF ScanInv, Point, ScanPcs
<1>5. WakeScanInv'
  BY DEF WakeScanInv
<1>6. WaitInv'
  BY DEF WaitInv
<1>7. ExitInv'
  BY DEF ExitInv, AsleepInWait
<1>8. SleeperInv'
  BY DEF SleeperInv, AsleepInWait
<1> QED BY <1>1, <1>2, <1>3, <1>4, <1>5, <1>6, <1>7, <1>8 DEF FamilyInv

\* The test of sys_sleep().
LEMMA SleepTestFamily ==
    ASSUME InitSpared, IndInv, FamilyInv, NEW c \in CPU, NEW p \in Proc, SleepTest(c, p)
    PROVE  FamilyInv'
<1> USE Consts DEF IndInv, TypeOK, FamilyInv, At, Goto, procVars, threadVars, cpuVars, lockVars,
        SleepTest, Free
<1>1. InitLives'
  BY DEF InitLives, Point, Alive, ExitPcs, RetInv, RetOk
<1>2. KidsInv'
  BY DEF KidsInv, Alive
<1>3. ParentInv'
  BY DEF ParentInv, Point, Alive
<1>4. ScanInv'
  BY DEF ScanInv, Point, ScanPcs
<1>5. WakeScanInv'
  BY DEF WakeScanInv
<1>6. WaitInv'
  BY DEF WaitInv
<1>7. ExitInv'
  BY DEF ExitInv, AsleepInWait
<1>8. SleeperInv'
  BY DEF SleeperInv, AsleepInWait
<1> QED BY <1>1, <1>2, <1>3, <1>4, <1>5, <1>6, <1>7, <1>8 DEF FamilyInv

\* sys_sleep() sleeps, on another channel than wait().
LEMMA SleepSleepFamily ==
    ASSUME InitSpared, IndInv, FamilyInv, NEW c \in CPU, NEW p \in Proc, SleepSleep(c, p)
    PROVE  FamilyInv'
<1> USE Consts DEF IndInv, TypeOK, FamilyInv, At, Goto, procVars, threadVars, cpuVars, lockVars,
     SleepSleep, GoToSleep, Free
<1>1. InitLives'
  BY DEF InitLives, Point, Alive, ExitPcs, RetInv, RetOk
<1>2. KidsInv'
  BY DEF KidsInv, Alive
<1>3. ParentInv'
  BY DEF ParentInv, Point, Alive, RetInv, RetOk, ForkInv, Forking, OnCpuInv, OffCpuInv
<1>4. ScanInv'
  BY DEF ScanInv, Point, ScanPcs
<1>5. WakeScanInv'
  BY DEF WakeScanInv
<1>6. WaitInv'
  BY DEF WaitInv
<1>7. ExitInv'
  BY DEF ExitInv, AsleepInWait
<1>8. SleeperInv'
  BY DEF SleeperInv, AsleepInWait
<1> QED BY <1>1, <1>2, <1>3, <1>4, <1>5, <1>6, <1>7, <1>8 DEF FamilyInv

\* The end of a timer trap.
LEMMA TimerYieldFamily ==
    ASSUME InitSpared, IndInv, FamilyInv, NEW c \in CPU, NEW p \in Proc, TimerYield(c, p)
    PROVE  FamilyInv'
<1> USE Consts DEF IndInv, TypeOK, FamilyInv, At, Goto, procVars, threadVars, cpuVars, lockVars,
     TimerYield, Interruptible, Free
<1>a. pc[p] \in OpenPcs /\ cproc[c] = p /\ ret[p] = "none"
  BY DEF IntrInv, RetInv, RetOk, OpenPcs
<1>1. InitLives'
  BY DEF InitLives, Point, Alive, ExitPcs, RetInv, RetOk
<1>2. KidsInv'
  BY DEF KidsInv, Alive
<1>3. ParentInv'
  BY DEF ParentInv, Point, Alive, RetInv, RetOk, ForkInv, Forking, OnCpuInv, OffCpuInv
<1>4. ScanInv'
  <2>1. \A q \in Proc \ {p} : pc'[q] = pc[q] /\ ret'[q] = ret[q]
    OBVIOUS
  <2>2. (pc[p] = "user" /\ pc'[p] = "exit") \/ (pc'[p] = "sched" /\ ret'[p] = pc[p])
    OBVIOUS
  <2> QED BY <1>a, <2>1, <2>2 DEF ScanInv, Point, ScanPcs, OpenPcs
<1>5. WakeScanInv'
  BY DEF WakeScanInv, OneCpuInv, OnCpuInv, IntrInv, OpenPcs
<1>6. WaitInv'
  BY DEF WaitInv
<1>7. ExitInv'
  BY DEF ExitInv, AsleepInWait
<1>8. SleeperInv'
  <2>1. \A q \in Proc \ {p} : pc'[q] = pc[q] /\ state'[q] = state[q]
    OBVIOUS
  <2>2. state'[p] = state[p] \/ state'[p] = "RUNNABLE"
    OBVIOUS
  <2> QED BY <1>a, <2>1, <2>2 DEF SleeperInv, AsleepInWait, OpenPcs
<1> QED BY <1>1, <1>2, <1>3, <1>4, <1>5, <1>6, <1>7, <1>8 DEF FamilyInv

\* A system call begins.
LEMMA TrapFamily ==
    ASSUME InitSpared, IndInv, FamilyInv, NEW c \in CPU, NEW p \in Proc, NEW call \in Calls, Trap(c, p, call)
    PROVE  FamilyInv'
<1> USE Consts DEF IndInv, TypeOK, FamilyInv, At, Goto, procVars, threadVars, cpuVars, lockVars,
        Trap, Free, Entry
<1>0. /\ pc'[p] \in {"exit", "sysret", "fork", "wait", "kill", "sleep"}
      /\ \A q \in Proc \ {p} : pc'[q] = pc[q] /\ arg'[q] = arg[q] /\ killed'[q] = killed[q]
  BY ProcAssumption DEF ProcAssumption, Entry
<1>1. InitLives'
  <2>1. pc'[p] = "kill" => arg'[p] # 1
    BY DEF Entry, InitSpared
  <2>2. p = initproc => killed' = killed /\ pc'[p] \in {"fork", "wait"}
    BY DEF InitLives, Entry
  <2> QED BY <1>0, <2>1, <2>2 DEF InitLives, Point, Alive, ExitPcs
<1>2. KidsInv'
  BY <1>0 DEF KidsInv
<1>3. ParentInv'
  BY <1>0 DEF ParentInv, Point, Alive
<1>4. ScanInv'
  BY DEF ScanInv, Point, ScanPcs
<1>5. WakeScanInv'
  BY DEF WakeScanInv
<1>6. WaitInv'
  BY <1>0 DEF WaitInv
<1>7. ExitInv'
  BY <1>0 DEF ExitInv, AsleepInWait
<1>8. SleeperInv'
  BY DEF SleeperInv, AsleepInWait
<1> QED BY <1>1, <1>2, <1>3, <1>4, <1>5, <1>6, <1>7, <1>8 DEF FamilyInv

\* scheduler() looks at a slot.
LEMMA SchedulerFamily ==
    ASSUME InitSpared, IndInv, FamilyInv, NEW c \in CPU, Scheduler(c)
    PROVE  FamilyInv'
<1> USE Consts DEF IndInv, TypeOK, FamilyInv, At, Goto, procVars, threadVars, cpuVars, lockVars,
        Scheduler, Free
<1>1. InitLives'
  BY DEF InitLives, Point, Alive, ExitPcs, RetInv, RetOk
<1>2. KidsInv'
  BY DEF KidsInv, Alive
<1>3. ParentInv'
  BY DEF ParentInv, Point, Alive
<1>4. ScanInv'
  BY DEF ScanInv, Point, ScanPcs
<1>5. WakeScanInv'
  BY DEF WakeScanInv
<1>6. WaitInv'
  BY DEF WaitInv
<1>7. ExitInv'
  <2>1. \A q \in Proc : state'[q] = "SLEEPING" => state[q] = "SLEEPING"
    OBVIOUS
  <2>2. \A d \in CPU, k \in Proc : cproc'[d] = k => cproc[d] = k \/ pc[k] \in {"forkret", "slept", "yielded"}
    <3>1. CASE cproc' = cproc
      BY <3>1
    <3>2. CASE cproc' # cproc
      <4>1. sidx[c] \in Proc /\ state[sidx[c]] = "RUNNABLE" /\ cproc' = [cproc EXCEPT ![c] = sidx[c]]
        BY <3>2
      <4>2. pc[sidx[c]] \in {"forkret", "slept", "yielded"}
        BY <4>1, FreeOffCpu DEF OffCpuInv
      <4> QED BY <4>1, <4>2
    <3> QED BY <3>1, <3>2
  <2> QED BY <2>1, <2>2 DEF ExitInv, AsleepInWait
<1>8. SleeperInv'
  BY DEF SleeperInv, AsleepInWait
<1> QED BY <1>1, <1>2, <1>3, <1>4, <1>5, <1>6, <1>7, <1>8 DEF FamilyInv

\* A clock interrupt.
LEMMA ClockIntrFamily ==
    ASSUME InitSpared, IndInv, FamilyInv, NEW c \in CPU, ClockIntr(c)
    PROVE  FamilyInv'
<1> USE Consts DEF IndInv, TypeOK, FamilyInv, At, Goto, procVars, threadVars, cpuVars, lockVars,
     ClockIntr, Interruptible
<1>1. InitLives'
  BY DEF InitLives, Point, Alive, ExitPcs, RetInv, RetOk
<1>2. KidsInv'
  BY DEF KidsInv, Alive
<1>3. ParentInv'
  BY DEF ParentInv, Point, Alive
<1>4. ScanInv'
  BY DEF ScanInv, Point, ScanPcs
<1>5. WakeScanInv'
  BY DEF WakeScanInv
<1>6. WaitInv'
  BY DEF WaitInv
<1>7. ExitInv'
  BY DEF ExitInv, AsleepInWait
<1>8. SleeperInv'
  BY DEF SleeperInv, AsleepInWait
<1> QED BY <1>1, <1>2, <1>3, <1>4, <1>5, <1>6, <1>7, <1>8 DEF FamilyInv

\* wakeup(&ticks).
LEMMA ClockWakeFamily ==
    ASSUME InitSpared, IndInv, FamilyInv, NEW c \in CPU, ClockWake(c)
    PROVE  FamilyInv'
<1> USE Consts DEF IndInv, TypeOK, FamilyInv, At, Goto, procVars, threadVars, cpuVars, lockVars,
     ClockWake, WakeupOne, Free
<1>a. /\ widx[c] \in Proc /\ UNCHANGED <<pc, cproc, parent, chan>>
      /\ \A q \in Proc : cproc[c] = q => pc[q] \in OpenPcs
      /\ \A d \in CPU \ {c} : widx'[d] = widx[d] /\ intr'[d] = intr[d]
      /\ \A q \in Proc : state'[q] = state[q] \/ (state[q] = "SLEEPING" /\ state'[q] = "RUNNABLE")
  BY DEF IntrInv
<1>b. /\ widx'[c] = Advance(widx[c]) /\ (widx[c] # NPROC => intr'[c] = "clock")
      /\ (widx[c] = NPROC => Advance(widx[c]) = 1)
  <2>1. widx'[c] = Advance(widx[c])
    BY <1>a
  <2>2. widx[c] # NPROC => intr'[c] = "clock"
    OBVIOUS
  <2>3. widx[c] = NPROC => Advance(widx[c]) = 1
    BY <1>a, ScanOrder
  <2> QED BY <2>1, <2>2, <2>3
<1>1. InitLives'
  BY DEF InitLives, Point, Alive, ExitPcs, RetInv, RetOk
<1>2. KidsInv'
  BY DEF KidsInv, Alive
<1>3. ParentInv'
  BY DEF ParentInv, Point, Alive
<1>4. ScanInv'
  BY DEF ScanInv, Point, ScanPcs
<1>5. WakeScanInv'
  BY <1>a, <1>b DEF WakeScanInv
<1>6. WaitInv'
  BY DEF WaitInv
<1>7. ExitInv'
  BY <1>a DEF ExitInv, AsleepInWait, OpenPcs
<1>8. SleeperInv'
  BY <1>a DEF SleeperInv, AsleepInWait, OpenPcs
<1> QED BY <1>1, <1>2, <1>3, <1>4, <1>5, <1>6, <1>7, <1>8 DEF FamilyInv

\* init alone at forkret.
LEMMA InitFamily == Init => FamilyInv
  BY Consts DEF Init, FamilyInv, InitLives, KidsInv, ParentInv, ScanInv, WakeScanInv, WaitInv,
        ExitInv, SleeperInv, Point, Alive, ExitPcs

\* Steps of other components leave the families alone.
LEMMA StutterFamily == FamilyInv /\ UNCHANGED vars => FamilyInv'
<1> SUFFICES ASSUME FamilyInv, UNCHANGED vars PROVE FamilyInv'
  OBVIOUS
<1> USE DEF FamilyInv, vars, procVars, threadVars, cpuVars, lockVars
<1>1. InitLives' /\ KidsInv' /\ ParentInv' /\ ScanInv' /\ WakeScanInv'
  BY DEF InitLives, KidsInv, ParentInv, ScanInv, WakeScanInv, Point
<1>2. WaitInv' /\ ExitInv' /\ SleeperInv'
  BY DEF WaitInv, ExitInv, SleeperInv, AsleepInWait
<1> QED BY <1>1, <1>2

\* Every step of the kernel preserves the invariant on families.
LEMMA NextFamily == InitSpared /\ IndInv /\ FamilyInv /\ Next => FamilyInv'
<1> SUFFICES ASSUME InitSpared, IndInv, FamilyInv, NEW c \in CPU,
                    \/ Scheduler(c) \/ ClockIntr(c) \/ ClockWake(c)
                    \/ \E p \in Proc : \/ SwitchStep(c, p) \/ CallStep(c, p)
                                       \/ TimerYield(c, p)
                                       \/ \E call \in Calls : Trap(c, p, call)
             PROVE  FamilyInv'
  BY DEF Next
<1>1. CASE Scheduler(c) \/ ClockIntr(c) \/ ClockWake(c)
  BY <1>1, SchedulerFamily, ClockIntrFamily, ClockWakeFamily
<1>2. CASE \E p \in Proc : SwitchStep(c, p)
  BY <1>2, SchedFamily, ForkretFamily, YieldedFamily, SleptFamily DEF SwitchStep
<1>3. CASE \E p \in Proc : CallStep(c, p)
  BY <1>3, SysretFamily, ForkAllocFamily, ForkParentFamily, ForkRunFamily, KillFamily,
     ExitFamily, ReparentFamily, ReparentWakeFamily, ExitWakeFamily, ExitZombieFamily,
     WaitLockFamily, WaitScanFamily, WaitEndFamily, WaitSleepFamily, SleepLockFamily,
     SleepTestFamily, SleepSleepFamily DEF CallStep
<1>4. CASE \E p \in Proc : TimerYield(c, p)
  BY <1>4, TimerYieldFamily
<1>5. CASE \E p \in Proc : \E call \in Calls : Trap(c, p, call)
  BY <1>5, TrapFamily
<1> QED BY <1>1, <1>2, <1>3, <1>4, <1>5

\* While nobody kills init, every process has a living parent that exit() and
\* wait() agree on.
THEOREM FamilyInvHolds ==
    ASSUME InitSpared
    PROVE  Spec => []FamilyInv
<1>1. Init => FamilyInv
  BY InitFamily
<1>2. IndInv /\ FamilyInv /\ [Next]_vars => FamilyInv'
  BY NextFamily, StutterFamily
<1> QED BY <1>1, <1>2, IndInvHolds, PTL DEF Spec

\* A process that has exited can be reaped: its parent is alive, be it the one
\* that forked it or init.
THEOREM ZombiesAreReapable ==
    ASSUME InitSpared
    PROVE  Spec => []ZombieHasParent
<1>1. IndInv /\ FamilyInv => ZombieHasParent
  <2> SUFFICES ASSUME IndInv, FamilyInv, NEW k \in Proc, state[k] = "ZOMBIE"
               PROVE  parent[k] # NoProc /\ state[parent[k]] \in Alive
    BY DEF ZombieHasParent, Alive
  <2>1. k # initproc
    BY DEF FamilyInv, InitLives, Alive
  <2>2. parent[k] # NoProc
    BY <2>1 DEF FamilyInv, ParentInv
  <2>3. parent[k] \in Proc
    BY <2>2 DEF IndInv, TypeOK
  <2> QED BY <2>2, <2>3 DEF FamilyInv, KidsInv
<1> QED BY <1>1, IndInvHolds, FamilyInvHolds, PTL

\* exit() and wait() lose no wakeup: with wait_lock free, nobody sleeps in wait()
\* with a child that has exited.
THEOREM NoExitIsLost ==
    ASSUME InitSpared
    PROVE  Spec => []NoLostExit
<1>1. IndInv /\ FamilyInv => NoLostExit
  <2> SUFFICES ASSUME IndInv, FamilyInv, wait_lock = NoCpu
               PROVE  \A p, k \in Proc : ~(state[p] = "SLEEPING" /\ chan[p] = p
                                             /\ parent[k] = p /\ state[k] = "ZOMBIE")
    BY DEF NoLostExit
  <2>1. \A d \in CPU, q \in Proc : cproc[d] = q => pc[q] # "reparentWake"
    BY Consts DEF IndInv, WaitLockInv, WaitLockPcs
  <2> QED BY <2>1, NoLateSleeper DEF FamilyInv, AsleepInWait
<1> QED BY <1>1, IndInvHolds, FamilyInvHolds, PTL

=============================================================================
