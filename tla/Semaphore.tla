----------------------------- MODULE Semaphore ------------------------------
(***************************************************************************)
(* The semaphores that lab2 adds to the xv6 kernel: sem_open, sem_close,   *)
(* sem_up and sem_down of lab2/kernel/proc.c, called by any number of      *)
(* processes at once through the system calls of lab2/kernel/sysproc.c.    *)
(*                                                                         *)
(* s->open is read, and sem_open() writes the whole semaphore, without any *)
(* lock, so each of those accesses is a step of its own.  s->locked is a   *)
(* spin lock: lk[s] is the process whose CPU holds it.  initlock() frees   *)
(* it whoever holds it, and release() panics when the caller does not      *)
(* hold it, so acquire and the section it protects are separate steps.     *)
(* sleep() and wakeup() are atomic with respect to each other, which is    *)
(* what module Proc is about.                                              *)
(***************************************************************************)
EXTENDS Integers, FiniteSets

CONSTANTS
    Procs,        \* the calling processes
    Unheld,       \* the owner of a free lock
    NSEM,         \* size of the table
    NPages,       \* pages kalloc() can hand out
    SemArgs,      \* arguments passed as sem
    Values,       \* arguments passed to sem_open as value
    MaxValue,     \* bound: sem_up is called while the value is below this
    Excluded      \* the overlaps of calls that do not happen (MayOpen, ...)

ASSUME SemAssumption ==
    /\ Unheld \notin Procs
    /\ NSEM \in Nat \ {0}
    /\ NPages \in Nat
    /\ SemArgs \subseteq Nat
    /\ Values \subseteq Int
    /\ MaxValue \in Nat
    /\ Excluded \subseteq {"open", "use", "close"}

\* The indices that sem_open() accepts: sem > NSEM is refused, so the last
\* one lies past the end of the table.
Sem == 0..NSEM
Page == 1..NPages
NoPage == 0

VARIABLES
    open,      \* s->open == 1
    value,     \* s->value
    lk,        \* owner of s->locked
    name,      \* s->locked.name, a page from kalloc()
    free,      \* free pages
    kpc,       \* where each process is
    sem,       \* the argument sem of its call
    val,       \* the argument value of its sem_open
    mine,      \* the page its sem_open got
    granted,   \* history: sem_opens of s that returned 1 since the last close
    panicked   \* release() found the lock not held

tableVars == <<open, value, lk, name, free>>
callVars == <<kpc, sem, val, mine>>
semVars == <<tableVars, callVars, granted, panicked>>

\* The semaphore that p's call works on.
S(p) == sem[p]

SemPcs == {"user", "openSet", "openValue", "openLock", "upAcquire", "up",
           "downAcquire", "down", "downDec", "asleep",
           "closeAcquire", "close", "closeFree", "closeRelease"}

\* The table is zeroed memory; what lies past its end may hold anything.
SemInit ==
    /\ open \in {f \in [Sem -> BOOLEAN] : \A s \in Sem : f[s] => s = NSEM}
    /\ value = [s \in Sem |-> 0]
    /\ lk = [s \in Sem |-> Unheld]
    /\ name = [s \in Sem |-> NoPage]
    /\ free = Page
    /\ kpc = [p \in Procs |-> "user"]
    /\ sem = [p \in Procs |-> 0]
    /\ val = [p \in Procs |-> 0]
    /\ mine = [p \in Procs |-> NoPage]
    /\ granted = [s \in Sem |-> 0]
    /\ panicked = FALSE

SemAt(p, l) == ~panicked /\ kpc[p] = l
SemGoto(p, l) == kpc' = [kpc EXCEPT ![p] = l]

\* acquire(&s->locked), spinning until it is free.
Acquire(p, l) ==
    /\ lk[S(p)] = Unheld
    /\ lk' = [lk EXCEPT ![S(p)] = p]
    /\ SemGoto(p, l)

\* release(&s->locked): panics if the CPU does not hold it.
Release(p) ==
    /\ panicked' = (lk[S(p)] # p)
    /\ lk' = [lk EXCEPT ![S(p)] = Unheld]

\* The call returns; its locals are gone.
Return(p) ==
    /\ SemGoto(p, "user")
    /\ sem' = [sem EXCEPT ![p] = 0]
    /\ val' = [val EXCEPT ![p] = 0]
    /\ mine' = [mine EXCEPT ![p] = NoPage]

\* The processes inside a call on s, and inside sem_open or sem_close of s.
Inside(s) == {p \in Procs : kpc[p] # "user" /\ sem[p] = s}
Opening(s) == {p \in Inside(s) : kpc[p] \in {"openSet", "openValue", "openLock"}}
Closing(s) == {p \in Inside(s) : kpc[p] \in {"closeAcquire", "close", "closeFree", "closeRelease"}}
Freeing(s) == {p \in Inside(s) : kpc[p] = "closeFree"}
Raising(s) == {p \in Inside(s) : kpc[p] \in {"upAcquire", "up"}}

-----------------------------------------------------------------------------
(* sem_open(s, v) *)

\* kalloc(), the range check and the test of s->open.  A bad index returns
\* without freeing the page.
OpenCheck(p, s, v) ==
    /\ SemAt(p, "user")
    /\ \/ free = {} /\ UNCHANGED <<free, callVars>>
       \/ \E pg \in free :
             \/ /\ s > NSEM
                /\ free' = free \ {pg}
                /\ UNCHANGED callVars
             \/ /\ s <= NSEM /\ open[s]
                /\ UNCHANGED <<free, callVars>>
             \/ /\ s <= NSEM /\ ~open[s]
                /\ free' = free \ {pg}
                /\ sem' = [sem EXCEPT ![p] = s]
                /\ val' = [val EXCEPT ![p] = v]
                /\ mine' = [mine EXCEPT ![p] = pg]
                /\ SemGoto(p, "openSet")
    /\ UNCHANGED <<open, value, lk, name, granted, panicked>>

\* s->open = 1
OpenSet(p) ==
    /\ SemAt(p, "openSet")
    /\ open' = [open EXCEPT ![S(p)] = TRUE]
    /\ SemGoto(p, "openValue")
    /\ UNCHANGED <<value, lk, name, free, sem, val, mine, granted, panicked>>

\* s->value = value
OpenValue(p) ==
    /\ SemAt(p, "openValue")
    /\ value' = [value EXCEPT ![S(p)] = val[p]]
    /\ SemGoto(p, "openLock")
    /\ UNCHANGED <<open, lk, name, free, sem, val, mine, granted, panicked>>

\* initlock(&s->locked, name); return 1
OpenLock(p) ==
    /\ SemAt(p, "openLock")
    /\ lk' = [lk EXCEPT ![S(p)] = Unheld]
    /\ name' = [name EXCEPT ![S(p)] = mine[p]]
    /\ granted' = [granted EXCEPT ![S(p)] = @ + 1]
    /\ Return(p)
    /\ UNCHANGED <<open, value, free, panicked>>

-----------------------------------------------------------------------------
(* sem_up, sem_down, sem_close *)

\* The unlocked test of s->open: a closed semaphore returns 0 at once.
Enter(p, s, l) ==
    /\ SemAt(p, "user")
    /\ s \in Sem
    /\ IF open[s] THEN /\ SemGoto(p, l)
                       /\ sem' = [sem EXCEPT ![p] = s]
                  ELSE UNCHANGED <<kpc, sem>>
    /\ UNCHANGED <<tableVars, val, mine, granted, panicked>>

UpEnter(p, s) ==
    /\ s \in Sem => value[s] + Cardinality(Raising(s)) < MaxValue
    /\ Enter(p, s, "upAcquire")
DownEnter(p, s) == Enter(p, s, "downAcquire")
CloseEnter(p, s) == Enter(p, s, "closeAcquire")

AcquireStep(p, from, to) ==
    /\ SemAt(p, from)
    /\ Acquire(p, to)
    /\ UNCHANGED <<open, value, name, free, sem, val, mine, granted, panicked>>

UpAcquire(p) == AcquireStep(p, "upAcquire", "up")
DownAcquire(p) == AcquireStep(p, "downAcquire", "down")
CloseAcquire(p) == AcquireStep(p, "closeAcquire", "close")

\* Mutant of Up: the wakeup is forgotten.
UpNoWakeup(p) ==
    /\ SemAt(p, "up")
    /\ value' = [value EXCEPT ![S(p)] = @ + 1]
    /\ Release(p)
    /\ SemGoto(p, "user")
    /\ sem' = [sem EXCEPT ![p] = 0]
    /\ UNCHANGED <<open, name, free, val, mine, granted>>

\* sem_up: s->value++; wakeup(s); release.  wakeup() makes every process
\* that sleeps on s RUNNABLE: it reacquires the lock next.
Up(p) ==
    /\ SemAt(p, "up")
    /\ value' = [value EXCEPT ![S(p)] = @ + 1]
    /\ Release(p)
    /\ kpc' = [q \in Procs |->
                IF q = p THEN "user"
                ELSE IF kpc[q] = "asleep" /\ sem[q] = sem[p] THEN "downAcquire"
                ELSE kpc[q]]
    /\ sem' = [sem EXCEPT ![p] = 0]
    /\ UNCHANGED <<open, name, free, val, mine, granted>>

\* sem_down: sleep(s, &s->locked) while s->value <= 0, ...
DownSleep(p) ==
    /\ SemAt(p, "down") /\ value[S(p)] <= 0
    /\ Release(p)
    /\ SemGoto(p, "asleep")
    /\ UNCHANGED <<open, value, name, free, sem, val, mine, granted>>

DownTest(p) ==
    /\ SemAt(p, "down") /\ value[S(p)] > 0
    /\ SemGoto(p, "downDec")
    /\ UNCHANGED <<tableVars, sem, val, mine, granted, panicked>>

\* ... then s->value--; release; return 1.
Down(p) ==
    /\ SemAt(p, "downDec")
    /\ value' = [value EXCEPT ![S(p)] = @ - 1]
    /\ Release(p)
    /\ Return(p)
    /\ UNCHANGED <<open, name, free, granted>>

\* kill() makes a sleeping process RUNNABLE; sem_down() only loops.
KillWake(p) ==
    /\ SemAt(p, "asleep")
    /\ SemGoto(p, "downAcquire")
    /\ UNCHANGED <<tableVars, sem, val, mine, granted, panicked>>

\* sem_close, with the lock held: s->open = 0, which others read without it, ...
Close(p) ==
    /\ SemAt(p, "close")
    /\ open' = [open EXCEPT ![S(p)] = FALSE]
    /\ granted' = [granted EXCEPT ![S(p)] = 0]
    /\ SemGoto(p, "closeFree")
    /\ UNCHANGED <<value, lk, name, free, sem, val, mine, panicked>>

\* Mutant of CloseFree: the name is not freed.
CloseKeepsName(p) ==
    /\ SemAt(p, "closeFree")
    /\ SemGoto(p, "closeRelease")
    /\ UNCHANGED <<tableVars, sem, val, mine, granted, panicked>>

\* ... then kfree(name), ...
CloseFree(p) ==
    /\ SemAt(p, "closeFree")
    /\ free' = free \cup ({name[S(p)]} \ {NoPage})
    /\ SemGoto(p, "closeRelease")
    /\ UNCHANGED <<open, value, lk, name, sem, val, mine, granted, panicked>>

\* ... then wakeup(&s->locked) and release.  No process sleeps on &s->locked:
\* sem_down() sleeps on s.
CloseRelease(p) ==
    /\ SemAt(p, "closeRelease")
    /\ Release(p)
    /\ Return(p)
    /\ UNCHANGED <<open, value, name, free, granted>>

-----------------------------------------------------------------------------
\* The steps of a process inside a system call.
SemStep(p) ==
    \/ OpenSet(p) \/ OpenValue(p) \/ OpenLock(p)
    \/ UpAcquire(p) \/ Up(p)
    \/ DownAcquire(p) \/ DownSleep(p) \/ DownTest(p) \/ Down(p)
    \/ CloseAcquire(p) \/ Close(p) \/ CloseFree(p) \/ CloseRelease(p)

\* The code itself keeps no two calls apart: with Excluded = {} any calls may
\* overlap, those of programs that know nothing of each other included.  Three
\* overlaps break it, and each can be left out:
\*   "open"   a sem_open() that finds the semaphore closed while another call
\*            on it is in progress (MCSemOpenRace.cfg), or whose index is bad:
\*            it keeps its page
\*   "use"    another call that begins while a sem_open() is initializing
\*   "close"  two sem_close() of one semaphore (MCSemCloseRace.cfg)
\* Nothing else is: a sem_open() of a semaphore that is open, as pingpong.c
\* tries it, and sem_up() and sem_down() during and after a sem_close().
MayOpen(s) == "open" \in Excluded => s \in Sem /\ (open[s] \/ Inside(s) = {})
MayUse(s) == "use" \in Excluded => Opening(s) = {}
MayClose(s) == MayUse(s) /\ ("close" \in Excluded => Closing(s) = {})

SemNext ==
    \E p \in Procs :
        \/ SemStep(p)
        \/ KillWake(p)
        \/ \E s \in SemArgs :
              \/ MayOpen(s) /\ \E v \in Values : OpenCheck(p, s, v)
              \/ MayUse(s) /\ (UpEnter(p, s) \/ DownEnter(p, s))
              \/ MayClose(s) /\ CloseEnter(p, s)

SemSpec == SemInit /\ [][SemNext]_semVars

-----------------------------------------------------------------------------
(* Properties *)

\* Type invariant.
SemTypeOK ==
    /\ open \in [Sem -> BOOLEAN]
    /\ value \in [Sem -> Int]
    /\ lk \in [Sem -> Procs \cup {Unheld}]
    /\ name \in [Sem -> Page \cup {NoPage}]
    /\ free \subseteq Page
    /\ kpc \in [Procs -> SemPcs]
    /\ sem \in [Procs -> Sem]
    /\ val \in [Procs -> Values \cup {0}]
    /\ mine \in [Procs -> Page \cup {NoPage}]
    /\ granted \in [Sem -> Nat]
    /\ panicked \in BOOLEAN

\* sem_up never loses a waiter: while nobody is inside the lock, a process
\* sleeps on s only if the value is 0, which is the least it can be.
NoLostUp ==
    \A s \in Sem, p \in Procs :
        lk[s] = Unheld /\ kpc[p] = "asleep" /\ sem[p] = s => value[s] = 0

\* The page that sem_close() gives to kfree() came from kalloc() and has not
\* been freed since.
NameInUse == \A p \in Procs : kpc[p] = "closeFree" => name[S(p)] \in Page \ free

\* Name pages are neither leaked nor freed twice: unless a sem_open() is in
\* progress or a sem_close() is about to free one, the pages in use are those of
\* the open semaphores, whoever is still inside a semaphore that was closed.
\* No release() panics.
PagesAccounted ==
    /\ (\A s \in Sem : Opening(s) \cup Freeing(s) = {}) =>
           Page \ free = {name[s] : s \in {t \in Sem : t < NSEM /\ open[t]}}
    /\ NameInUse
    /\ ~panicked

\* A semaphore is opened for one caller: sem_open() returns 0 when the
\* semaphore is already open (pingpong.c takes the next number then).
OpenExclusive == \A s \in Sem : granted[s] <= 1
=============================================================================
