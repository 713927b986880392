------------------------------ MODULE PingPong ------------------------------
(***************************************************************************)
(* lab2/user/pingpong.c running on the semaphores of module Semaphore: the *)
(* parent takes the first two free semaphores, one with value 1 and one    *)
(* with value 0, forks, and the two processes take turns.                  *)
(*                                                                         *)
(* at[p] is the statement of the program that process p executes; inside a *)
(* system call the steps are those of module Semaphore, and the program    *)
(* goes on once kpc[p] is "user" again.                                    *)
(***************************************************************************)
EXTENDS Semaphore

CONSTANTS
    Parent, Child,  \* the two processes
    N,              \* rounds: argv[1]
    Taken           \* semaphores other programs have open
ASSUME PingPongAssumption ==
    /\ {Parent, Child} \subseteq Procs /\ Parent # Child
    /\ N \in Nat \ {0}
    /\ Taken \subseteq Page \cap 0..(NSEM - 1)

VARIABLES
    at,     \* program statement of each process
    n,      \* its local n
    r, t,   \* the semaphores chosen
    pings, pongs

userVars == <<at, n, r, t, pings, pongs>>
allVars == <<semVars, userVars>>

PPInit ==
    /\ open = [s \in Sem |-> s \in Taken]
    /\ value = [s \in Sem |-> 0]
    /\ lk = [s \in Sem |-> Unheld]
    /\ name = [s \in Sem |-> IF s \in Taken THEN s ELSE NoPage]
    /\ free = Page \ Taken
    /\ kpc = [p \in Procs |-> "user"]
    /\ sem = [p \in Procs |-> 0]
    /\ val = [p \in Procs |-> 0]
    /\ mine = [p \in Procs |-> NoPage]
    /\ granted = [s \in Sem |-> IF s \in Taken THEN 1 ELSE 0]
    /\ panicked = FALSE
    /\ at = [p \in Procs |-> IF p = Parent THEN "openR" ELSE "unborn"]
    /\ n = [p \in Procs |-> N]
    /\ r = 0 /\ t = 1
    /\ pings = 0 /\ pongs = 0

\* The program of p is at l, with no system call in progress.
Ready(p, l) == at[p] = l /\ kpc[p] = "user"
Step(p, l) == at' = [at EXCEPT ![p] = l]

\* while(sem_open(r, 1) == 0) r++;
OpenR ==
    /\ Ready(Parent, "openR")
    /\ OpenCheck(Parent, r, 1)
    /\ IF kpc'[Parent] = "user" THEN r' = r + 1 /\ UNCHANGED at
                               ELSE Step(Parent, "openT") /\ UNCHANGED r
    /\ UNCHANGED <<n, t, pings, pongs>>

\* Mutant of OpenT: the second semaphore starts with value 1 too.
OpenTOne ==
    /\ Ready(Parent, "openT")
    /\ OpenCheck(Parent, t, 1)
    /\ IF kpc'[Parent] = "user" THEN t' = t + 1 /\ UNCHANGED at
                               ELSE Step(Parent, "fork") /\ UNCHANGED t
    /\ UNCHANGED <<n, r, pings, pongs>>

\* while(sem_open(t, 0) == 0) t++;
OpenT ==
    /\ Ready(Parent, "openT")
    /\ OpenCheck(Parent, t, 0)
    /\ IF kpc'[Parent] = "user" THEN t' = t + 1 /\ UNCHANGED at
                               ELSE Step(Parent, "fork") /\ UNCHANGED t
    /\ UNCHANGED <<n, r, pings, pongs>>

\* fork(); when it fails the program exits and leaves its semaphores open.
Fork ==
    /\ Ready(Parent, "fork")
    /\ \/ at' = [at EXCEPT ![Parent] = "down", ![Child] = "down"]
       \/ Step(Parent, "exited")
    /\ UNCHANGED <<semVars, n, r, t, pings, pongs>>

\* Mutant of UpSem: each process raises the semaphore it waited for.
UpSemOwn(p) == IF p = Parent THEN r ELSE t

\* The semaphore a process waits for, and the one it raises.
DownSem(p) == IF p = Parent THEN r ELSE t

UpSem(p) == IF p = Parent THEN t ELSE r

\* while(n > 0) { sem_down(...); ...
LoopDown(p) ==
    /\ Ready(p, "down") /\ n[p] > 0
    /\ DownEnter(p, DownSem(p))
    /\ Step(p, "print")
    /\ UNCHANGED <<n, r, t, pings, pongs>>

\* n--; printf("Ping") or printf("Pong")
PrintLine(p) ==
    /\ Ready(p, "print")
    /\ n' = [n EXCEPT ![p] = @ - 1]
    /\ IF p = Parent THEN pings' = pings + 1 /\ UNCHANGED pongs
                     ELSE pongs' = pongs + 1 /\ UNCHANGED pings
    /\ Step(p, "up")
    /\ UNCHANGED <<semVars, r, t>>

\* sem_up(...); }
LoopUp(p) ==
    /\ Ready(p, "up")
    /\ UpEnter(p, UpSem(p))
    /\ Step(p, "down")
    /\ UNCHANGED <<n, r, t, pings, pongs>>

\* The loop is over: the child exits; the parent waits for it.
LoopEnd(p) ==
    /\ Ready(p, "down") /\ n[p] = 0
    /\ IF p = Child THEN Step(p, "exited")
                    ELSE at[Child] = "exited" /\ Step(p, "closeR")
    /\ UNCHANGED <<semVars, n, r, t, pings, pongs>>

\* sem_close(r); sem_close(t); exit(0)
CloseR ==
    /\ Ready(Parent, "closeR") /\ CloseEnter(Parent, r) /\ Step(Parent, "closeT")
    /\ UNCHANGED <<n, r, t, pings, pongs>>

CloseT ==
    /\ Ready(Parent, "closeT") /\ CloseEnter(Parent, t) /\ Step(Parent, "exited")
    /\ UNCHANGED <<n, r, t, pings, pongs>>

UserStep(p) ==
    \/ p = Parent /\ (OpenR \/ OpenT \/ Fork \/ CloseR \/ CloseT)
    \/ LoopDown(p) \/ PrintLine(p) \/ LoopUp(p) \/ LoopEnd(p)

PPStep(p) == UserStep(p) \/ (SemStep(p) /\ UNCHANGED userVars)

PPNext == \E p \in {Parent, Child} : PPStep(p)

\* Both processes keep running; a lock that is spun on is obtained.
PPSpec ==
    /\ PPInit /\ [][PPNext]_allVars
    /\ \A p \in {Parent, Child} : SF_allVars(PPStep(p))

-----------------------------------------------------------------------------
(* Properties *)

\* Both programs and all their calls are over.
Done == \A p \in Procs : at[p] \in {"exited", "unborn"} /\ kpc[p] = "user"

\* The program implements Alternate until fork() fails: one Pong after each
\* Ping, through every interleaving of the two processes in the kernel.
Abs == INSTANCE Alternate
PingThenPong == Abs!Init /\ [][Abs!Next]_<<pings, pongs>>

\* At the end of a run whose fork() worked the semaphores are as the program
\* found them, and those of other programs were never touched.
TableRestored ==
    /\ \A s \in Taken : open[s] /\ value[s] = 0 /\ lk[s] = Unheld
    /\ Done /\ at[Child] = "exited" =>
          /\ \A s \in Sem : open[s] <=> s \in Taken
          /\ free = Page \ Taken

\* The run ends with the table restored, and when fork() worked all 2N lines
\* have been printed.
Finishes == <>[](Done /\ TableRestored /\ (at[Child] = "exited" => pings = N /\ pongs = N))
=============================================================================
