------------------------------- MODULE MCProc -------------------------------
(***************************************************************************)
(* Small instances of the process table (Proc), of the semaphores of lab2  *)
(* (Semaphore) and of the program that uses them (PingPong), for TLC.      *)
(* They do not act on each other's state, so TLC explores one at a time:   *)
(* part says which.                                                        *)
(*                                                                         *)
(*   "table"     processes of Proc on their CPUs                           *)
(*   "calls"     any calls on semaphores, minus the Excluded overlaps      *)
(*   "pingpong"  two processes that run pingpong.c                         *)
(*                                                                         *)
(* The properties of Semaphore are checked of the last two.                *)
(***************************************************************************)
EXTENDS Proc, PingPong

CONSTANTS
    Other,   \* a third caller
    Parts    \* the parts that are explored

\* The system calls programs make.
AllCalls == {"fork", "exit", "wait", "kill", "sleep", "fault"}
NoSleep == AllCalls \ {"sleep"}

Callers == {Parent, Child, Other}
Both == {Parent, Child}

VARIABLE part

\* Before any pingpong, and with no semaphore past the end of the table.
NoGame ==
    /\ SemInit
    /\ part # "calls" => ~open[NSEM]
    /\ at = [p \in Procs |-> "exited"] /\ n = [p \in Procs |-> 0]
    /\ r = 0 /\ t = 1 /\ pings = 0 /\ pongs = 0

PartInit ==
    /\ part \in Parts
    /\ Init
    /\ IF part = "pingpong" THEN PPInit ELSE NoGame

Table == part = "table" /\ Next /\ UNCHANGED <<allVars, part>>
AnyCalls == part = "calls" /\ SemNext /\ UNCHANGED <<vars, userVars, part>>
Game == part = "pingpong" /\ PPNext /\ UNCHANGED <<vars, part>>
\* When the program is over nothing more happens.
Over == part = "pingpong" /\ Done /\ UNCHANGED <<vars, allVars, part>>

PartSpec == PartInit /\ [][Table \/ AnyCalls \/ Game \/ Over]_<<vars, allVars, part>>
=============================================================================
