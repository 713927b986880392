------------------------------- MODULE MCFiles -------------------------------
(***************************************************************************)
(* Small instances of what the descriptors of a process stand for, for     *)
(* TLC: an inode (Itable), a pipe (Pipe) and a device (Console).  They     *)
(* share no variable, so TLC explores one at a time: kind says which.      *)
(* Nothing distinguishes two readers of the console or two processes of    *)
(* Itable.                                                                 *)
(***************************************************************************)
EXTENDS Console, Pipe, Itable, TLC

CONSTANTS
    q1, q2,      \* readers of the console, and processes of the directory
    w1,          \* a writer of the console
    n1, n2       \* names in the directory
TwoProcs == {q1, q2}
OneWriter == {w1}
TwoNames == {n1, n2}
Symmetry == Permutations(Readers)

\* A writer, a reader, and a process that has both ends.
ThreeShares == {<<{"w"}, {"r"}, {"r", "w"}>>}

VARIABLE kind

FilesInit == ConsoleInit /\ PipeInit /\ ItableInit /\ kind \in {"device", "pipe", "inode"}

\* After the panic of iget() nothing happens any more.
Halted == kind = "inode" /\ ipanic /\ UNCHANGED <<consoleVars, pvars, ivars, kind>>

FilesNext ==
    \/ kind = "device" /\ ConsoleNext /\ UNCHANGED <<pvars, ivars, kind>>
    \/ kind = "pipe" /\ PipeNext /\ UNCHANGED <<consoleVars, ivars, kind>>
    \/ kind = "inode" /\ ItableNext /\ UNCHANGED <<consoleVars, pvars, kind>>
    \/ Halted

FilesSpec == FilesInit /\ [][FilesNext]_<<consoleVars, pvars, ivars, kind>>
=============================================================================
