----------------------------- MODULE AtomicDisk -----------------------------
(***************************************************************************)
(* What the log of the xv6 file system promises its callers: a disk whose  *)
(* contents change only by whole groups of operations.  mem is what the    *)
(* operations read and write; stable is what a crash leaves.  stable is    *)
(* brought up to date at once, and only while no operation is in progress, *)
(* so a crash never shows half of one.                                     *)
(***************************************************************************)
CONSTANTS Procs, Blocks, Values

VARIABLES mem, stable, active
diskVars == <<mem, stable, active>>

Init ==
    /\ mem = stable
    /\ stable \in [Blocks -> Values]
    /\ active = {}

Begin(p) ==
    /\ p \notin active
    /\ active' = active \cup {p}
    /\ UNCHANGED <<mem, stable>>

Write(p, b, v) ==
    /\ p \in active
    /\ mem' = [mem EXCEPT ![b] = v]
    /\ UNCHANGED <<stable, active>>

End(p) ==
    /\ p \in active
    /\ active' = active \ {p}
    /\ UNCHANGED <<mem, stable>>

Commit ==
    /\ active = {}
    /\ stable' = mem
    /\ UNCHANGED <<mem, active>>

Crash ==
    /\ mem' = stable
    /\ active' = {}
    /\ UNCHANGED stable

Next ==
    \/ \E p \in Procs : Begin(p) \/ End(p)
    \/ \E p \in Procs, b \in Blocks, v \in Values : Write(p, b, v)
    \/ Commit
    \/ Crash

Spec == Init /\ [][Next]_diskVars
=============================================================================
