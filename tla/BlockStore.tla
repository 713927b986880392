----------------------------- MODULE BlockStore -----------------------------
(***************************************************************************)
(* What the buffer cache of the xv6 kernel promises: every disk block has  *)
(* one current content, whatever buffer it is in, and one process at a     *)
(* time holds it and may change it.                                        *)
(***************************************************************************)
CONSTANTS Procs, Blocks, Values, NoProc

VARIABLES mem, holder

Init ==
    /\ mem \in [Blocks -> Values]
    /\ holder = [k \in Blocks |-> NoProc]

Hold(p, k) ==
    /\ holder[k] = NoProc
    /\ holder' = [holder EXCEPT ![k] = p]
    /\ UNCHANGED mem

Write(p, k, v) ==
    /\ holder[k] = p
    /\ mem' = [mem EXCEPT ![k] = v]
    /\ UNCHANGED holder

Drop(p, k) ==
    /\ holder[k] = p
    /\ holder' = [holder EXCEPT ![k] = NoProc]
    /\ UNCHANGED mem

Next ==
    \E p \in Procs, k \in Blocks :
        Hold(p, k) \/ Drop(p, k) \/ \E v \in Values : Write(p, k, v)

Spec == Init /\ [][Next]_<<mem, holder>>
=============================================================================
