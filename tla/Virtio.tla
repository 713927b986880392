------------------------------- MODULE Virtio -------------------------------
(***************************************************************************)
(* The disk driver of the xv6 kernel, kernel/virtio_disk.c, with the       *)
(* device as an actor of its own.                                          *)
(*                                                                         *)
(* A process calls virtio_disk_rw() with a buffer it has locked, so the    *)
(* buffer is named by the process.  vdisk_lock is held by virtio_disk_rw() *)
(* from a test to the next sleep(), one step, and by virtio_disk_intr()    *)
(* over all of its loop, during which the device goes on.  A process that  *)
(* sleeps tests again when it is woken, by wakeup() or by kill().          *)
(*                                                                         *)
(* The avail ring is the set of the chains that the device has been given  *)
(* and the used ring the sequence of those that the driver has not seen:   *)
(* neither can hold more than NUM chains.  Requests do not fail.           *)
(***************************************************************************)
EXTENDS Integers, Sequences, FiniteSets

CONSTANTS
    DProcs,     \* calling processes
    NUM,        \* descriptors (virtio.h)
    DNoProc     \* disk.info[].b of a chain that is not in use

ASSUME VirtioAssumption == NUM \in Nat /\ DNoProc \notin DProcs

Descs == 0..(NUM - 1)

VARIABLES
    free,      \* free descriptors
    info,      \* disk.info[d].b of the chain that starts at d
    busy,      \* b->disk
    avail,     \* chains given to the device
    used,      \* chains it has done, from disk.used_idx to used->idx
    pending,   \* the device asserts its interrupt
    intrAt,    \* where virtio_disk_intr() is
    at,        \* where each process is
    idx,       \* its descriptors
    moved      \* history: the device has moved its data

ringVars == <<avail, used, pending>>
virtioVars == <<free, info, busy, ringVars, intrAt, at, idx, moved>>

\* virtio_disk_init()
VirtioInit ==
    /\ free = Descs
    /\ info = [d \in Descs |-> DNoProc]
    /\ busy = [p \in DProcs |-> FALSE]
    /\ avail = {} /\ used = <<>> /\ pending = FALSE
    /\ intrAt = "out"
    /\ at = [p \in DProcs |-> "idle"]
    /\ idx = [p \in DProcs |-> {}]
    /\ moved = [p \in DProcs |-> FALSE]

Sleepers(l) == {q \in DProcs : at[q] = l}

\* wakeup(): the processes of S test again; p goes on at l.
WakeAnd(S, p, l) ==
    at' = [q \in DProcs |-> IF q = p THEN l
                            ELSE IF q \notin S THEN at[q]
                            ELSE IF at[q] = "descSleep" THEN "rw" ELSE "io"]

-----------------------------------------------------------------------------
(* virtio_disk_rw() *)

DiskCall(p) ==
    /\ at[p] = "idle"
    /\ at' = [at EXCEPT ![p] = "rw"]
    /\ UNCHANGED <<free, info, busy, ringVars, intrAt, idx, moved>>

\* alloc_desc() takes the lowest free descriptor, alloc3_desc() three.
Lowest(S) == CHOOSE d \in S : \A e \in S : d <= e
LowestThree == {d \in free : Cardinality({e \in free : e < d}) < 3}

\* From the allocation to the first sleep.  When alloc3_desc() fails, what
\* it got goes back through free_desc(), which wakes the other sleepers.
DiskRw(p) ==
    /\ at[p] = "rw" /\ intrAt = "out"
    /\ IF Cardinality(free) >= 3
       THEN /\ free' = free \ LowestThree
            /\ idx' = [idx EXCEPT ![p] = LowestThree]
            /\ info' = [info EXCEPT ![Lowest(free)] = p]
            /\ busy' = [busy EXCEPT ![p] = TRUE]
            /\ avail' = avail \cup {Lowest(free)}
            /\ at' = [at EXCEPT ![p] = "ioSleep"]
       ELSE /\ WakeAnd(IF free = {} THEN {} ELSE Sleepers("descSleep"), p, "descSleep")
            /\ UNCHANGED <<free, idx, info, busy, avail>>
    /\ UNCHANGED <<used, pending, intrAt, moved>>

\* Mutant: if instead of while.
RwDoneNoLoop(p) ==
    /\ at[p] = "io" /\ intrAt = "out"
    /\ info' = [info EXCEPT ![Lowest(idx[p])] = DNoProc]
    /\ free' = free \cup idx[p]
    /\ idx' = [idx EXCEPT ![p] = {}]
    /\ moved' = [moved EXCEPT ![p] = FALSE]
    /\ WakeAnd(Sleepers("descSleep"), p, "idle")
    /\ UNCHANGED <<busy, ringVars, intrAt>>

\* The loop while(b->disk == 1), free_chain() and the return.
RwDone(p) ==
    /\ at[p] = "io" /\ intrAt = "out"
    /\ IF busy[p]
       THEN /\ at' = [at EXCEPT ![p] = "ioSleep"]
            /\ UNCHANGED <<free, info, idx, moved>>
       ELSE /\ info' = [info EXCEPT ![Lowest(idx[p])] = DNoProc]
            /\ free' = free \cup idx[p]
            /\ idx' = [idx EXCEPT ![p] = {}]
            /\ moved' = [moved EXCEPT ![p] = FALSE]
            /\ WakeAnd(Sleepers("descSleep"), p, "idle")
    /\ UNCHANGED <<busy, ringVars, intrAt>>

\* kill() makes a sleeping process RUNNABLE.
DiskKillWake(p) ==
    /\ at[p] \in {"descSleep", "ioSleep"}
    /\ WakeAnd({p}, DNoProc, "")
    /\ UNCHANGED <<free, info, busy, ringVars, intrAt, idx, moved>>

-----------------------------------------------------------------------------
(* The device and virtio_disk_intr() *)

\* The device does what it has been given, in any order, and asserts its
\* interrupt.
Complete(d) ==
    /\ d \in avail
    /\ avail' = avail \ {d}
    /\ used' = Append(used, d)
    /\ pending' = TRUE
    /\ moved' = [moved EXCEPT ![info[d]] = TRUE]
    /\ UNCHANGED <<free, info, busy, intrAt, at, idx>>

\* acquire(&disk.vdisk_lock) and the acknowledgement.
IntrBegin ==
    /\ pending /\ intrAt = "out"
    /\ pending' = FALSE
    /\ intrAt' = "loop"
    /\ UNCHANGED <<free, info, busy, avail, used, at, idx, moved>>

\* One turn of the loop, or the end of it.
IntrTurn ==
    /\ intrAt = "loop"
    /\ IF used # <<>>
       THEN LET p == info[Head(used)] IN
            /\ busy' = [busy EXCEPT ![p] = FALSE]
            /\ WakeAnd({p} \cap Sleepers("ioSleep"), DNoProc, "")
            /\ used' = Tail(used)
            /\ UNCHANGED intrAt
       ELSE intrAt' = "leave" /\ UNCHANGED <<busy, used, at>>
    /\ UNCHANGED <<free, info, avail, pending, idx, moved>>

\* Mutant: the interrupt is acknowledged again after the loop.
IntrLeaveAcks ==
    /\ intrAt = "leave"
    /\ intrAt' = "out"
    /\ pending' = FALSE
    /\ UNCHANGED <<free, info, busy, avail, used, at, idx, moved>>

\* release(&disk.vdisk_lock)
IntrLeave ==
    /\ intrAt = "leave"
    /\ intrAt' = "out"
    /\ UNCHANGED <<free, info, busy, ringVars, at, idx, moved>>

-----------------------------------------------------------------------------
VirtioNext ==
    \/ \E p \in DProcs : DiskCall(p) \/ DiskRw(p) \/ RwDone(p) \/ DiskKillWake(p)
    \/ \E d \in Descs : Complete(d)
    \/ IntrBegin \/ IntrTurn \/ IntrLeave

VirtioSpec == VirtioInit /\ [][VirtioNext]_virtioVars

-----------------------------------------------------------------------------
(* Properties *)

\* Type invariant.
VirtioTypeOK ==
    /\ free \subseteq Descs /\ avail \subseteq Descs
    /\ info \in [Descs -> DProcs \cup {DNoProc}]
    /\ busy \in [DProcs -> BOOLEAN] /\ moved \in [DProcs -> BOOLEAN]
    /\ used \in Seq(Descs) /\ pending \in BOOLEAN
    /\ intrAt \in {"out", "loop", "leave"}
    /\ at \in [DProcs -> {"idle", "rw", "descSleep", "io", "ioSleep"}]
    /\ idx \in [DProcs -> SUBSET Descs]

\* virtio_disk_rw() returns only when the device has moved the data of its
\* request, although it may be woken before.
TransferDone ==
    [][\A p \in DProcs : at[p] = "io" /\ at'[p] = "idle" => moved[p]]_virtioVars

\* No wakeup is lost: nobody sleeps for descriptors when three are free, nor
\* for a transfer that is over, and a completion that the driver has not
\* seen will be reported by an interrupt.
NoLostCompletion ==
    /\ \A p \in Sleepers("descSleep") : Cardinality(free) < 3
    /\ \A p \in Sleepers("ioSleep") : busy[p]
    /\ used # <<>> => pending \/ intrAt # "out"
=============================================================================
