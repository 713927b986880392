-------------------------------- MODULE Log ---------------------------------
(***************************************************************************)
(* The write-ahead log of the xv6 file system, kernel/log.c, with crashes  *)
(* at every step and the recovery that follows them, on the buffer cache   *)
(* of kernel/bio.c seen from outside: a block has at most one buffer, only *)
(* the process that has locked it changes it, and a buffer may be recycled *)
(* as soon as it is neither locked nor pinned.                             *)
(*                                                                         *)
(* log.lock protects short sections that sleep nowhere else: each is one   *)
(* step.  A process that sleep()s on &log is at "asleep".  A write of one  *)
(* block to the disk is atomic, the write of the log header included.  The *)
(* buffers of the log's own blocks always equal the disk (every change to  *)
(* them is followed by bwrite()), so they are not represented.             *)
(*                                                                         *)
(* A panic stops the kernel; the next thing that happens is a reboot.      *)
(***************************************************************************)
EXTENDS Integers, Sequences, FiniteSets

CONSTANTS
    Procs,        \* processes in file system calls
    Blocks,       \* home blocks
    Values,       \* contents of a block
    LOGSIZE,      \* param.h
    MAXOPBLOCKS,  \* param.h
    OpBlocks,     \* the most blocks that one operation logs
    NLOG,         \* log.size: sb.nlog, the blocks mkfs gave to the log
    NoBuf,        \* content of a block that has no buffer
    NoProc        \* holder of a buffer that is not locked

ASSUME LogAssumption ==
    /\ LOGSIZE \in Nat
    /\ MAXOPBLOCKS \in Nat /\ MAXOPBLOCKS <= LOGSIZE
    /\ OpBlocks \in Nat /\ OpBlocks < MAXOPBLOCKS
    /\ NLOG \in Nat /\ LOGSIZE <= NLOG /\ OpBlocks + 2 <= NLOG
    /\ NoBuf \notin Values
    /\ NoProc \notin Procs

Slots == 1..LOGSIZE

VARIABLES
    disk,         \* home blocks on the disk
    dhead,        \* block numbers of the header block on the disk
    dlog,         \* log blocks on the disk
    cache,        \* buffered contents of a home block
    pins,         \* references that bpin() added
    holder,       \* process that has the buffer locked
    lh,           \* log.lh.block[0 .. log.lh.n - 1]
    outstanding,  \* log.outstanding
    committing,   \* log.committing
    pc,           \* where each process is
    wrote,        \* the blocks its operation has logged
    tail,         \* loop variable of write_log() and install_trans()
    sys           \* what the kernel is doing: booting, running, panicked

diskPart == <<disk, dhead, dlog>>
bufPart == <<cache, pins, holder>>
logPart == <<lh, outstanding, committing>>
vars == <<diskPart, bufPart, logPart, pc, wrote, tail, sys>>

\* A machine that is switched off or has just been: only the disk is left.
PowerOff ==
    /\ cache' = [b \in Blocks |-> NoBuf]
    /\ pins' = [b \in Blocks |-> 0]
    /\ holder' = [b \in Blocks |-> NoProc]
    /\ lh' = <<>> /\ outstanding' = 0 /\ committing' = FALSE
    /\ pc' = [p \in Procs |-> "idle"]
    /\ wrote' = [p \in Procs |-> {}]
    /\ tail' = 1
    /\ sys' = "boot"

\* The first boot from the image that mkfs made.
Init ==
    /\ disk \in [Blocks -> Values]
    /\ dhead = <<>>
    /\ dlog \in {[i \in Slots |-> v] : v \in Values}
    /\ cache = [b \in Blocks |-> NoBuf]
    /\ pins = [b \in Blocks |-> 0]
    /\ holder = [b \in Blocks |-> NoProc]
    /\ lh = <<>> /\ outstanding = 0 /\ committing = FALSE
    /\ pc = [p \in Procs |-> "idle"]
    /\ wrote = [p \in Procs |-> {}]
    /\ tail = 1
    /\ sys = "boot"

\* A crash, at any moment, recovery included.
Crash ==
    /\ PowerOff
    /\ UNCHANGED diskPart

Goto(p, l) == pc' = [pc EXCEPT ![p] = l]
Running(p, l) == sys = "up" /\ pc[p] = l

\* What bread() of a home block returns.
BlockContent(b) == IF cache[b] = NoBuf THEN disk[b] ELSE cache[b]

\* bget() recycles the buffer of a block that nobody refers to.
Recycle(b) ==
    /\ cache[b] # NoBuf /\ pins[b] = 0 /\ holder[b] = NoProc
    /\ cache' = [cache EXCEPT ![b] = NoBuf]
    /\ UNCHANGED <<diskPart, pins, holder, logPart, pc, wrote, tail, sys>>

-----------------------------------------------------------------------------
(* recover_from_log() *)

\* read_head()
ReadHead ==
    /\ sys = "boot"
    /\ lh' = dhead
    /\ sys' = "recover"
    /\ UNCHANGED <<diskPart, bufPart, outstanding, committing, pc, wrote, tail>>

\* One block of install_trans(): copy it from the log to its home.
InstallBlock ==
    /\ disk' = [disk EXCEPT ![lh[tail]] = dlog[tail]]
    /\ cache' = [cache EXCEPT ![lh[tail]] = dlog[tail]]
    /\ tail' = tail + 1

\* install_trans(1)
RecoverInstall ==
    /\ sys = "recover" /\ tail <= Len(lh)
    /\ InstallBlock
    /\ UNCHANGED <<dhead, dlog, pins, holder, logPart, pc, wrote, sys>>

\* log.lh.n = 0; write_head()
RecoverErase ==
    /\ sys = "recover" /\ tail > Len(lh)
    /\ lh' = <<>> /\ dhead' = <<>>
    /\ tail' = 1
    /\ sys' = "up"
    /\ UNCHANGED <<disk, dlog, bufPart, outstanding, committing, pc, wrote>>

-----------------------------------------------------------------------------
(* begin_op(), log_write(), end_op() *)

\* Mutant: the operation that asks is not counted.
NoRoomForOthers == Len(lh) + outstanding * MAXOPBLOCKS > LOGSIZE

\* The log may not have room for one more operation.
NoRoom == Len(lh) + (outstanding + 1) * MAXOPBLOCKS > LOGSIZE

\* begin_op(), on entry and again after each wakeup.
BeginOp(p) ==
    /\ sys = "up" /\ pc[p] \in {"idle", "begin"}
    /\ IF committing \/ NoRoom
       THEN Goto(p, "asleep") /\ UNCHANGED outstanding
       ELSE Goto(p, "op") /\ outstanding' = outstanding + 1
    /\ UNCHANGED <<diskPart, bufPart, lh, committing, wrote, tail, sys>>

\* wakeup(&log)
WakeLog(p, l) ==
    pc' = [q \in Procs |-> IF q = p THEN l
                           ELSE IF pc[q] = "asleep" THEN "begin" ELSE pc[q]]

\* bread() and a change of the data.  filewrite() splits a write so that one
\* operation logs few blocks.
Modify(p, b, v) ==
    /\ Running(p, "op")
    /\ holder[b] = NoProc
    /\ Cardinality(wrote[p] \cup {b}) <= OpBlocks
    /\ cache' = [cache EXCEPT ![b] = v]
    /\ holder' = [holder EXCEPT ![b] = p]
    /\ Goto(p, "logWrite")
    /\ UNCHANGED <<diskPart, pins, logPart, wrote, tail, sys>>

\* b is in the transaction already (log absorption).
Logged(b) == \E i \in DOMAIN lh : lh[i] = b

\* log_write() of the buffer that p has locked, then brelse().
LogWrite(p) ==
    /\ Running(p, "logWrite")
    /\ \E b \in Blocks :
          /\ holder[b] = p
          /\ IF Len(lh) >= LOGSIZE \/ Len(lh) >= NLOG - 1 \/ outstanding < 1
             THEN sys' = "panic" /\ UNCHANGED <<lh, pins, holder, pc, wrote>>
             ELSE /\ IF Logged(b)
                     THEN UNCHANGED <<lh, pins>>
                     ELSE /\ lh' = Append(lh, b)
                          /\ pins' = [pins EXCEPT ![b] = @ + 1]
                  /\ holder' = [holder EXCEPT ![b] = NoProc]
                  /\ wrote' = [wrote EXCEPT ![p] = @ \cup {b}]
                  /\ Goto(p, "op")
                  /\ UNCHANGED sys
    /\ UNCHANGED <<diskPart, cache, outstanding, committing, tail>>

\* Mutant: end_op() wakes nobody when it is not the last.
EndOpNoWakeup(p) ==
    /\ Running(p, "op")
    /\ outstanding' = outstanding - 1
    /\ wrote' = [wrote EXCEPT ![p] = {}]
    /\ IF committing
       THEN sys' = "panic" /\ UNCHANGED <<committing, pc>>
       ELSE /\ IF outstanding = 1
               THEN committing' = TRUE /\ Goto(p, "writeLog")
               ELSE UNCHANGED committing /\ Goto(p, "idle")
            /\ UNCHANGED sys
    /\ UNCHANGED <<diskPart, bufPart, lh, tail>>

\* end_op() up to the call of commit(): the last operation commits.
EndOp(p) ==
    /\ Running(p, "op")
    /\ outstanding' = outstanding - 1
    /\ wrote' = [wrote EXCEPT ![p] = {}]
    /\ IF committing
       THEN sys' = "panic" /\ UNCHANGED <<committing, pc>>
       ELSE /\ IF outstanding = 1
               THEN committing' = TRUE /\ Goto(p, "writeLog")
               ELSE UNCHANGED committing /\ WakeLog(p, "idle")
            /\ UNCHANGED sys
    /\ UNCHANGED <<diskPart, bufPart, lh, tail>>

-----------------------------------------------------------------------------
(* commit() *)

\* write_log(): copy a block from the cache to the log.
WriteLog(p) ==
    /\ Running(p, "writeLog") /\ tail <= Len(lh)
    /\ holder[lh[tail]] = NoProc
    /\ dlog' = [dlog EXCEPT ![tail] = BlockContent(lh[tail])]
    /\ tail' = tail + 1
    /\ UNCHANGED <<disk, dhead, bufPart, logPart, pc, wrote, sys>>

\* Mutant: the header is written before the log blocks.
WriteHeadEarly(p) ==
    /\ Running(p, "writeLog")
    /\ IF tail <= Len(lh) THEN dhead # lh /\ UNCHANGED <<pc, tail>>
       ELSE tail' = 1 /\ Goto(p, IF lh = <<>> THEN "endCommit" ELSE "install")
    /\ dhead' = lh
    /\ UNCHANGED <<disk, dlog, bufPart, logPart, wrote, sys>>

\* write_head(), the commit point; nothing to do for an empty log.
WriteHead(p) ==
    /\ Running(p, "writeLog") /\ tail > Len(lh)
    /\ IF lh = <<>> THEN UNCHANGED dhead /\ Goto(p, "endCommit")
                    ELSE dhead' = lh /\ Goto(p, "install")
    /\ tail' = 1
    /\ UNCHANGED <<disk, dlog, bufPart, logPart, wrote, sys>>

\* Mutant: install_trans(0) leaves the buffers pinned.
InstallKeepsPin(p) ==
    /\ Running(p, "install") /\ tail <= Len(lh)
    /\ holder[lh[tail]] = NoProc
    /\ InstallBlock
    /\ UNCHANGED <<dhead, dlog, pins, holder, logPart, pc, wrote, sys>>

\* install_trans(0)
Install(p) ==
    /\ Running(p, "install") /\ tail <= Len(lh)
    /\ holder[lh[tail]] = NoProc
    /\ InstallBlock
    /\ pins' = [pins EXCEPT ![lh[tail]] = @ - 1]
    /\ UNCHANGED <<dhead, dlog, holder, logPart, pc, wrote, sys>>

\* log.lh.n = 0; write_head()
Erase(p) ==
    /\ Running(p, "install") /\ tail > Len(lh)
    /\ lh' = <<>> /\ dhead' = <<>>
    /\ tail' = 1
    /\ Goto(p, "endCommit")
    /\ UNCHANGED <<disk, dlog, bufPart, outstanding, committing, wrote, sys>>

\* The rest of end_op().
EndCommit(p) ==
    /\ Running(p, "endCommit")
    /\ committing' = FALSE
    /\ WakeLog(p, "idle")
    /\ UNCHANGED <<diskPart, bufPart, lh, outstanding, wrote, tail, sys>>

CommitStep(p) ==
    \/ WriteLog(p) \/ WriteHead(p) \/ Install(p) \/ Erase(p) \/ EndCommit(p)

-----------------------------------------------------------------------------
Recovery == ReadHead \/ RecoverInstall \/ RecoverErase

Next ==
    \/ Recovery
    \/ Crash
    \/ \E b \in Blocks : Recycle(b)
    \/ \E p \in Procs :
          \/ BeginOp(p) \/ LogWrite(p) \/ EndOp(p) \/ CommitStep(p)
          \/ \E b \in Blocks, v \in Values : Modify(p, b, v)

Spec == Init /\ [][Next]_vars

-----------------------------------------------------------------------------
(* Properties *)

Pcs == {"idle", "begin", "asleep", "op", "logWrite", "writeLog", "install",
        "endCommit"}

TypeOK ==
    /\ disk \in [Blocks -> Values]
    /\ dhead \in Seq(Blocks) /\ lh \in Seq(Blocks)
    /\ dlog \in [Slots -> Values]
    /\ cache \in [Blocks -> Values \cup {NoBuf}]
    /\ pins \in [Blocks -> Nat]
    /\ holder \in [Blocks -> Procs \cup {NoProc}]
    /\ outstanding \in Nat
    /\ committing \in BOOLEAN
    /\ pc \in [Procs -> Pcs]
    /\ wrote \in [Procs -> SUBSET Blocks]
    /\ tail \in Nat \ {0}
    /\ sys \in {"boot", "recover", "up", "panic"}

\* What a crash now would leave on the disk after recovery: the home blocks,
\* with the blocks of a committed transaction in their place.
Stable ==
    [b \in Blocks |-> IF \E i \in DOMAIN dhead : dhead[i] = b
                      THEN dlog[CHOOSE i \in DOMAIN dhead : dhead[i] = b]
                      ELSE disk[b]]

\* What the operations read.
Mem == IF sys \in {"boot", "recover"} THEN Stable
       ELSE [b \in Blocks |-> BlockContent(b)]

Active == {p \in Procs : pc[p] \in {"op", "logWrite"}}

\* The file system is an AtomicDisk: a crash at any step, during commit or
\* during recovery too, leaves all of a group of operations or nothing of
\* it, and what an operation wrote is never lost before a crash.
Abs == INSTANCE AtomicDisk WITH mem <- Mem, stable <- Stable, active <- Active
CrashAtomic == Abs!Spec

\* No panic in log_write() or end_op(): begin_op() reserved enough space.
NoPanic == sys # "panic"

\* When no operation is in progress and none is being committed, everything
\* written is on the disk in its home.
QuietIsDurable ==
    sys = "up" /\ outstanding = 0 /\ ~committing =>
        /\ lh = <<>> /\ dhead = <<>>
        /\ \A b \in Blocks : BlockContent(b) = disk[b] /\ pins[b] = 0

\* begin_op() misses no wakeup: a process sleeps on &log only while a commit
\* is in progress or the log has no room for it.
SleeperHasReason ==
    \A p \in Procs : pc[p] = "asleep" => committing \/ NoRoom
=============================================================================
