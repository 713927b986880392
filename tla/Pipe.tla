-------------------------------- MODULE Pipe --------------------------------
(***************************************************************************)
(* One pipe (kernel/pipe.c) with the two entries of the file table that    *)
(* stand for its ends (kernel/file.c), shared by processes that read,      *)
(* write, close and kill each other.  A step is what happens between two   *)
(* points where another process can get in: taking pi->lock, one round of  *)
(* a loop under it, sleeping (which lets the lock go in the same step, see *)
(* module Proc), and dropping the last reference to a file.                *)
(*                                                                         *)
(* The counters nread and nwrite are unsigned and wrap around at WRAP.     *)
(* The bytes are numbered in the order in which the pipe accepts them.     *)
(***************************************************************************)
EXTENDS Integers, Sequences, FiniteSets

CONSTANTS PProc,        \* the processes
          Shares,       \* the ways in which they may share the descriptors
          PIPESIZE,     \* bytes that the pipe holds
          WRAP,         \* values of the counters, 2^32 in the code
          Victims,      \* bound: the processes that may be killed
          MaxBytes      \* bound on the bytes ever written

ASSUME PipeAssumption == /\ PProc \subseteq Nat \ {0} /\ IsFiniteSet(PProc)
                         /\ PIPESIZE \in Nat \ {0} /\ WRAP \in Nat /\ MaxBytes \in Nat
                         /\ WRAP % PIPESIZE = 0 /\ WRAP > PIPESIZE
                         /\ Shares \subseteq [PProc -> SUBSET {"r", "w"}]
                         /\ \A s \in Shares, e \in {"r", "w"} : \E p \in PProc : e \in s[p]

VARIABLES pi,           \* the struct pipe; alloc: its page is not free
          plock,        \* the holder of pi->lock, or NoHolder
          fref,         \* reference counts of the two files
          fds,          \* which ends each process has open
          ppc,          \* where each process is
          left,         \* bytes that its call has still to move
          pkilled,
          cut,          \* a killed writer left bytes behind, nobody was woken since: history
          sent, taken   \* the bytes accepted, and taken out: history

pvars == <<pi, plock, fref, fds, ppc, left, pkilled, cut, sent, taken>>

End == {"r", "w"}
NoHolder == 0
Counter == 0..(WRAP - 1)
Inc(c) == (c + 1) % WRAP

PPcs == {"idle", "rlock", "rloop", "rdoze", "rsleep", "rcopy", "wlock", "wloop", "wdoze", "wsleep", "cr", "cw"}

PipeTypeOK ==
    /\ pi \in [nread : Counter, nwrite : Counter, data : [0..(PIPESIZE - 1) -> Nat],
               readopen : BOOLEAN, writeopen : BOOLEAN, alloc : BOOLEAN]
    /\ plock \in PProc \cup {NoHolder}
    /\ fref \in [End -> Nat]
    /\ fds \in [PProc -> SUBSET End]
    /\ ppc \in [PProc -> PPcs]
    /\ left \in [PProc -> Nat]
    /\ pkilled \in [PProc -> BOOLEAN] /\ cut \in BOOLEAN
    /\ sent \in Seq(Nat) /\ taken \in Seq(Nat)

Holders(fd, e) == Cardinality({p \in PProc : e \in fd[p]})

\* After pipealloc() and the forks that share its descriptors.
PipeInit ==
    /\ pi = [nread |-> 0, nwrite |-> 0, data |-> [k \in 0..(PIPESIZE - 1) |-> 0],
             readopen |-> TRUE, writeopen |-> TRUE, alloc |-> TRUE]
    /\ plock = NoHolder
    /\ fds \in Shares
    /\ fref = [e \in End |-> Holders(fds, e)]
    /\ ppc = [p \in PProc |-> "idle"]
    /\ left = [p \in PProc |-> 0]
    /\ pkilled = [p \in PProc |-> FALSE] /\ cut = FALSE
    /\ sent = <<>> /\ taken = <<>>

Empty == pi.nread = pi.nwrite
\* A bug: one byte too many.
FullLate == pi.nwrite = (pi.nread + PIPESIZE + 1) % WRAP
Full == pi.nwrite = (pi.nread + PIPESIZE) % WRAP

\* wakeup() of everyone who sleeps at one place; they have to take the lock.
wakeup(pc, at, to) == [p \in PProc |-> IF pc[p] = at THEN to ELSE pc[p]]
WakeReaders(pc) == wakeup(pc, "rsleep", "rlock")
WakeWriters(pc) == wakeup(pc, "wsleep", "wlock")
Go(p, pc) == [ppc EXCEPT ![p] = pc]

Lock(p, from, to) == /\ ppc[p] = from /\ plock = NoHolder
                     /\ plock' = p /\ ppc' = Go(p, to)
                     /\ UNCHANGED <<pi, fref, fds, left, pkilled, cut, sent, taken>>

---------------------------------------------------------------------------
\* sys_write() with n bytes, and sys_read() for n.
StartWrite(p, n) ==
    /\ ppc[p] = "idle" /\ "w" \in fds[p] /\ ~pkilled[p]
    /\ Len(sent) + n <= MaxBytes
    /\ ppc' = Go(p, "wlock") /\ left' = [left EXCEPT ![p] = n]
    /\ UNCHANGED <<pi, plock, fref, fds, pkilled, cut, sent, taken>>

StartRead(p, n) ==
    /\ ppc[p] = "idle" /\ "r" \in fds[p] /\ ~pkilled[p]
    /\ ppc' = Go(p, "rlock") /\ left' = [left EXCEPT ![p] = n]
    /\ UNCHANGED <<pi, plock, fref, fds, pkilled, cut, sent, taken>>

\* pipewrite(): one round of the loop, under the lock.
WriteLock(p) == Lock(p, "wlock", "wloop")

\* A bug: the readers are not woken before the writer sleeps.
WriteLoopKeepsReaders(p) ==
    /\ ppc[p] = "wloop" /\ left[p] > 0 /\ pi.readopen /\ ~pkilled[p] /\ Full
    /\ ppc' = Go(p, "wdoze")
    /\ UNCHANGED <<pi, plock, fref, fds, left, pkilled, cut, sent, taken>>
WriteFull(p) ==
    /\ ppc[p] = "wloop" /\ left[p] > 0 /\ pi.readopen /\ ~pkilled[p] /\ Full
    /\ ppc' = WakeReaders(Go(p, "wdoze"))
    /\ cut' = FALSE
    /\ UNCHANGED <<pi, plock, fref, fds, left, pkilled, sent, taken>>

\* sleep(): the process is killed or not since it looked, it sleeps all the same.
WriteSleep(p) ==
    /\ ppc[p] = "wdoze"
    /\ ppc' = Go(p, "wsleep") /\ plock' = NoHolder
    /\ UNCHANGED <<pi, fref, fds, left, pkilled, cut, sent, taken>>

WriteByte(p) ==
    /\ ppc[p] = "wloop" /\ left[p] > 0 /\ pi.readopen /\ ~pkilled[p] /\ ~Full
    /\ LET b == Len(sent) + 1 IN
       /\ pi' = [pi EXCEPT !.data[pi.nwrite % PIPESIZE] = b, !.nwrite = Inc(@)]
       /\ sent' = Append(sent, b)
    /\ left' = [left EXCEPT ![p] = @ - 1]
    /\ UNCHANGED <<plock, fref, fds, ppc, pkilled, cut, taken>>

\* No reader is left or the writer is killed: return -1, nobody is woken.
WriteFails(p) ==
    /\ ppc[p] = "wloop" /\ left[p] > 0 /\ (~pi.readopen \/ pkilled[p])
    /\ ppc' = Go(p, "idle") /\ plock' = NoHolder /\ left' = [left EXCEPT ![p] = 0]
    /\ cut' = (cut \/ (pkilled[p] /\ ~Empty))
    /\ UNCHANGED <<pi, fref, fds, pkilled, sent, taken>>

\* All is written, or the next byte cannot be copied in.
WriteReturns(p) ==
    /\ ppc[p] = "wloop"
    /\ left[p] = 0 \/ (pi.readopen /\ ~pkilled[p] /\ ~Full)
    /\ ppc' = WakeReaders(Go(p, "idle")) /\ plock' = NoHolder /\ left' = [left EXCEPT ![p] = 0]
    /\ cut' = FALSE
    /\ UNCHANGED <<pi, fref, fds, pkilled, sent, taken>>

---------------------------------------------------------------------------
\* piperead(): wait while the pipe is empty and a writer is left.
ReadLock(p) == Lock(p, "rlock", "rloop")

ReadEmpty(p) ==
    /\ ppc[p] = "rloop" /\ Empty /\ pi.writeopen
    /\ IF pkilled[p] THEN ppc' = Go(p, "idle") /\ plock' = NoHolder /\ left' = [left EXCEPT ![p] = 0]
       ELSE ppc' = Go(p, "rdoze") /\ UNCHANGED <<plock, left>>
    /\ UNCHANGED <<pi, fref, fds, pkilled, cut, sent, taken>>

ReadSleep(p) ==
    /\ ppc[p] = "rdoze"
    /\ ppc' = Go(p, "rsleep") /\ plock' = NoHolder
    /\ UNCHANGED <<pi, fref, fds, left, pkilled, cut, sent, taken>>

ReadReady(p) ==
    /\ ppc[p] = "rloop" /\ (~Empty \/ ~pi.writeopen)
    /\ ppc' = Go(p, "rcopy")
    /\ UNCHANGED <<pi, plock, fref, fds, left, pkilled, cut, sent, taken>>

\* A byte is taken, and copied out or (bad) lost: then the loop ends.
ReadByte(p, bad) ==
    /\ ppc[p] = "rcopy" /\ left[p] > 0 /\ ~Empty
    /\ pi' = [pi EXCEPT !.nread = Inc(@)]
    /\ taken' = Append(taken, pi.data[pi.nread % PIPESIZE])
    /\ IF bad THEN /\ ppc' = WakeWriters(Go(p, "idle")) /\ plock' = NoHolder /\ left' = [left EXCEPT ![p] = 0]
       ELSE left' = [left EXCEPT ![p] = @ - 1] /\ UNCHANGED <<ppc, plock>>
    /\ UNCHANGED <<fref, fds, pkilled, cut, sent>>

ReadReturns(p) ==
    /\ ppc[p] = "rcopy" /\ (left[p] = 0 \/ Empty)
    /\ ppc' = WakeWriters(Go(p, "idle")) /\ plock' = NoHolder /\ left' = [left EXCEPT ![p] = 0]
    /\ UNCHANGED <<pi, fref, fds, pkilled, cut, sent, taken>>

---------------------------------------------------------------------------
\* fileclose(): the reference goes first; the process that drops the last one
\* closes the end afterwards.
FileClose(p, e) ==
    /\ ppc[p] = "idle" /\ e \in fds[p]
    /\ fds' = [fds EXCEPT ![p] = @ \ {e}]
    /\ fref' = [fref EXCEPT ![e] = @ - 1]
    /\ ppc' = IF fref[e] > 1 THEN ppc ELSE Go(p, IF e = "r" THEN "cr" ELSE "cw")
    /\ UNCHANGED <<pi, plock, left, pkilled, cut, sent, taken>>

\* A bug: closing the write end wakes the writers.
pipecloseMixed(p) ==
    /\ ppc[p] \in {"cr", "cw"} /\ plock = NoHolder
    /\ ppc' = WakeWriters(Go(p, "idle"))
    /\ LET pi1 == IF ppc[p] = "cw" THEN [pi EXCEPT !.writeopen = FALSE] ELSE [pi EXCEPT !.readopen = FALSE]
       IN  pi' = [pi1 EXCEPT !.alloc = pi1.readopen \/ pi1.writeopen]
    /\ UNCHANGED <<plock, fref, fds, left, pkilled, cut, sent, taken>>
pipeclose(p) ==
    /\ ppc[p] \in {"cr", "cw"} /\ plock = NoHolder
    /\ ppc' = IF ppc[p] = "cw" THEN WakeReaders(Go(p, "idle")) ELSE WakeWriters(Go(p, "idle"))
    /\ LET pi1 == IF ppc[p] = "cw" THEN [pi EXCEPT !.writeopen = FALSE] ELSE [pi EXCEPT !.readopen = FALSE]
       IN  pi' = [pi1 EXCEPT !.alloc = pi1.readopen \/ pi1.writeopen]
    /\ cut' = (ppc[p] = "cr" /\ cut)
    /\ UNCHANGED <<plock, fref, fds, left, pkilled, sent, taken>>

\* kill(): a sleeping victim is made runnable; it takes the lock again first.
PipeKill(p, q) ==
    /\ ppc[p] = "idle" /\ ~pkilled[p] /\ p # q /\ q \in Victims /\ ~pkilled[q]
    /\ pkilled' = [pkilled EXCEPT ![q] = TRUE]
    /\ ppc' = CASE ppc[q] = "rsleep" -> Go(q, "rlock") [] ppc[q] = "wsleep" -> Go(q, "wlock") [] OTHER -> ppc
    /\ UNCHANGED <<pi, plock, fref, fds, left, cut, sent, taken>>

\* Whoever is left sleeps: a process that reads a pipe it alone can write.
PipeDone == (\A p \in PProc : fds[p] = {} \/ ppc[p] \in {"rsleep", "wsleep"}) /\ UNCHANGED pvars

PipeNext ==
    \/ \E p \in PProc :
         \/ WriteLock(p) \/ WriteFull(p) \/ WriteSleep(p) \/ WriteByte(p) \/ WriteFails(p) \/ WriteReturns(p)
         \/ ReadLock(p) \/ ReadEmpty(p) \/ ReadSleep(p) \/ ReadReady(p) \/ ReadReturns(p) \/ pipeclose(p)
         \/ \E n \in {1, PIPESIZE + 1} : StartWrite(p, n) \/ StartRead(p, n)
         \/ \E bad \in BOOLEAN : ReadByte(p, bad)
         \/ \E e \in End : FileClose(p, e)
         \/ \E q \in PProc : PipeKill(p, q)
    \/ PipeDone

PipeSpec == PipeInit /\ [][PipeNext]_pvars

---------------------------------------------------------------------------
InPipe == [k \in 1..((pi.nwrite - pi.nread) % WRAP) |-> pi.data[(pi.nread + k - 1) % PIPESIZE]]

\* What is taken out is what went in, in order, each byte once, across the
\* wrap-around of the counters: pipewrite() and piperead() with several
\* readers and writers.  The page of the pipe is there as long as a process
\* can touch it: pipeclose() has not freed it under a descriptor, a call or
\* a close that is under way.
PipeFifo ==
    /\ taken \o InPipe = sent
    /\ (\E p \in PProc : fds[p] # {} \/ ppc[p] # "idle") => pi.alloc

\* Nobody sleeps for nothing: while the lock is free, a sleeping reader finds
\* the pipe empty with a writer left, and a sleeping writer finds it full with
\* a reader left.  A wakeup() that were missing in pipewrite(), piperead() or
\* pipeclose() would leave a sleeper behind; one is: a writer that is killed
\* between two bytes returns without waking the readers (cut), and they sleep
\* on with bytes in the pipe until another process writes or closes.
PipeSleepers ==
    plock = NoHolder => \A p \in PProc : /\ ppc[p] = "rsleep" => pi.writeopen /\ (Empty \/ cut)
                                         /\ ppc[p] = "wsleep" => Full /\ pi.readopen

=============================================================================
