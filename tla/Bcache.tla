------------------------------- MODULE Bcache -------------------------------
(***************************************************************************)
(* The buffer cache of the xv6 kernel (kernel/bio.c) and its sleep locks   *)
(* (kernel/sleeplock.c).                                                   *)
(*                                                                         *)
(* bcache.lock and the spin lock of a sleep lock protect short sections:   *)
(* each is one step.  A process that sleeps tests its condition again when *)
(* it is woken, by wakeup() or by kill().                                  *)
(*                                                                         *)
(* A caller holds one buffer at a time.  It changes the data and then      *)
(* either writes them (bwrite) or pins the buffer (log_write), as all      *)
(* callers do; a buffer is unpinned when its data have been written.       *)
(***************************************************************************)
EXTENDS Integers, Sequences, FiniteSets, SequencesExt

CONSTANTS
    BProcs,     \* calling processes
    BBlocks,    \* disk blocks
    BValues,    \* contents of a block
    NBUF,      \* buffers (param.h)
    MaxPins,   \* the log pins at most this many buffers
    NoBlock,   \* block of a buffer never used
    BNoProc    \* holder of a sleep lock that is free

ASSUME BcacheAssumption ==
    /\ NBUF \in Nat \ {0}
    /\ MaxPins \in Nat
    /\ NoBlock \notin BBlocks
    /\ BNoProc \notin BProcs
    /\ IsFiniteSet(BProcs)

Bufs == 1..NBUF

VARIABLES
    lru,       \* bcache.head: the buffers, most recently used first
    blockno,   \* b->blockno
    valid,     \* b->valid
    refcnt,    \* b->refcnt
    data,      \* b->data
    lock,      \* b->lock: the process that holds it
    bdisk,     \* the blocks on the disk
    bpc,       \* where each process is
    b,         \* its buffer
    write,     \* argument of its virtio_disk_rw()
    pinned,    \* buffers pinned by the log
    panicked

bufVars == <<lru, blockno, valid, refcnt, data, lock>>
procVars == <<bpc, b, write, pinned>>
cacheVars == <<bufVars, bdisk, procVars, panicked>>

\* binit() puts each buffer in front; the buffers have equal data (zeroes).
CacheInit ==
    /\ lru = Reverse([i \in Bufs |-> i])
    /\ blockno = [x \in Bufs |-> NoBlock]
    /\ valid = [x \in Bufs |-> FALSE]
    /\ refcnt = [x \in Bufs |-> 0]
    /\ data \in {[x \in Bufs |-> v] : v \in BValues}
    /\ lock = [x \in Bufs |-> BNoProc]
    /\ bdisk \in [BBlocks -> BValues]
    /\ bpc = [p \in BProcs |-> "idle"]
    /\ b = [p \in BProcs |-> 0]
    /\ write = [p \in BProcs |-> FALSE]
    /\ pinned = {}
    /\ panicked = FALSE

BAt(p, l) == ~panicked /\ bpc[p] = l
BGoto(p, l) == bpc' = [bpc EXCEPT ![p] = l]

-----------------------------------------------------------------------------
(* bio.c and sleeplock.c *)

\* The buffers of block k, and the one that bget() takes for it: that of the
\* block, or else the first from the back that nobody refers to.
Cached(k) == {x \in Bufs : blockno[x] = k}
Unused == {i \in Bufs : refcnt[lru[i]] = 0}
BufferFor(k) ==
    IF Cached(k) # {} THEN CHOOSE x \in Cached(k) : TRUE
    ELSE lru[CHOOSE i \in Unused : \A j \in Unused : j <= i]

\* Mutant: a recycled buffer keeps b->valid.
BgetKeepsValid(p, k) ==
    /\ BAt(p, "idle") /\ Cached(k) \cup Unused # {}
    /\ LET x == BufferFor(k) IN
       /\ refcnt' = [refcnt EXCEPT ![x] = @ + 1]
       /\ blockno' = [blockno EXCEPT ![x] = k]
       /\ b' = [b EXCEPT ![p] = x]
    /\ BGoto(p, "lock")
    /\ UNCHANGED <<lru, valid, data, lock, bdisk, write, pinned, panicked>>

\* bget(), up to acquiresleep().
Bget(p, k) ==
    /\ BAt(p, "idle")
    /\ IF Cached(k) \cup Unused = {}
       THEN panicked' = TRUE /\ UNCHANGED <<blockno, valid, refcnt, b, bpc>>
       ELSE LET x == BufferFor(k) IN
            /\ blockno' = [blockno EXCEPT ![x] = k]
            /\ valid' = [valid EXCEPT ![x] = @ /\ Cached(k) # {}]
            /\ refcnt' = [refcnt EXCEPT ![x] = @ + 1]
            /\ b' = [b EXCEPT ![p] = x]
            /\ BGoto(p, "lock")
            /\ UNCHANGED panicked
    /\ UNCHANGED <<lru, data, lock, bdisk, write, pinned>>

\* acquiresleep(), and the test of bread() once the lock is held.
AcquireSleep(p) ==
    /\ BAt(p, "lock")
    /\ IF lock[b[p]] # BNoProc
       THEN BGoto(p, "lockSleep") /\ UNCHANGED lock
       ELSE /\ lock' = [lock EXCEPT ![b[p]] = p]
            /\ BGoto(p, IF valid[b[p]] THEN "holding" ELSE "rw")
    /\ UNCHANGED <<lru, blockno, valid, refcnt, data, bdisk, b, write, pinned,
                   panicked>>

\* The caller changes the data and calls bwrite().
Bwrite(p, v) ==
    /\ BAt(p, "holding")
    /\ IF lock[b[p]] # p
       THEN panicked' = TRUE /\ UNCHANGED <<data, write, bpc>>
       ELSE /\ data' = [data EXCEPT ![b[p]] = v]
            /\ write' = [write EXCEPT ![p] = TRUE]
            /\ BGoto(p, "rw")
            /\ UNCHANGED panicked
    /\ UNCHANGED <<lru, blockno, valid, refcnt, lock, bdisk, b, pinned>>

\* The caller changes the data and log_write() calls bpin(), unless the
\* block is in the log already.
Bpin(p, v) ==
    /\ BAt(p, "holding")
    /\ Cardinality(pinned \cup {b[p]}) <= MaxPins
    /\ data' = [data EXCEPT ![b[p]] = v]
    /\ refcnt' = [refcnt EXCEPT ![b[p]] = IF b[p] \in pinned THEN @ ELSE @ + 1]
    /\ pinned' = pinned \cup {b[p]}
    /\ UNCHANGED <<lru, blockno, valid, lock, bdisk, bpc, b, write, panicked>>

\* install_trans() calls bunpin() when the block has been written.
Bunpin(p) ==
    /\ BAt(p, "holding")
    /\ b[p] \in pinned /\ bdisk[blockno[b[p]]] = data[b[p]]
    /\ refcnt' = [refcnt EXCEPT ![b[p]] = @ - 1]
    /\ pinned' = pinned \ {b[p]}
    /\ UNCHANGED <<lru, blockno, valid, data, lock, bdisk, bpc, b, write, panicked>>

\* brelse() up to the return of releasesleep().
Brelse(p) ==
    /\ BAt(p, "holding")
    /\ IF lock[b[p]] # p
       THEN panicked' = TRUE /\ UNCHANGED <<lock, bpc>>
       ELSE /\ lock' = [lock EXCEPT ![b[p]] = BNoProc]
            /\ bpc' = [q \in BProcs |->
                       IF q = p THEN "brelse"
                       ELSE IF bpc[q] = "lockSleep" /\ b[q] = b[p] THEN "lock"
                       ELSE bpc[q]]
            /\ UNCHANGED panicked
    /\ UNCHANGED <<lru, blockno, valid, refcnt, data, bdisk, b, write, pinned>>

\* The list with buffer x in front.
MoveToFront(x) ==
    LET at == CHOOSE i \in Bufs : lru[i] = x
    IN [i \in Bufs |-> IF i = 1 THEN x ELSE IF i <= at THEN lru[i - 1] ELSE lru[i]]

\* The rest of brelse(): the last user moves the buffer to the front.
BrelseDrop(p) ==
    /\ BAt(p, "brelse")
    /\ refcnt' = [refcnt EXCEPT ![b[p]] = @ - 1]
    /\ lru' = IF refcnt[b[p]] = 1 THEN MoveToFront(b[p]) ELSE lru
    /\ b' = [b EXCEPT ![p] = 0]
    /\ BGoto(p, "idle")
    /\ UNCHANGED <<blockno, valid, data, lock, bdisk, write, pinned, panicked>>

-----------------------------------------------------------------------------
(* virtio_disk_rw() as module Virtio shows it: it returns when the transfer   *)
(* has been done.  The process has the buffer locked all the time.            *)

\* The transfer, and b->valid = 1 of bread() after a read.
Rw(p) ==
    LET k == blockno[b[p]] IN
    /\ BAt(p, "rw")
    /\ IF write[p]
       THEN bdisk' = [bdisk EXCEPT ![k] = data[b[p]]] /\ UNCHANGED <<data, valid>>
       ELSE /\ data' = [data EXCEPT ![b[p]] = bdisk[k]]
            /\ valid' = [valid EXCEPT ![b[p]] = TRUE]
            /\ UNCHANGED bdisk
    /\ write' = [write EXCEPT ![p] = FALSE]
    /\ BGoto(p, "holding")
    /\ UNCHANGED <<lru, blockno, refcnt, lock, b, pinned, panicked>>

\* kill() makes a sleeping process RUNNABLE; acquiresleep() tests again.
KillWake(p) ==
    /\ BAt(p, "lockSleep")
    /\ BGoto(p, "lock")
    /\ UNCHANGED <<bufVars, bdisk, b, write, pinned, panicked>>

-----------------------------------------------------------------------------
KernelStep(p) == AcquireSleep(p) \/ Rw(p) \/ BrelseDrop(p) \/ KillWake(p)
CallerStep(p) ==
    \/ \E k \in BBlocks : Bget(p, k)
    \/ \E v \in BValues : Bwrite(p, v) \/ Bpin(p, v)
    \/ Bunpin(p) \/ Brelse(p)

CacheNext == \E p \in BProcs : KernelStep(p) \/ CallerStep(p)

CacheSpec == CacheInit /\ [][CacheNext]_cacheVars

-----------------------------------------------------------------------------
(* Properties *)

BPcs == {"idle", "lock", "lockSleep", "rw", "holding", "brelse"}

\* Type invariant.
CacheTypeOK ==
    /\ lru \in [Bufs -> Bufs]
    /\ blockno \in [Bufs -> BBlocks \cup {NoBlock}]
    /\ valid \in [Bufs -> BOOLEAN]
    /\ refcnt \in [Bufs -> Nat]
    /\ data \in [Bufs -> BValues] /\ bdisk \in [BBlocks -> BValues]
    /\ lock \in [Bufs -> BProcs \cup {BNoProc}]
    /\ bpc \in [BProcs -> BPcs]
    /\ b \in [BProcs -> Bufs \cup {0}]
    /\ write \in [BProcs -> BOOLEAN]
    /\ pinned \subseteq Bufs /\ panicked \in BOOLEAN

\* The current content of a block and the process that holds it.
CacheMem == [k \in BBlocks |->
           IF \E x \in Cached(k) : valid[x]
           THEN data[CHOOSE x \in Cached(k) : valid[x]] ELSE bdisk[k]]
Holder == [k \in BBlocks |->
              IF \E x \in Cached(k) : lock[x] # BNoProc
              THEN lock[CHOOSE x \in Cached(k) : lock[x] # BNoProc] ELSE BNoProc]

\* Every buffer is pinned by the log or in use by a process, from its bget()
\* to the end of its brelse().
AllInUse == \A x \in Bufs : x \in pinned \/ \E p \in BProcs : b[p] = x

\* The cache is a BlockStore: through hits, recycling, pins and transfers in
\* flight a block has one content, which only its holder changes.  And the
\* kernel panics only when bget() needs a buffer and there is none: no count
\* keeps a buffer that nobody uses, and bwrite() and brelse() are called by
\* the holder of the sleep lock.
BStore == INSTANCE BlockStore
             WITH Procs <- BProcs, Blocks <- BBlocks, Values <- BValues, NoProc <- BNoProc,
                  mem <- CacheMem, holder <- Holder
CacheIsStore == BStore!Spec /\ [](panicked => AllInUse)
=============================================================================
