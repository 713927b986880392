---------------------------- MODULE StorageProofs ---------------------------
(***************************************************************************)
(* Proofs about modules Log, Bcache and Virtio, the layers below the file  *)
(* system, for every number of processes, blocks, buffers and descriptors. *)
(*                                                                         *)
(* Log: LogInv is the inductive invariant.  Its parts say who may be where *)
(* (StartInv, CommitInv, HolderInv, TailInv), what is in the cache, in the *)
(* log and on the disk at each point of a commit and of a recovery         *)
(* (LogPinInv, LogCacheInv, CopyInv), and how much of the log is spoken    *)
(* for (WroteInv, CountInv, RoomInv).  From it follow that nothing panics  *)
(* and that the log implements AtomicDisk.                                 *)
(*                                                                         *)
(* Bcache: the buffer cache implements BlockStore.  CacheInv says which    *)
(* buffer a block is in (at most one), whom the reference count counts,    *)
(* who holds a sleep lock, and when a buffer may differ from its block on  *)
(* the disk: when it is pinned, or when its holder is about to write it.   *)
(* So a buffer that bget() recycles is equal to its block, and nothing is  *)
(* lost.                                                                   *)
(*                                                                         *)
(* Virtio: VirtioInv follows a request through the rings: its chain is     *)
(* with the device (avail), then done and not seen by the driver (used),   *)
(* then seen.  In the first two cases, and in no other, its b->disk is     *)
(* set.                                                                    *)
(***************************************************************************)
EXTENDS Log, Bcache, Virtio, FiniteSetTheorems, SequenceTheorems, WellFoundedInduction, TLAPS

-----------------------------------------------------------------------------
(* The log *)

CommitPcs == {"writeLog", "install", "endCommit"}
Committers == {p \in Procs : pc[p] \in CommitPcs}
Starting == sys \in {"boot", "recover"}

\* A log header has a block once, and as many blocks as fit.
Header(h) ==
    /\ Len(h) <= LOGSIZE
    /\ \A i, j \in DOMAIN h : h[i] = h[j] => i = j
HeaderInv == Header(lh) /\ Header(dhead)

\* Before recovery is over no process has done anything.
StartInv ==
    Starting =>
        /\ holder = [blk \in Blocks |-> NoProc]
        /\ pc = [p \in Procs |-> "idle"]
        /\ outstanding = 0 /\ committing = FALSE
        /\ lh = IF sys = "boot" THEN <<>> ELSE dhead
        /\ sys = "boot" => tail = 1

\* At most one process commits, and then no operation is in progress.
CommitInv ==
    /\ committing <=> Committers # {}
    /\ \A p, q \in Committers : p = q
    /\ committing => Active = {}

\* A buffer is locked by the process that is between Modify and LogWrite, and
\* by no other.
HolderInv ==
    /\ \A blk \in Blocks : holder[blk] # NoProc => pc[holder[blk]] = "logWrite"
    /\ \A p \in Procs : pc[p] = "logWrite" => \E blk \in Blocks : holder[blk] = p
    /\ \A blk, c \in Blocks : holder[blk] = holder[c] /\ holder[blk] # NoProc => blk = c

\* Where the loops over the header are, and what is in the two headers.
TailInv ==
    /\ tail <= Len(lh) + 1
    /\ sys = "up" =>
         /\ \A p \in Procs :
              /\ pc[p] = "install" => dhead = lh
              /\ pc[p] = "endCommit" => lh = <<>>
         /\ (\A p \in Procs : pc[p] # "install") => dhead = <<>>
         /\ (\A p \in Procs : pc[p] \notin {"writeLog", "install"}) => tail = 1
         /\ outstanding = 0 /\ ~committing => lh = <<>>

\* The blocks of the transaction that are not yet in their homes.
Unwritten(blk) ==
    \E i \in DOMAIN lh : lh[i] = blk /\ ((\E p \in Procs : pc[p] = "install") => i >= tail)

\* These are pinned, and no other.
LogPinInv == \A blk \in Blocks : pins[blk] = IF ~Starting /\ Unwritten(blk) THEN 1 ELSE 0

\* A buffer that is neither pinned nor locked agrees with the disk; one that
\* is has not been recycled.
LogCacheInv ==
    \A blk \in Blocks :
        /\ pins[blk] = 0 /\ holder[blk] = NoProc => cache[blk] \in {NoBuf, disk[blk]}
        /\ pins[blk] > 0 \/ holder[blk] # NoProc => cache[blk] # NoBuf

\* What the log blocks on the disk hold: a prefix of the transaction while
\* write_log() copies it, all of it while install_trans() does.
CopyInv ==
    /\ \A p \in Procs, i \in DOMAIN lh : sys = "up" /\ pc[p] = "writeLog" /\ i < tail => dlog[i] = cache[lh[i]]
    /\ \A p \in Procs, i \in DOMAIN lh :
          sys = "up" /\ pc[p] = "install" => dlog[i] = IF i < tail THEN disk[lh[i]] ELSE cache[lh[i]]
    /\ \A i \in DOMAIN lh : sys = "recover" /\ i < tail => dlog[i] = disk[lh[i]]

\* The blocks that operations A, which have logged w, may still log: as a set
\* so that they can be counted, OpBlocks - |w[p]| elements for each p.
RestOf(A, w) == {x \in A \X (1..OpBlocks) : x[2] <= OpBlocks - Cardinality(w[x[1]])}
Rest == RestOf(Active, wrote)

\* What an operation has logged is in the log; log.outstanding counts the
\* operations; and the log has room for what they may still log, two blocks
\* less than it holds: either one operation began on the empty log, or the last
\* of several found MAXOPBLOCKS for each of them.
WroteInv ==
    \A p \in Procs :
        /\ IsFiniteSet(wrote[p]) /\ Cardinality(wrote[p]) <= OpBlocks
        /\ p \notin Active => wrote[p] = {}
        /\ \A blk \in wrote[p] : Logged(blk)
        /\ \A blk \in Blocks : holder[blk] = p => Cardinality(wrote[p] \cup {blk}) <= OpBlocks
CountInv == IsFiniteSet(Active) /\ outstanding = Cardinality(Active)
RoomInv ==
    sys = "up" =>
        \/ Len(lh) + Cardinality(Rest) <= OpBlocks
        \/ Len(lh) + Cardinality(Rest) <= LOGSIZE - 2 * (MAXOPBLOCKS - OpBlocks)

LogInv ==
    /\ TypeOK /\ NoPanic
    /\ HeaderInv /\ StartInv /\ CommitInv /\ HolderInv /\ TailInv
    /\ LogPinInv /\ LogCacheInv /\ CopyInv
    /\ WroteInv /\ CountInv /\ RoomInv
    /\ SleeperHasReason

-----------------------------------------------------------------------------
(* What the operations in progress may still log. *)

\* There are at most OpBlocks of them for each operation.
LEMMA RestBound ==
    ASSUME NEW A, NEW w, IsFiniteSet(A)
    PROVE  /\ IsFiniteSet(RestOf(A, w)) /\ Cardinality(RestOf(A, w)) \in Nat
           /\ Cardinality(RestOf(A, w)) <= Cardinality(A) * OpBlocks
<1> DEFINE All == A \X (1..OpBlocks)
<1>1. IsFiniteSet(1..OpBlocks) /\ Cardinality(1..OpBlocks) = OpBlocks
  BY FS_Interval, LogAssumption DEF LogAssumption
<1>2. IsFiniteSet(All) /\ Cardinality(All) = Cardinality(A) * OpBlocks
  BY <1>1, FS_Product
<1>3. RestOf(A, w) \in SUBSET All
  BY DEF RestOf
<1> QED BY <1>2, <1>3, FS_Subset, FS_CardinalityType

\* A new operation adds OpBlocks.
LEMMA RestBegin ==
    ASSUME NEW A, NEW w, NEW p, IsFiniteSet(A), p \notin A, w[p] = {}
    PROVE  Cardinality(RestOf(A \cup {p}, w)) = Cardinality(RestOf(A, w)) + OpBlocks
<1> DEFINE New == {p} \X (1..OpBlocks)
<1>1. IsFiniteSet(1..OpBlocks) /\ Cardinality(1..OpBlocks) = OpBlocks
  BY FS_Interval, LogAssumption DEF LogAssumption
<1>2. IsFiniteSet(New) /\ Cardinality(New) = OpBlocks
  <2>1. IsFiniteSet({p}) /\ Cardinality({p}) = 1
    BY FS_Singleton
  <2> QED BY <1>1, <2>1, FS_Product, LogAssumption DEF LogAssumption
<1>3. RestOf(A \cup {p}, w) = RestOf(A, w) \cup New
  <2>1. ASSUME NEW x \in (A \cup {p}) \X (1..OpBlocks)
        PROVE  x \in RestOf(A \cup {p}, w) <=> x \in RestOf(A, w) \/ x \in New
    <3>1. CASE x[1] = p
      <4>1. Cardinality(w[x[1]]) = 0
        BY <3>1, FS_EmptySet
      <4> QED BY <3>1, <4>1, LogAssumption DEF RestOf, LogAssumption
    <3>2. CASE x[1] # p
      BY <3>2 DEF RestOf
    <3> QED BY <3>1, <3>2
  <2> QED BY <2>1 DEF RestOf
<1>4. RestOf(A, w) \cap New = {}
  BY DEF RestOf
<1>5. IsFiniteSet(RestOf(A, w)) /\ Cardinality(RestOf(A, w)) \in Nat
  BY RestBound
<1>6. Cardinality(RestOf(A, w) \cup New) = Cardinality(RestOf(A, w)) + OpBlocks - Cardinality({})
  BY <1>2, <1>4, <1>5, FS_Union
<1>7. Cardinality({}) = 0
  BY FS_EmptySet
<1>8. Cardinality(RestOf(A \cup {p}, w)) = Cardinality(RestOf(A, w) \cup New)
  BY <1>3
<1> HIDE DEF New
<1> QED BY <1>5, <1>6, <1>7, <1>8, LogAssumption DEF LogAssumption

\* A block that is logged for the first time takes one away.
LEMMA RestWrite ==
    ASSUME NEW A, NEW w, NEW p \in A, NEW blk, IsFiniteSet(A), p \in DOMAIN w,
           IsFiniteSet(w[p]), blk \notin w[p], Cardinality(w[p] \cup {blk}) <= OpBlocks
    PROVE  Cardinality(RestOf(A, [w EXCEPT ![p] = @ \cup {blk}])) = Cardinality(RestOf(A, w)) - 1
<1> DEFINE n == Cardinality(w[p])
           v == [w EXCEPT ![p] = @ \cup {blk}]
           gone == <<p, OpBlocks - n>>
<1>1. n \in Nat /\ Cardinality(v[p]) = n + 1 /\ n + 1 <= OpBlocks
  <2>1. n \in Nat
    BY FS_CardinalityType
  <2>2. Cardinality(w[p] \cup {blk}) = n + 1
    BY FS_AddElement
  <2>3. v[p] = w[p] \cup {blk}
    OBVIOUS
  <2> QED BY <2>1, <2>2, <2>3
<1>2. gone \in RestOf(A, w)
  BY <1>1, LogAssumption DEF RestOf, LogAssumption
<1>3. RestOf(A, v) = RestOf(A, w) \ {gone}
  <2>1. ASSUME NEW x \in A \X (1..OpBlocks)
        PROVE  x \in RestOf(A, v) <=> x \in RestOf(A, w) /\ x # gone
    <3>1. CASE x[1] = p
      BY <1>1, <3>1, LogAssumption DEF RestOf, LogAssumption
    <3>2. CASE x[1] # p
      BY <3>2 DEF RestOf
    <3> QED BY <3>1, <3>2
  <2> QED BY <2>1 DEF RestOf
<1>4. IsFiniteSet(RestOf(A, w))
  BY RestBound
<1>5. Cardinality(RestOf(A, w) \ {gone}) = Cardinality(RestOf(A, w)) - 1
  BY <1>2, <1>4, FS_RemoveElement
<1> HIDE DEF gone
<1> QED BY <1>3, <1>5

\* An operation that ends takes its own away.
LEMMA RestEnd ==
    ASSUME NEW A, NEW w, NEW p, IsFiniteSet(A)
    PROVE  Cardinality(RestOf(A \ {p}, [w EXCEPT ![p] = {}])) <= Cardinality(RestOf(A, w))
<1>1. RestOf(A \ {p}, [w EXCEPT ![p] = {}]) \in SUBSET RestOf(A, w)
  BY DEF RestOf
<1> QED BY <1>1, RestBound, FS_Subset

-----------------------------------------------------------------------------
(* The space invariants. *)

\* A step that changes neither the log nor who is in an operation keeps them.
LEMMA SpaceFrame ==
    ASSUME WroteInv, CountInv, RoomInv, Active' = Active,
           UNCHANGED <<lh, wrote, outstanding, holder, sys>>
    PROVE  WroteInv' /\ CountInv' /\ RoomInv'
<1>1. Rest' = Rest
  BY DEF Rest
<1>2. \A blk : Logged(blk)' = Logged(blk)
  BY DEF Logged
<1> QED BY <1>1, <1>2 DEF WroteInv, CountInv, RoomInv

\* They hold where no operation is in progress and the log is empty.
LEMMA SpaceQuiet ==
    ASSUME wrote' = [p \in Procs |-> {}], outstanding' = 0, Active' = {},
           sys' = "up" => lh' = <<>>, \A blk \in Blocks : holder'[blk] \notin Procs
    PROVE  WroteInv' /\ CountInv' /\ RoomInv'
<1>1. IsFiniteSet({}) /\ Cardinality({}) = 0
  BY FS_EmptySet
<1>2. Rest' = {}
  BY DEF Rest, RestOf
<1>3. RoomInv'
  BY <1>1, <1>2, LogAssumption DEF RoomInv, LogAssumption
<1>4. WroteInv'
  BY <1>1, LogAssumption DEF WroteInv, LogAssumption
<1> QED BY <1>1, <1>3, <1>4 DEF CountInv

\* What begin_op() reserves for two or more operations and they do not use.
LEMMA Slack ==
    ASSUME NEW n \in Nat, n # 0
    PROVE  (n + 1) * MAXOPBLOCKS >= n * OpBlocks + OpBlocks + 2 * (MAXOPBLOCKS - OpBlocks)
<1> DEFINE d == MAXOPBLOCKS - OpBlocks
<1>1. d \in Nat /\ MAXOPBLOCKS = OpBlocks + d
  BY LogAssumption DEF LogAssumption
<1>2. (n + 1) * MAXOPBLOCKS = n * OpBlocks + OpBlocks + (n + 1) * d
  BY <1>1, LogAssumption DEF LogAssumption
<1>3. (n + 1) * d >= 2 * d
  BY <1>1
<1>4. (n + 1) * MAXOPBLOCKS >= n * OpBlocks + OpBlocks + 2 * d
  <2>1. n * OpBlocks \in Nat /\ (n + 1) * d \in Nat
    BY <1>1, LogAssumption DEF LogAssumption
  <2> QED BY <1>1, <1>2, <1>3, <2>1, LogAssumption DEF LogAssumption
<1> QED BY <1>4

-----------------------------------------------------------------------------
(* The header. *)

\* What log_write() adds to it.
LEMMA AppendHeader ==
    ASSUME NEW h \in Seq(Blocks), NEW blk \in Blocks
    PROVE  /\ Append(h, blk) \in Seq(Blocks) /\ Len(Append(h, blk)) = Len(h) + 1
           /\ DOMAIN h = 1..Len(h) /\ DOMAIN Append(h, blk) = 1..(Len(h) + 1)
           /\ \A i \in 1..Len(h) : Append(h, blk)[i] = h[i]
           /\ Append(h, blk)[Len(h) + 1] = blk
OBVIOUS

\* It is then the one block more that the transaction has.
LEMMA LoggedAppend ==
    ASSUME lh \in Seq(Blocks), NEW blk \in Blocks, lh' = Append(lh, blk)
    PROVE  \A c \in Blocks : Logged(c)' <=> Logged(c) \/ c = blk
<1>1. /\ DOMAIN lh = 1..Len(lh) /\ DOMAIN lh' = 1..(Len(lh) + 1) /\ Len(lh) \in Nat
      /\ \A i \in 1..Len(lh) : lh'[i] = lh[i]
      /\ lh'[Len(lh) + 1] = blk
  BY AppendHeader
<1> QED BY <1>1 DEF Logged

-----------------------------------------------------------------------------
(* Every action preserves the invariant. *)

\* read_head() at boot.
LEMMA ReadHeadPreserves ==
    ASSUME LogInv, ReadHead
    PROVE  LogInv'
<1> USE LogAssumption DEF LogAssumption, LogInv, TypeOK, NoPanic, ReadHead, diskPart, bufPart
<1>1. TypeOK'
  OBVIOUS
<1>2. NoPanic'
  OBVIOUS
<1>3. HeaderInv'
  BY DEF HeaderInv
<1>4. StartInv'
  BY DEF StartInv, Starting
<1>5. CommitInv'
  BY DEF CommitInv, Committers, Active
<1>6. HolderInv'
  BY DEF HolderInv
<1>7. TailInv'
  BY DEF TailInv, StartInv, Starting
<1>8. LogPinInv'
  BY DEF LogPinInv, Unwritten, Starting
<1>9. LogCacheInv'
  BY DEF LogCacheInv
<1>10. CopyInv'
  BY DEF CopyInv, StartInv, Starting
<1>11. WroteInv' /\ CountInv' /\ RoomInv'
  <2>1. Active = {}
    BY DEF StartInv, Starting, Active
  <2>2. wrote = [q \in Procs |-> {}] /\ outstanding = 0
    BY <2>1, FS_EmptySet DEF WroteInv, CountInv
  <2>3. Active' = {} /\ (sys' = "up" => lh' = <<>>) /\ \A c \in Blocks : holder'[c] \notin Procs
    BY <2>1 DEF StartInv, Starting, Active
  <2> QED BY <2>2, <2>3, SpaceQuiet
<1>12. SleeperHasReason'
  BY DEF SleeperHasReason, StartInv, Starting
<1> QED BY <1>1, <1>2, <1>3, <1>4, <1>5, <1>6, <1>7, <1>8, <1>9, <1>10, <1>11, <1>12 DEF LogInv

\* One block of install_trans(1).
LEMMA RecoverInstallPreserves ==
    ASSUME LogInv, RecoverInstall
    PROVE  LogInv'
<1> USE LogAssumption DEF LogAssumption, LogInv, TypeOK, NoPanic, RecoverInstall, InstallBlock, logPart
<1>1. TypeOK'
  <2>1. lh[tail] \in Blocks /\ dlog[tail] \in Values
    BY DEF HeaderInv, Header, Slots
  <2> QED BY <2>1
<1>2. NoPanic'
  OBVIOUS
<1>3. HeaderInv'
  BY DEF HeaderInv
<1>4. StartInv'
  BY DEF StartInv, Starting
<1>5. CommitInv'
  BY DEF CommitInv, Committers, Active
<1>6. HolderInv'
  BY DEF HolderInv
<1>7. TailInv'
  BY DEF TailInv
<1>8. LogPinInv'
  BY DEF LogPinInv, Unwritten, Starting
<1>9. LogCacheInv'
  BY DEF LogCacheInv, LogPinInv, StartInv, Starting
<1>10. CopyInv'
  BY DEF CopyInv, LogPinInv, HeaderInv, Header, Starting
<1>11. WroteInv' /\ CountInv' /\ RoomInv'
  <2>1. Active' = Active
    BY DEF Active
  <2> QED BY <2>1, SpaceFrame
<1>12. SleeperHasReason'
  BY DEF SleeperHasReason, NoRoom
<1> QED BY <1>1, <1>2, <1>3, <1>4, <1>5, <1>6, <1>7, <1>8, <1>9, <1>10, <1>11, <1>12 DEF LogInv

\* The end of recovery.
LEMMA RecoverErasePreserves ==
    ASSUME LogInv, RecoverErase
    PROVE  LogInv'
<1> USE LogAssumption DEF LogAssumption, LogInv, TypeOK, NoPanic, RecoverErase, bufPart
<1>1. TypeOK'
  OBVIOUS
<1>2. NoPanic'
  OBVIOUS
<1>3. HeaderInv'
  BY DEF HeaderInv, Header
<1>4. StartInv'
  BY DEF StartInv, Starting
<1>5. CommitInv'
  BY DEF CommitInv, Committers, Active
<1>6. HolderInv'
  BY DEF HolderInv
<1>7. TailInv'
  BY DEF TailInv
<1>8. LogPinInv'
  BY DEF LogPinInv, Unwritten, Starting
<1>9. LogCacheInv'
  BY DEF LogCacheInv
<1>10. CopyInv'
  BY DEF CopyInv
<1>11. WroteInv' /\ CountInv' /\ RoomInv'
  <2>1. Active = {}
    BY DEF StartInv, Starting, Active
  <2>2. wrote = [q \in Procs |-> {}] /\ outstanding = 0
    BY <2>1, FS_EmptySet DEF WroteInv, CountInv
  <2>3. Active' = {} /\ (sys' = "up" => lh' = <<>>) /\ \A c \in Blocks : holder'[c] \notin Procs
    BY <2>1 DEF StartInv, Starting, Active
  <2> QED BY <2>2, <2>3, SpaceQuiet
<1>12. SleeperHasReason'
  BY DEF SleeperHasReason, StartInv, Starting
<1> QED BY <1>1, <1>2, <1>3, <1>4, <1>5, <1>6, <1>7, <1>8, <1>9, <1>10, <1>11, <1>12 DEF LogInv

\* A crash, of which only the disk is left.
LEMMA CrashPreserves ==
    ASSUME LogInv, Crash
    PROVE  LogInv'
<1> USE LogAssumption DEF LogAssumption, LogInv, TypeOK, NoPanic, Crash, PowerOff, diskPart
<1>1. TypeOK'
  <2>1. pc' \in [Procs -> Pcs] /\ wrote' \in [Procs -> SUBSET Blocks]
    BY DEF Pcs
  <2>2. cache' \in [Blocks -> Values \cup {NoBuf}] /\ pins' \in [Blocks -> Nat] /\ holder' \in [Blocks -> Procs \cup {NoProc}]
    OBVIOUS
  <2>3. committing' \in BOOLEAN
    OBVIOUS
  <2> QED BY <2>1, <2>2, <2>3
<1>2. NoPanic'
  OBVIOUS
<1>3. HeaderInv'
  BY DEF HeaderInv, Header
<1>4. StartInv'
  BY DEF StartInv, Starting
<1>5. CommitInv'
  BY DEF CommitInv, Committers, CommitPcs
<1>6. HolderInv'
  BY DEF HolderInv
<1>7. TailInv'
  BY DEF TailInv
<1>8. LogPinInv'
  BY DEF LogPinInv, Unwritten, Starting
<1>9. LogCacheInv'
  BY DEF LogCacheInv
<1>10. CopyInv'
  BY DEF CopyInv
<1>11. WroteInv' /\ CountInv' /\ RoomInv'
  <2>1. Active' = {}
    BY DEF Active
  <2> QED BY <2>1, SpaceQuiet
<1>12. SleeperHasReason'
  BY DEF SleeperHasReason, NoRoom
<1> QED BY <1>1, <1>2, <1>3, <1>4, <1>5, <1>6, <1>7, <1>8, <1>9, <1>10, <1>11, <1>12 DEF LogInv

\* bget() takes a buffer that is neither pinned nor locked.
LEMMA RecyclePreserves ==
    ASSUME LogInv, NEW blk \in Blocks, Recycle(blk)
    PROVE  LogInv'
<1> USE LogAssumption DEF LogAssumption, LogInv, TypeOK, NoPanic, Recycle, diskPart, logPart
<1>1. TypeOK'
  OBVIOUS
<1>2. NoPanic'
  OBVIOUS
<1>3. HeaderInv'
  BY DEF HeaderInv
<1>4. StartInv'
  BY DEF StartInv, Starting
<1>5. CommitInv'
  BY DEF CommitInv, Committers, Active
<1>6. HolderInv'
  BY DEF HolderInv
<1>7. TailInv'
  BY DEF TailInv
<1>8. LogPinInv'
  BY DEF LogPinInv, Unwritten, Starting
<1>9. LogCacheInv'
  BY DEF LogCacheInv
<1>10. CopyInv'
  <2>1. Starting \/ ~Unwritten(blk)
    BY DEF LogPinInv
  <2> QED BY <2>1 DEF CopyInv, Unwritten, Starting, CommitInv, Committers, CommitPcs
<1>11. WroteInv' /\ CountInv' /\ RoomInv'
  <2>1. Active' = Active
    BY DEF Active
  <2> QED BY <2>1, SpaceFrame
<1>12. SleeperHasReason'
  BY DEF SleeperHasReason, NoRoom
<1> QED BY <1>1, <1>2, <1>3, <1>4, <1>5, <1>6, <1>7, <1>8, <1>9, <1>10, <1>11, <1>12 DEF LogInv

\* begin_op() finds room for MAXOPBLOCKS more blocks, or sleeps.
LEMMA BeginOpPreserves ==
    ASSUME LogInv, NEW p \in Procs, BeginOp(p)
    PROVE  LogInv'
<1> USE LogAssumption DEF LogAssumption, LogInv, TypeOK, NoPanic, BeginOp, Goto, diskPart, bufPart
<1>1. TypeOK'
  <2>1. pc' \in [Procs -> Pcs]
    BY DEF Pcs
  <2> QED BY <2>1
<1>2. NoPanic'
  OBVIOUS
<1>3. HeaderInv'
  BY DEF HeaderInv
<1>4. StartInv'
  BY DEF StartInv, Starting
<1>5. CommitInv'
  BY DEF CommitInv, Committers, CommitPcs, Active
<1>6. HolderInv'
  BY DEF HolderInv
<1>7. TailInv'
  BY DEF TailInv
<1>8. LogPinInv'
  BY DEF LogPinInv, Unwritten, Starting
<1>9. LogCacheInv'
  BY DEF LogCacheInv
<1>10. CopyInv'
  BY DEF CopyInv
<1>11. WroteInv' /\ CountInv' /\ RoomInv'
  <2>1. CASE committing \/ NoRoom
    <3>1. Active' = Active
      BY <2>1 DEF Active
    <3> QED BY <2>1, <3>1, SpaceFrame
  <2>2. CASE ~committing /\ ~NoRoom
    <3>1. /\ p \notin Active /\ Active' = Active \cup {p} /\ outstanding' = outstanding + 1
      BY <2>2 DEF Active
    <3>2. CountInv'
      BY <3>1, FS_AddElement DEF CountInv
    <3>3. \A blk : Logged(blk)' = Logged(blk)
      BY DEF Logged
    <3>4. WroteInv'
      BY <3>1, <3>3 DEF WroteInv
    <3>5. /\ Cardinality(Rest) \in Nat /\ Cardinality(Rest) <= outstanding * OpBlocks
          /\ Cardinality(Rest') = Cardinality(Rest) + OpBlocks
      BY <3>1, RestBound, RestBegin DEF Rest, CountInv, WroteInv
    <3>6. CASE outstanding = 0
      <4>1. lh = <<>>
        BY <2>2, <3>6 DEF TailInv
      <4> QED BY <3>2, <3>4, <3>5, <3>6, <4>1 DEF RoomInv
    <3>7. CASE outstanding # 0
      <4>1. Len(lh) + (outstanding + 1) * MAXOPBLOCKS <= LOGSIZE
        BY <2>2 DEF NoRoom
      <4>2. (outstanding + 1) * MAXOPBLOCKS >= outstanding * OpBlocks + OpBlocks + 2 * (MAXOPBLOCKS - OpBlocks)
        BY <3>7, Slack
      <4>3. Len(lh) \in Nat /\ outstanding * OpBlocks \in Nat /\ (outstanding + 1) * MAXOPBLOCKS \in Nat
        OBVIOUS
      <4>4. Len(lh) + Cardinality(Rest') <= LOGSIZE - 2 * (MAXOPBLOCKS - OpBlocks)
        BY <3>5, <4>1, <4>2, <4>3
      <4> QED BY <3>2, <3>4, <4>4 DEF RoomInv
    <3> QED BY <3>6, <3>7
  <2> QED BY <2>1, <2>2
<1>12. SleeperHasReason'
  BY DEF SleeperHasReason, NoRoom
<1> QED BY <1>1, <1>2, <1>3, <1>4, <1>5, <1>6, <1>7, <1>8, <1>9, <1>10, <1>11, <1>12 DEF LogInv

\* A buffer is locked and changed.
LEMMA ModifyPreserves ==
    ASSUME LogInv, NEW p \in Procs, NEW blk \in Blocks, NEW v \in Values, Modify(p, blk, v)
    PROVE  LogInv'
<1> USE LogAssumption DEF LogAssumption, LogInv, TypeOK, NoPanic, Modify, Running, Goto,
        diskPart, logPart
<1>1. TypeOK'
  <2>1. pc' \in [Procs -> Pcs]
    BY DEF Pcs
  <2> QED BY <2>1
<1>2. NoPanic'
  OBVIOUS
<1>3. HeaderInv'
  BY DEF HeaderInv
<1>4. StartInv'
  BY DEF StartInv, Starting
<1>5. CommitInv'
  BY DEF CommitInv, Committers, CommitPcs, Active
<1>6. HolderInv'
  BY DEF HolderInv
<1>7. TailInv'
  BY DEF TailInv
<1>8. LogPinInv'
  BY DEF LogPinInv, Unwritten, Starting
<1>9. LogCacheInv'
  BY DEF LogCacheInv
<1>10. CopyInv'
  BY DEF CopyInv, CommitInv, Committers, CommitPcs, Active
<1>11. WroteInv' /\ CountInv' /\ RoomInv'
  <2>1. Active' = Active
    BY DEF Active
  <2>2. Rest' = Rest
    BY <2>1 DEF Rest
  <2>3. \A c : Logged(c)' = Logged(c)
    BY DEF Logged
  <2>4. WroteInv'
    BY <2>1, <2>3 DEF WroteInv
  <2> QED BY <2>1, <2>2, <2>4 DEF CountInv, RoomInv
<1>12. SleeperHasReason'
  BY DEF SleeperHasReason, NoRoom
<1> QED BY <1>1, <1>2, <1>3, <1>4, <1>5, <1>6, <1>7, <1>8, <1>9, <1>10, <1>11, <1>12 DEF LogInv

\* log_write() of a locked buffer, and brelse(): the log has room for it.
LEMMA LogWritePreserves ==
    ASSUME LogInv, NEW p \in Procs, LogWrite(p)
    PROVE  LogInv'
<1> USE LogAssumption DEF LogAssumption, LogInv, TypeOK, NoPanic
<1>1. PICK blk \in Blocks :
        /\ holder[blk] = p
        /\ IF Len(lh) >= LOGSIZE \/ Len(lh) >= NLOG - 1 \/ outstanding < 1
           THEN sys' = "panic" /\ UNCHANGED <<lh, pins, holder, pc, wrote>>
           ELSE /\ IF Logged(blk)
                   THEN UNCHANGED <<lh, pins>>
                   ELSE /\ lh' = Append(lh, blk)
                        /\ pins' = [pins EXCEPT ![blk] = @ + 1]
                /\ holder' = [holder EXCEPT ![blk] = NoProc]
                /\ wrote' = [wrote EXCEPT ![p] = @ \cup {blk}]
                /\ Goto(p, "op")
                /\ UNCHANGED sys
  BY DEF LogWrite
<1>2. /\ sys = "up" /\ pc[p] = "logWrite" /\ p \in Active
      /\ UNCHANGED <<disk, dhead, dlog, cache, outstanding, committing, tail>>
  BY DEF LogWrite, Running, Active, diskPart
<1>3. outstanding >= 1 /\ Len(lh) \in Nat /\ Cardinality(Rest) \in Nat
  <2>1. IsFiniteSet(Active) /\ Active # {} /\ outstanding = Cardinality(Active)
    BY <1>2 DEF CountInv
  <2>2. Cardinality(Active) # 0
    BY <2>1, FS_EmptySet
  <2> QED BY <2>1, <2>2, RestBound DEF Rest
<1>4. Len(lh) < LOGSIZE /\ Len(lh) < NLOG - 1
  BY <1>2, <1>3 DEF RoomInv
<1>5. /\ holder' = [holder EXCEPT ![blk] = NoProc]
      /\ wrote' = [wrote EXCEPT ![p] = @ \cup {blk}]
      /\ pc' = [pc EXCEPT ![p] = "op"]
      /\ UNCHANGED sys
      /\ Logged(blk) => UNCHANGED <<lh, pins>>
      /\ ~Logged(blk) => lh' = Append(lh, blk) /\ pins' = [pins EXCEPT ![blk] = @ + 1]
  BY <1>1, <1>3, <1>4 DEF Goto
<1>6. TypeOK'
  <2>1. pc' \in [Procs -> Pcs]
    BY <1>5 DEF Pcs
  <2>2. lh' \in Seq(Blocks)
    <3>1. CASE Logged(blk)
      BY <1>5, <3>1
    <3>2. CASE ~Logged(blk)
      <4>1. lh' = Append(lh, blk)
        BY <1>5, <3>2
      <4>2. Append(lh, blk) \in Seq(Blocks)
        BY AppendHeader
      <4> QED BY <4>1, <4>2
    <3> QED BY <3>1, <3>2
  <2>3. pins' \in [Blocks -> Nat]
    BY <1>5, SMTT(30)
  <2> QED BY <1>2, <1>5, <2>1, <2>2, <2>3
<1>7. NoPanic'
  BY <1>2, <1>5
<1>8. HeaderInv'
  <2>1. CASE Logged(blk)
    BY <1>2, <1>5, <2>1 DEF HeaderInv
  <2>2. CASE ~Logged(blk)
    <3>1. lh' = Append(lh, blk)
      BY <1>5, <2>2
    <3> QED BY <1>2, <1>3, <1>4, <2>2, <3>1, AppendHeader, SMTT(30)
            DEF HeaderInv, Header, Logged
  <2> QED BY <2>1, <2>2
<1>9. StartInv'
  BY <1>2, <1>5 DEF StartInv, Starting
<1>10. ~committing /\ Active' = Active /\ Committers' = {} /\ Committers = {}
  BY <1>2, <1>5 DEF CommitInv, Active, Committers, CommitPcs
<1>11. CommitInv'
  BY <1>2, <1>10 DEF CommitInv
<1>12. HolderInv'
  <2>1. \A c \in Blocks : c # blk => holder[c] # p
    BY <1>1 DEF HolderInv
  <2> QED BY <1>1, <1>2, <1>5, <2>1 DEF HolderInv
<1>13. TailInv'
  BY <1>2, <1>3, <1>5, <1>10 DEF TailInv, Committers, CommitPcs
<1>14. LogPinInv'
  <2>1. \A q \in Procs : pc[q] # "install" /\ pc'[q] # "install"
    BY <1>10 DEF Committers, CommitPcs
  <2>2. \A c \in Blocks : (Unwritten(c) <=> Logged(c)) /\ (Unwritten(c)' <=> Logged(c)')
    BY <2>1 DEF Unwritten, Logged
  <2>3. \A c \in Blocks : Logged(c)' <=> Logged(c) \/ c = blk
    <3>1. CASE Logged(blk)
      BY <1>5, <3>1 DEF Logged
    <3>2. CASE ~Logged(blk)
      BY <1>5, <3>2, LoggedAppend
    <3> QED BY <3>1, <3>2
  <2> QED BY <1>2, <1>5, <2>2, <2>3 DEF LogPinInv, Starting
<1>15. LogCacheInv'
  <2>1. Unwritten(blk)'
    BY <1>5, <1>10 DEF Unwritten, Logged, Committers, CommitPcs
  <2>2. pins'[blk] = 1
    BY <1>2, <1>5, <1>14, <2>1 DEF LogPinInv, Starting
  <2> QED BY <1>1, <1>2, <1>5, <2>2 DEF LogCacheInv
<1>16. CopyInv'
  BY <1>2, <1>5, <1>10 DEF CopyInv, Committers, CommitPcs
<1>17. WroteInv' /\ CountInv' /\ RoomInv'
  <2>1. \A c \in Blocks : Logged(c)' <=> Logged(c) \/ c = blk
    <3>1. CASE Logged(blk)
      BY <1>5, <3>1 DEF Logged
    <3>2. CASE ~Logged(blk)
      BY <1>5, <3>2, LoggedAppend
    <3> QED BY <3>1, <3>2
  <2>2. IsFiniteSet(wrote[p]) /\ Cardinality(wrote[p] \cup {blk}) <= OpBlocks
    BY <1>1 DEF WroteInv
  <2>3. IsFiniteSet(wrote[p] \cup {blk})
    BY <2>2, FS_AddElement
  <2>4. \A c \in Blocks : holder'[c] # p
    BY <1>1, <1>5 DEF HolderInv
  <2>5. ASSUME NEW q \in Procs
        PROVE  /\ IsFiniteSet(wrote'[q]) /\ Cardinality(wrote'[q]) <= OpBlocks
               /\ q \notin Active' => wrote'[q] = {}
               /\ \A c \in wrote'[q] : Logged(c)'
               /\ \A c \in Blocks : holder'[c] = q => Cardinality(wrote'[q] \cup {c}) <= OpBlocks
    <3>1. CASE q = p
      BY <1>2, <1>5, <1>10, <2>1, <2>2, <2>3, <2>4, <3>1 DEF WroteInv
    <3>2. CASE q # p
      BY <1>5, <1>10, <2>1, <3>2 DEF WroteInv
    <3> QED BY <3>1, <3>2
  <2>6. WroteInv'
    BY <2>5 DEF WroteInv
  <2>7. CountInv'
    BY <1>2, <1>10 DEF CountInv
  <2>8. RoomInv'
    <3>1. CASE blk \in wrote[p]
      <4>1. wrote' = wrote /\ lh' = lh
        BY <1>5, <3>1 DEF WroteInv
      <4>2. Rest' = Rest
        BY <1>10, <4>1 DEF Rest
      <4> QED BY <1>5, <4>1, <4>2 DEF RoomInv
    <3>2. CASE blk \notin wrote[p]
      <4>1. Cardinality(Rest') = Cardinality(Rest) - 1
        <5>1. Cardinality(RestOf(Active, [wrote EXCEPT ![p] = @ \cup {blk}])) = Cardinality(RestOf(Active, wrote)) - 1
          BY <1>2, <2>2, <3>2, RestWrite DEF CountInv
        <5> QED BY <1>5, <1>10, <5>1 DEF Rest
      <4>2. Len(lh') <= Len(lh) + 1 /\ Len(lh') \in Nat
        BY <1>3, <1>5
      <4> QED BY <1>3, <1>5, <4>1, <4>2 DEF RoomInv
    <3> QED BY <3>1, <3>2
  <2> QED BY <2>6, <2>7, <2>8
<1>18. SleeperHasReason'
  <2>1. Len(lh') >= Len(lh) /\ Len(lh') \in Nat
    BY <1>3, <1>5
  <2>2. NoRoom => NoRoom'
    BY <1>2, <1>3, <2>1 DEF NoRoom
  <2> QED BY <1>2, <1>5, <2>2 DEF SleeperHasReason
<1> QED BY <1>6, <1>7, <1>8, <1>9, <1>11, <1>12, <1>13, <1>14, <1>15, <1>16, <1>17, <1>18 DEF LogInv

\* end_op() up to the call of commit(): the last operation commits, any other wakes the sleepers.
LEMMA EndOpPreserves ==
    ASSUME LogInv, NEW p \in Procs, EndOp(p)
    PROVE  LogInv'
<1> USE LogAssumption DEF LogAssumption, LogInv, TypeOK, NoPanic
<1>1. sys = "up" /\ pc[p] = "op" /\ p \in Active
  BY DEF EndOp, Running, Active
<1>2. ~committing /\ Committers = {}
  BY <1>1 DEF CommitInv
<1>3. /\ UNCHANGED <<disk, dhead, dlog, cache, pins, holder, lh, tail, sys>>
      /\ outstanding' = outstanding - 1
      /\ wrote' = [wrote EXCEPT ![p] = {}]
  BY <1>2 DEF EndOp, diskPart, bufPart
<1>4. committing' = (outstanding = 1)
  BY <1>2 DEF EndOp
<1>5. /\ outstanding = 1 => pc' = [pc EXCEPT ![p] = "writeLog"]
      /\ outstanding # 1 =>
           pc' = [q \in Procs |-> IF q = p THEN "idle"
                                  ELSE IF pc[q] = "asleep" THEN "begin" ELSE pc[q]]
  BY <1>2 DEF EndOp, Goto, WakeLog
<1>6. /\ \A q \in Procs \ {p} : pc'[q] = pc[q] \/ (pc[q] = "asleep" /\ pc'[q] = "begin")
      /\ pc'[p] = IF outstanding = 1 THEN "writeLog" ELSE "idle"
  BY <1>5
<1>7. /\ IsFiniteSet(Active \ {p}) /\ Cardinality(Active \ {p}) = outstanding - 1
      /\ Active' = Active \ {p} /\ outstanding >= 1
  <2>1. Active' = Active \ {p}
    BY <1>1, <1>6 DEF Active
  <2>2. IsFiniteSet(Active \ {p}) /\ Cardinality(Active \ {p}) = outstanding - 1
    BY <1>1, FS_RemoveElement DEF CountInv
  <2>3. Cardinality(Active \ {p}) \in Nat
    BY <2>2, FS_CardinalityType
  <2> QED BY <2>1, <2>2, <2>3
<1>8. committing' => Active' = {}
  <2>1. ASSUME outstanding = 1 PROVE Active' = {}
    <3>1. Cardinality(Active \ {p}) = 0
      BY <1>7, <2>1
    <3> QED BY <1>7, <3>1, FS_EmptySet
  <2> QED BY <1>4, <2>1
<1>9. TypeOK'
  <2>1. pc' \in [Procs -> Pcs]
    BY <1>5 DEF Pcs
  <2>2. committing' \in BOOLEAN
    BY <1>4
  <2>3. wrote' \in [Procs -> SUBSET Blocks] /\ outstanding' \in Nat
    BY <1>3, <1>7
  <2> QED BY <1>3, <2>1, <2>2, <2>3
<1>10. NoPanic' /\ HeaderInv' /\ StartInv'
  BY <1>1, <1>3 DEF HeaderInv, StartInv, Starting
<1>11. CommitInv'
  BY <1>2, <1>4, <1>6, <1>8 DEF CommitInv, Committers, CommitPcs
<1>12. HolderInv'
  <2>1. \A q \in Procs : pc[q] = "logWrite" <=> pc'[q] = "logWrite"
    BY <1>1, <1>6
  <2> QED BY <1>3, <2>1 DEF HolderInv
<1>13. TailInv'
  <2>1. tail = 1 /\ dhead = <<>>
    BY <1>1, <1>2 DEF TailInv, Committers, CommitPcs
  <2>2. \A q \in Procs : pc'[q] \notin {"install", "endCommit"}
    BY <1>2, <1>6 DEF Committers, CommitPcs
  <2>3. outstanding' = 0 => committing'
    <3>1. outstanding' = 0 => outstanding = 1
      BY <1>3, <1>7
    <3> QED BY <1>4, <3>1
  <2> QED BY <1>3, <2>1, <2>2, <2>3 DEF TailInv
<1>14. LogPinInv'
  <2>1. \A q \in Procs : pc[q] # "install" /\ pc'[q] # "install"
    BY <1>6, <1>2 DEF Committers, CommitPcs
  <2>2. \A c \in Blocks : Unwritten(c)' = Unwritten(c)
    BY <1>3, <2>1 DEF Unwritten
  <2> QED BY <1>3, <2>2 DEF LogPinInv, Starting
<1>15. LogCacheInv'
  BY <1>3 DEF LogCacheInv
<1>16. CopyInv'
  <2>1. tail = 1
    BY <1>1, <1>2 DEF TailInv, Committers, CommitPcs
  <2>2. \A q \in Procs : pc'[q] # "install"
    BY <1>2, <1>6 DEF Committers, CommitPcs
  <2>3. \A i \in DOMAIN lh : ~(i < tail)
    BY <2>1
  <2> QED BY <1>1, <1>3, <2>2, <2>3 DEF CopyInv
<1>17. WroteInv' /\ CountInv' /\ RoomInv'
  <2>1. \A c : Logged(c)' = Logged(c)
    BY <1>3 DEF Logged
  <2>2. IsFiniteSet({}) /\ Cardinality({}) = 0
    BY FS_EmptySet
  <2>3. \A blk \in Blocks : holder[blk] # p
    BY <1>1 DEF HolderInv
  <2>4. WroteInv'
    <3>1. wrote'[p] = {} /\ \A q \in Procs \ {p} : wrote'[q] = wrote[q]
      BY <1>3
    <3>2. ASSUME NEW q \in Procs
          PROVE  /\ IsFiniteSet(wrote'[q]) /\ Cardinality(wrote'[q]) <= OpBlocks
                 /\ q \notin Active' => wrote'[q] = {}
                 /\ \A blk \in wrote'[q] : Logged(blk)'
                 /\ \A blk \in Blocks : holder'[blk] = q => Cardinality(wrote'[q] \cup {blk}) <= OpBlocks
      <4>1. CASE q = p
        BY <1>3, <2>2, <2>3, <3>1, <4>1
      <4>2. CASE q # p
        BY <1>3, <1>7, <2>1, <3>1, <4>2 DEF WroteInv
      <4> QED BY <4>1, <4>2
    <3> QED BY <3>2 DEF WroteInv
  <2>5. CountInv'
    BY <1>3, <1>7 DEF CountInv
  <2>6. Cardinality(Rest') <= Cardinality(Rest) /\ Cardinality(Rest) \in Nat /\ Cardinality(Rest') \in Nat
    BY <1>3, <1>7, RestEnd, RestBound DEF Rest, CountInv
  <2>7. RoomInv'
    BY <1>3, <2>6 DEF RoomInv
  <2> QED BY <2>4, <2>5, <2>7
<1>18. SleeperHasReason'
  BY <1>5, <1>4 DEF SleeperHasReason
<1> QED BY <1>9, <1>10, <1>11, <1>12, <1>13, <1>14, <1>15, <1>16, <1>17, <1>18 DEF LogInv

\* One block of write_log().
LEMMA WriteLogPreserves ==
    ASSUME LogInv, NEW p \in Procs, WriteLog(p)
    PROVE  LogInv'
<1> USE LogAssumption DEF LogAssumption, LogInv, TypeOK, NoPanic, WriteLog, Running, bufPart, logPart
<1>1. TypeOK'
  <2>1. tail \in Slots /\ BlockContent(lh[tail]) \in Values
    BY DEF HeaderInv, Header, Slots, BlockContent
  <2> QED BY <2>1
<1>2. NoPanic'
  OBVIOUS
<1>3. HeaderInv'
  BY DEF HeaderInv
<1>4. StartInv'
  BY DEF StartInv, Starting
<1>5. CommitInv'
  BY DEF CommitInv, Committers, Active
<1>6. HolderInv'
  BY DEF HolderInv
<1>7. TailInv'
  BY DEF TailInv
<1>8. LogPinInv'
  BY DEF LogPinInv, Unwritten, Starting, CommitInv, Committers, CommitPcs
<1>9. LogCacheInv'
  BY DEF LogCacheInv
<1>10. CopyInv'
  <2>1. \A q \in Procs : pc[q] # "install"
    BY DEF CommitInv, Committers, CommitPcs
  <2>2. tail \in DOMAIN lh /\ tail \in Slots
    BY DEF HeaderInv, Header, Slots
  <2>3. Unwritten(lh[tail])
    BY <2>1, <2>2 DEF Unwritten
  <2>4. cache[lh[tail]] # NoBuf
    BY <2>2, <2>3 DEF LogPinInv, LogCacheInv, Starting
  <2>5. \A i \in DOMAIN lh : dlog'[i] = IF i = tail THEN cache[lh[i]] ELSE dlog[i]
    BY <2>2, <2>4 DEF BlockContent
  <2>6. UNCHANGED <<lh, cache, disk, pc, sys>> /\ tail' = tail + 1
    OBVIOUS
  <2> QED BY <2>1, <2>5, <2>6 DEF CopyInv
<1>11. WroteInv' /\ CountInv' /\ RoomInv'
  <2>1. Active' = Active
    BY DEF Active
  <2> QED BY <2>1, SpaceFrame
<1>12. SleeperHasReason'
  BY DEF SleeperHasReason, NoRoom
<1> QED BY <1>1, <1>2, <1>3, <1>4, <1>5, <1>6, <1>7, <1>8, <1>9, <1>10, <1>11, <1>12 DEF LogInv

\* write_head(), the commit point.
LEMMA WriteHeadPreserves ==
    ASSUME LogInv, NEW p \in Procs, WriteHead(p)
    PROVE  LogInv'
<1> USE LogAssumption DEF LogAssumption, LogInv, TypeOK, NoPanic, WriteHead, Running, Goto,
        bufPart, logPart
<1>1. TypeOK'
  <2>1. pc' \in [Procs -> Pcs]
    BY DEF Pcs
  <2> QED BY <2>1
<1>2. NoPanic'
  OBVIOUS
<1>3. HeaderInv'
  BY DEF HeaderInv
<1>4. StartInv'
  BY DEF StartInv, Starting
<1>5. CommitInv'
  BY SMTT(30) DEF CommitInv, Committers, CommitPcs, Active, StartInv
<1>6. HolderInv'
  BY DEF HolderInv
<1>7. TailInv'
  BY DEF TailInv
<1>8. LogPinInv'
  BY DEF LogPinInv, Unwritten, Starting, CommitInv, Committers, CommitPcs
<1>9. LogCacheInv'
  BY DEF LogCacheInv
<1>10. CopyInv'
  BY DEF CopyInv
<1>11. WroteInv' /\ CountInv' /\ RoomInv'
  <2>1. Active' = Active
    BY DEF Active
  <2> QED BY <2>1, SpaceFrame
<1>12. SleeperHasReason'
  BY DEF SleeperHasReason, NoRoom
<1> QED BY <1>1, <1>2, <1>3, <1>4, <1>5, <1>6, <1>7, <1>8, <1>9, <1>10, <1>11, <1>12 DEF LogInv

\* One block of install_trans(0).
LEMMA InstallPreserves ==
    ASSUME LogInv, NEW p \in Procs, Install(p)
    PROVE  LogInv'
<1> USE LogAssumption DEF LogAssumption, LogInv, TypeOK, NoPanic, Install, Running, InstallBlock, logPart
<1>1. TypeOK'
  <2>1. lh[tail] \in Blocks /\ dlog[tail] \in Values
    BY DEF HeaderInv, Header, Slots
  <2>2. pins[lh[tail]] = 1
    <3>1. tail \in DOMAIN lh
      OBVIOUS
    <3>2. Unwritten(lh[tail])
      BY <3>1 DEF Unwritten
    <3> QED BY <2>1, <3>2 DEF LogPinInv, Starting
  <2> QED BY <2>1, <2>2
<1>2. NoPanic'
  OBVIOUS
<1>3. HeaderInv'
  BY DEF HeaderInv
<1>4. StartInv'
  BY DEF StartInv, Starting
<1>5. CommitInv'
  BY DEF CommitInv, Committers, Active
<1>6. HolderInv'
  BY DEF HolderInv
<1>7. TailInv'
  BY DEF TailInv
<1>8. LogPinInv'
  BY SMTT(30) DEF LogPinInv, Unwritten, Starting, TailInv, CommitPcs, HeaderInv, Header
<1>9. LogCacheInv'
  <2>1. PICK c \in Blocks : c = lh[tail]
    OBVIOUS
  <2>2. pins'[c] = 0
    <3>1. \A i \in DOMAIN lh : lh[i] = c => i = tail
      BY <2>1 DEF HeaderInv, Header
    <3>2. pc'[p] = "install" /\ lh' = lh /\ tail' = tail + 1
      OBVIOUS
    <3>3. ~(tail >= tail + 1)
      OBVIOUS
    <3>4. ~Unwritten(c)'
      BY <3>1, <3>2, <3>3 DEF Unwritten
    <3> QED BY <1>8, <2>1, <3>4 DEF LogPinInv
  <2>3. cache'[c] = disk'[c]
    BY <2>1
  <2>4. \A e \in Blocks \ {c} : cache'[e] = cache[e] /\ disk'[e] = disk[e] /\ pins'[e] = pins[e]
    BY <2>1
  <2> QED BY <2>1, <2>2, <2>3, <2>4 DEF LogCacheInv
<1>10. CopyInv'
  BY SMTT(30) DEF CopyInv, LogPinInv, Unwritten, HeaderInv, Header
<1>11. WroteInv' /\ CountInv' /\ RoomInv'
  <2>1. Active' = Active
    BY DEF Active
  <2> QED BY <2>1, SpaceFrame
<1>12. SleeperHasReason'
  BY DEF SleeperHasReason, NoRoom
<1> QED BY <1>1, <1>2, <1>3, <1>4, <1>5, <1>6, <1>7, <1>8, <1>9, <1>10, <1>11, <1>12 DEF LogInv

\* The header is erased: the transaction is over.
LEMMA ErasePreserves ==
    ASSUME LogInv, NEW p \in Procs, Erase(p)
    PROVE  LogInv'
<1> USE LogAssumption DEF LogAssumption, LogInv, TypeOK, NoPanic, Erase, Running, Goto, bufPart
<1>1. TypeOK'
  <2>1. pc' \in [Procs -> Pcs]
    BY DEF Pcs
  <2> QED BY <2>1
<1>2. NoPanic'
  OBVIOUS
<1>3. HeaderInv'
  BY DEF HeaderInv, Header
<1>4. StartInv'
  BY DEF StartInv, Starting
<1>5. CommitInv'
  BY DEF CommitInv, Committers, CommitPcs, Active
<1>6. HolderInv'
  BY DEF HolderInv
<1>7. TailInv'
  BY DEF TailInv
<1>8. LogPinInv'
  <2>1. \A c \in Blocks : ~Unwritten(c) /\ ~Unwritten(c)'
    BY DEF Unwritten
  <2> QED BY <2>1 DEF LogPinInv, Starting
<1>9. LogCacheInv'
  BY DEF LogCacheInv
<1>10. CopyInv'
  BY DEF CopyInv
<1>11. WroteInv' /\ CountInv' /\ RoomInv'
  <2>1. Active = {}
    BY DEF CommitInv, Committers, CommitPcs
  <2>2. wrote = [q \in Procs |-> {}] /\ outstanding = 0
    BY <2>1, FS_EmptySet DEF WroteInv, CountInv
  <2>3. Active' = {} /\ (sys' = "up" => lh' = <<>>) /\ \A c \in Blocks : holder'[c] \notin Procs
    BY <2>1 DEF HolderInv, Active
  <2> QED BY <2>2, <2>3, SpaceQuiet
<1>12. SleeperHasReason'
  BY DEF SleeperHasReason, CommitInv, Committers, CommitPcs
<1> QED BY <1>1, <1>2, <1>3, <1>4, <1>5, <1>6, <1>7, <1>8, <1>9, <1>10, <1>11, <1>12 DEF LogInv

\* The rest of end_op().
LEMMA EndCommitPreserves ==
    ASSUME LogInv, NEW p \in Procs, EndCommit(p)
    PROVE  LogInv'
<1> USE LogAssumption DEF LogAssumption, LogInv, TypeOK, NoPanic, EndCommit, Running, WakeLog,
        diskPart, bufPart
<1>1. TypeOK'
  <2>1. pc' \in [Procs -> Pcs]
    BY DEF Pcs
  <2> QED BY <2>1
<1>2. NoPanic'
  OBVIOUS
<1>3. HeaderInv'
  BY DEF HeaderInv
<1>4. StartInv'
  BY DEF StartInv, Starting
<1>5. CommitInv'
  <2>1. Committers' = {}
    BY DEF CommitInv, Committers, CommitPcs
  <2>2. Active' = Active
    BY DEF Active
  <2> QED BY <2>1, <2>2 DEF CommitInv
<1>6. HolderInv'
  BY DEF HolderInv
<1>7. TailInv'
  BY DEF TailInv
<1>8. LogPinInv'
  BY DEF LogPinInv, Unwritten, Starting
<1>9. LogCacheInv'
  BY DEF LogCacheInv
<1>10. CopyInv'
  BY DEF CopyInv
<1>11. WroteInv' /\ CountInv' /\ RoomInv'
  <2>1. Active' = Active
    BY DEF Active
  <2> QED BY <2>1, SpaceFrame
<1>12. SleeperHasReason'
  BY DEF SleeperHasReason, NoRoom
<1> QED BY <1>1, <1>2, <1>3, <1>4, <1>5, <1>6, <1>7, <1>8, <1>9, <1>10, <1>11, <1>12 DEF LogInv

-----------------------------------------------------------------------------
(* The theorems. *)

\* The image that mkfs made satisfies the invariant.
LEMMA InitInv == Init => LogInv
<1> SUFFICES ASSUME Init PROVE LogInv
  OBVIOUS
<1> USE LogAssumption DEF LogAssumption, Init
<1>1. TypeOK
  <2>1. dlog \in [Slots -> Values]
    OBVIOUS
  <2>2. pc \in [Procs -> Pcs]
    BY DEF Pcs
  <2>3. committing \in BOOLEAN
    OBVIOUS
  <2> QED BY <2>1, <2>2, <2>3 DEF TypeOK
<1>2. Active = {} /\ Committers = {}
  BY DEF Active, Committers, CommitPcs
<1>3. NoPanic /\ HeaderInv /\ StartInv /\ CommitInv /\ HolderInv
  BY <1>2 DEF NoPanic, HeaderInv, Header, StartInv, CommitInv, HolderInv
<1>4. TailInv /\ LogPinInv /\ LogCacheInv /\ CopyInv /\ SleeperHasReason
  BY DEF TailInv, LogPinInv, Starting, LogCacheInv, CopyInv, SleeperHasReason
<1>5. WroteInv /\ CountInv /\ RoomInv
  <2>1. IsFiniteSet({}) /\ Cardinality({}) = 0
    BY FS_EmptySet
  <2> QED BY <1>2, <2>1 DEF WroteInv, CountInv, RoomInv
<1> QED BY <1>1, <1>3, <1>4, <1>5 DEF LogInv

\* So does what any step leaves.
LEMMA NextInv == LogInv /\ [Next]_vars => LogInv'
<1> SUFFICES ASSUME LogInv, [Next]_vars PROVE LogInv'
  OBVIOUS
<1>1. CASE Recovery
  BY <1>1, ReadHeadPreserves, RecoverInstallPreserves, RecoverErasePreserves DEF Recovery
<1>2. CASE Crash
  BY <1>2, CrashPreserves
<1>3. ASSUME NEW blk \in Blocks, Recycle(blk) PROVE LogInv'
  BY <1>3, RecyclePreserves
<1>4. ASSUME NEW p \in Procs, BeginOp(p) \/ LogWrite(p) \/ EndOp(p) PROVE LogInv'
  BY <1>4, BeginOpPreserves, LogWritePreserves, EndOpPreserves
<1>5. ASSUME NEW p \in Procs, CommitStep(p) PROVE LogInv'
  BY <1>5, WriteLogPreserves, WriteHeadPreserves, InstallPreserves, ErasePreserves,
     EndCommitPreserves DEF CommitStep
<1>6. ASSUME NEW p \in Procs, NEW blk \in Blocks, NEW v \in Values, Modify(p, blk, v) PROVE LogInv'
  BY <1>6, ModifyPreserves
<1>7. CASE UNCHANGED vars
  <2>1. Active' = Active
    BY <1>7 DEF vars, Active
  <2>2. WroteInv' /\ CountInv' /\ RoomInv'
    BY <1>7, <2>1, SpaceFrame DEF LogInv, vars, bufPart, logPart
  <2> QED BY <1>7, <2>2 DEF LogInv, vars, diskPart, bufPart, logPart, TypeOK, NoPanic, HeaderInv,
       StartInv, Starting, CommitInv, Committers, Active, HolderInv, TailInv, LogPinInv, Unwritten,
       LogCacheInv, CopyInv, SleeperHasReason, NoRoom
<1> QED BY <1>1, <1>2, <1>3, <1>4, <1>5, <1>6, <1>7 DEF Next

\* The inductive invariant.
THEOREM LogInvariant == Spec => []LogInv
<1> QED BY InitInv, NextInv, PTL DEF Spec

\* log_write() finds room in the log whatever the operations in progress have
\* logged, and end_op() finds no commit in progress: neither panics.
THEOREM LogNeverPanics == Spec => []NoPanic
<1>1. LogInv => NoPanic
  BY DEF LogInv
<1> QED BY <1>1, LogInvariant, PTL

\* A process that begin_op() put to sleep is always one that a later wakeup(&log)
\* will reach: a commit is in progress, or operations that hold the space are.
THEOREM LogSleepers == Spec => []SleeperHasReason
<1>1. LogInv => SleeperHasReason
  BY DEF LogInv
<1> QED BY <1>1, LogInvariant, PTL

\* Between two transactions all that was written is in its home on the disk and
\* no buffer is left pinned.
THEOREM LogQuietIsDurable == Spec => []QuietIsDurable
<1>1. LogInv => QuietIsDurable
  <2> SUFFICES ASSUME LogInv, sys = "up", outstanding = 0, ~committing
               PROVE  /\ lh = <<>> /\ dhead = <<>>
                      /\ \A blk \in Blocks : BlockContent(blk) = disk[blk] /\ pins[blk] = 0
    BY DEF QuietIsDurable
  <2>1. lh = <<>> /\ dhead = <<>>
    BY DEF LogInv, TailInv
  <2>2. Active = {}
    BY FS_EmptySet DEF LogInv, CountInv
  <2>3. \A blk \in Blocks : pins[blk] = 0 /\ holder[blk] = NoProc
    BY <2>1, <2>2 DEF LogInv, LogPinInv, Unwritten, HolderInv, Active, TypeOK
  <2> QED BY <2>1, <2>3 DEF LogInv, LogCacheInv, BlockContent
<1> QED BY <1>1, LogInvariant, PTL

-----------------------------------------------------------------------------
(* The log implements AtomicDisk.  Recovery, recycling, log_write() and all  *)
(* of a commit but write_head() are invisible there.                         *)

\* Stable, of any disk d, header h and log l.
StableOf(d, h, l) ==
    [blk \in Blocks |-> IF \E i \in DOMAIN h : h[i] = blk
                      THEN l[CHOOSE i \in DOMAIN h : h[i] = blk]
                      ELSE d[blk]]

\* Stable is that of the disk as it is.
LEMMA StableNow == Stable = StableOf(disk, dhead, dlog) /\ Stable' = StableOf(disk', dhead', dlog')
BY DEF Stable, StableOf

\* A committed block is read from the log, any other from its home.
LEMMA StableValue ==
    ASSUME NEW d, NEW h, NEW l, Header(h)
    PROVE  /\ \A i \in DOMAIN h : h[i] \in Blocks => StableOf(d, h, l)[h[i]] = l[i]
           /\ \A blk \in Blocks : (\A i \in DOMAIN h : h[i] # blk) => StableOf(d, h, l)[blk] = d[blk]
<1>1. ASSUME NEW i \in DOMAIN h, h[i] \in Blocks PROVE StableOf(d, h, l)[h[i]] = l[i]
  <2> DEFINE j == CHOOSE k \in DOMAIN h : h[k] = h[i]
  <2>1. j = i
    BY DEF Header
  <2> QED BY <1>1, <2>1 DEF StableOf
<1> QED BY <1>1 DEF StableOf

\* Stable is a function on Blocks.
LEMMA StableIsFunction == Stable = [blk \in Blocks |-> Stable[blk]]
BY DEF Stable

\* Two stable contents are equal when they are so block by block.
LEMMA StableEqual ==
    ASSUME \A blk \in Blocks : Stable'[blk] = Stable[blk]
    PROVE  Stable' = Stable
<1>1. Stable' = [blk \in Blocks |-> Stable'[blk]]
  BY DEF Stable
<1> QED BY <1>1, StableIsFunction

\* An empty header makes nothing of the log visible.
LEMMA StableEmpty ==
    ASSUME NEW d \in [Blocks -> Values], NEW l
    PROVE  StableOf(d, <<>>, l) = d
BY DEF StableOf

\* A buffer of a block that is neither pinned nor locked adds nothing.
LEMMA ContentOnDisk ==
    ASSUME LogInv, NEW blk \in Blocks, pins[blk] = 0, holder[blk] = NoProc
    PROVE  BlockContent(blk) = disk[blk]
BY DEF LogInv, LogCacheInv, BlockContent

\* read_head() changes only memory.
LEMMA ReadHeadSimulated ==
    ASSUME LogInv, ReadHead
    PROVE  UNCHANGED <<Mem, Stable, Active>>
<1>1. Stable' = Stable /\ Active' = Active
  BY DEF ReadHead, diskPart, Stable, Active
<1> QED BY <1>1 DEF ReadHead, Mem

\* install_trans(1) writes to homes that the header on the disk hides.
LEMMA RecoverInstallSimulated ==
    ASSUME LogInv, RecoverInstall
    PROVE  UNCHANGED <<Mem, Stable, Active>>
<1>1. lh = dhead /\ tail \in DOMAIN dhead /\ dhead[tail] \in Blocks
  BY DEF RecoverInstall, LogInv, StartInv, Starting, TypeOK
<1>2. /\ dhead' = dhead /\ dlog' = dlog
      /\ \A blk \in Blocks \ {dhead[tail]} : disk'[blk] = disk[blk]
  BY <1>1 DEF RecoverInstall, InstallBlock
<1>3. Stable' = Stable
  BY <1>1, <1>2, StableEqual DEF Stable
<1>4. Active' = Active
  BY DEF RecoverInstall, Active
<1> QED BY <1>3, <1>4 DEF RecoverInstall, Mem

\* What recovery has installed is what a crash would have shown.
LEMMA RecoverEraseSimulated ==
    ASSUME LogInv, LogInv', RecoverErase
    PROVE  UNCHANGED <<Mem, Stable, Active>>
<1>1. /\ sys = "recover" /\ lh = dhead /\ dhead \in Seq(Blocks) /\ Header(dhead)
      /\ dhead' = <<>> /\ UNCHANGED <<disk, cache, pins, holder>>
  BY DEF RecoverErase, LogInv, StartInv, Starting, TypeOK, HeaderInv, bufPart
<1>2. \A i \in DOMAIN dhead : dlog[i] = disk[dhead[i]]
  BY <1>1 DEF RecoverErase, LogInv, CopyInv, TypeOK
<1>3. Stable' = disk'
  BY <1>1, StableNow, StableEmpty DEF LogInv, TypeOK
<1>4. \A blk \in Blocks : Stable[blk] = disk[blk]
  BY <1>1, <1>2, StableNow, StableValue
<1>5. Stable' = Stable
  BY <1>1, <1>3, <1>4, StableEqual
<1>6. \A blk \in Blocks : pins[blk] = 0 /\ holder[blk] = NoProc
  BY <1>1 DEF LogInv, LogPinInv, StartInv, Starting
<1>7. \A blk \in Blocks : BlockContent(blk)' = disk[blk]
  BY <1>1, <1>6, ContentOnDisk DEF BlockContent
<1>8. Mem' = [blk \in Blocks |-> disk[blk]]
  BY <1>7 DEF RecoverErase, Mem
<1>9. Mem = [blk \in Blocks |-> disk[blk]]
  BY <1>1, <1>4, StableIsFunction DEF Mem
<1>10. Active' = Active
  BY DEF RecoverErase, Active
<1> QED BY <1>5, <1>8, <1>9, <1>10

\* A crash is a crash of the atomic disk.
LEMMA CrashSimulated ==
    ASSUME Crash
    PROVE  Abs!Crash
<1>1. Stable' = Stable
  BY DEF Crash, diskPart, Stable
<1>2. Mem' = Stable
  BY <1>1 DEF Crash, PowerOff, Mem
<1>3. Active' = {}
  BY DEF Crash, PowerOff, Active
<1> QED BY <1>1, <1>2, <1>3 DEF Abs!Crash

\* A buffer that may be recycled agrees with the disk.
LEMMA RecycleSimulated ==
    ASSUME LogInv, NEW blk \in Blocks, Recycle(blk)
    PROVE  UNCHANGED <<Mem, Stable, Active>>
<1>1. Stable' = Stable /\ Active' = Active /\ sys' = sys /\ disk' = disk
  BY DEF Recycle, diskPart, Stable, Active
<1>2. \A c \in Blocks : BlockContent(c)' = BlockContent(c)
  BY <1>1, ContentOnDisk DEF Recycle, BlockContent
<1> QED BY <1>1, <1>2 DEF Mem

\* begin_op() begins an operation, or sleeps.
LEMMA BeginOpSimulated ==
    ASSUME LogInv, NEW p \in Procs, BeginOp(p)
    PROVE  Abs!Begin(p) \/ UNCHANGED <<Mem, Stable, Active>>
<1>1. Stable' = Stable /\ Mem' = Mem
  BY DEF BeginOp, diskPart, bufPart, Stable, Mem, BlockContent
<1>2. p \notin Active /\ (Active' = Active \/ Active' = Active \cup {p})
  BY DEF BeginOp, Goto, Active, LogInv, TypeOK
<1> QED BY <1>1, <1>2 DEF Abs!Begin

\* A change of a locked buffer is seen at once by the other operations.
LEMMA ModifySimulated ==
    ASSUME LogInv, NEW p \in Procs, NEW blk \in Blocks, NEW v \in Values, Modify(p, blk, v)
    PROVE  Abs!Write(p, blk, v)
<1>1. Stable' = Stable /\ sys = "up" /\ sys' = "up"
  BY DEF Modify, Running, diskPart, Stable
<1>2. p \in Active /\ Active' = Active
  BY DEF Modify, Running, Goto, Active
<1>3. \A c \in Blocks : BlockContent(c)' = IF c = blk THEN v ELSE BlockContent(c)
  BY LogAssumption DEF Modify, BlockContent, diskPart, LogInv, TypeOK
<1>4. Mem' = [Mem EXCEPT ![blk] = v]
  BY <1>1, <1>3 DEF Mem
<1> QED BY <1>1, <1>2, <1>4 DEF Abs!Write

\* log_write() only takes note of the block.
LEMMA LogWriteSimulated ==
    ASSUME LogInv, LogInv', NEW p \in Procs, LogWrite(p)
    PROVE  UNCHANGED <<Mem, Stable, Active>>
<1>1. Stable' = Stable /\ sys = "up" /\ UNCHANGED <<disk, cache>>
  BY DEF LogWrite, Running, diskPart, Stable
<1>2. sys' = "up" /\ pc' = [pc EXCEPT ![p] = "op"] /\ pc[p] = "logWrite"
  BY DEF LogWrite, Running, Goto, LogInv, NoPanic
<1>3. Active' = Active
  BY <1>2 DEF Active, LogInv, TypeOK
<1>4. Mem' = Mem
  BY <1>1, <1>2 DEF Mem, BlockContent
<1> QED BY <1>1, <1>3, <1>4

\* end_op() ends the operation, before any commit.
LEMMA EndOpSimulated ==
    ASSUME LogInv, LogInv', NEW p \in Procs, EndOp(p)
    PROVE  Abs!End(p)
<1>1. Stable' = Stable /\ sys = "up" /\ sys' = "up" /\ UNCHANGED <<disk, cache>>
  BY DEF EndOp, Running, diskPart, bufPart, Stable, LogInv, NoPanic
<1>2. Mem' = Mem
  BY <1>1 DEF Mem, BlockContent
<1>3. p \in Active /\ Active' = Active \ {p}
  BY DEF EndOp, Running, Goto, WakeLog, Active, LogInv, NoPanic, TypeOK
<1> QED BY <1>1, <1>2, <1>3 DEF Abs!End

\* write_log() changes log blocks that no header on the disk names.
LEMMA WriteLogSimulated ==
    ASSUME LogInv, LogInv', NEW p \in Procs, WriteLog(p)
    PROVE  UNCHANGED <<Mem, Stable, Active>>
<1>1. UNCHANGED <<disk, dhead, cache, sys, pc>> /\ sys = "up" /\ pc[p] = "writeLog"
  BY DEF WriteLog, Running, bufPart
<1>2. dhead = <<>>
  BY <1>1 DEF LogInv, TailInv, CommitInv, Committers, CommitPcs
<1>3. Stable' = Stable
  BY <1>1, <1>2, StableNow, StableEmpty DEF LogInv, TypeOK
<1> QED BY <1>1, <1>3 DEF Mem, BlockContent, Active

\* write_head() is the commit: the log blocks hold all of the transaction, and
\* the other blocks are on the disk as they are in the cache.
LEMMA WriteHeadSimulated ==
    ASSUME LogInv, LogInv', NEW p \in Procs, WriteHead(p)
    PROVE  Abs!Commit \/ UNCHANGED <<Mem, Stable, Active>>
<1>1. UNCHANGED <<disk, dlog, cache, sys>> /\ sys = "up" /\ pc[p] = "writeLog"
  BY DEF WriteHead, Running, bufPart
<1>2. Mem' = Mem
  BY <1>1 DEF Mem, BlockContent
<1>3. Active = {} /\ Active' = {}
  BY <1>1 DEF WriteHead, Goto, LogInv, CommitInv, Committers, CommitPcs, TypeOK
<1>4. CASE lh = <<>>
  <2>1. Stable' = Stable
    BY <1>1, <1>4 DEF WriteHead, Stable
  <2> QED BY <1>2, <1>3, <2>1
<1>5. CASE lh # <<>>
  <2>1. dhead' = lh /\ lh \in Seq(Blocks) /\ Header(lh)
    BY <1>5 DEF WriteHead, LogInv, TypeOK, HeaderInv
  <2>2. ASSUME NEW blk \in Blocks PROVE Stable'[blk] = BlockContent(blk)
    <3>1. \A q \in Procs : pc[q] # "install"
      BY <1>1 DEF LogInv, CommitInv, Committers, CommitPcs
    <3>2. CASE \E i \in DOMAIN lh : lh[i] = blk
      <4>1. PICK i \in DOMAIN lh : lh[i] = blk
        BY <3>2
      <4>2. Stable'[blk] = dlog[i]
        BY <1>1, <2>1, <4>1, StableNow, StableValue
      <4>3. dlog[i] = cache[blk]
        <5>1. i < tail
          BY <4>1 DEF WriteHead, LogInv, TypeOK
        <5> QED BY <1>1, <4>1, <5>1 DEF LogInv, CopyInv
      <4>4. Unwritten(blk)
        BY <3>1, <4>1 DEF Unwritten
      <4>5. cache[blk] # NoBuf
        BY <1>1, <4>4 DEF LogInv, LogPinInv, LogCacheInv, Starting
      <4> QED BY <4>2, <4>3, <4>5 DEF BlockContent
    <3>3. CASE \A i \in DOMAIN lh : lh[i] # blk
      <4>1. Stable'[blk] = disk[blk]
        BY <1>1, <2>1, <3>3, StableNow, StableValue
      <4>2. pins[blk] = 0
        BY <3>3 DEF LogInv, LogPinInv, Unwritten
      <4>3. holder[blk] = NoProc
        BY <1>3 DEF LogInv, HolderInv, Active, TypeOK
      <4> QED BY <4>1, <4>2, <4>3, ContentOnDisk
    <3> QED BY <3>2, <3>3
  <2>3. Stable' = Mem
    <3>1. Stable' = [blk \in Blocks |-> Stable'[blk]]
      BY DEF Stable
    <3> QED BY <1>1, <2>2, <3>1 DEF Mem
  <2> QED BY <1>2, <1>3, <2>3 DEF Abs!Commit
<1> QED BY <1>4, <1>5

\* install_trans(0) writes to a home what the log and the cache have for it.
LEMMA InstallSimulated ==
    ASSUME LogInv, NEW p \in Procs, Install(p)
    PROVE  UNCHANGED <<Mem, Stable, Active>>
<1>1. PICK c \in Blocks : c = lh[tail]
  BY DEF Install, LogInv, TypeOK
<1>2. /\ UNCHANGED <<dhead, dlog, sys, pc>> /\ sys = "up" /\ pc[p] = "install"
      /\ dhead = lh /\ tail \in DOMAIN lh
  BY DEF Install, Running, LogInv, TailInv, TypeOK
<1>3. /\ \A blk \in Blocks \ {c} : disk'[blk] = disk[blk] /\ cache'[blk] = cache[blk]
      /\ cache'[c] = dlog[tail] /\ disk'[c] = dlog[tail]
  BY <1>1 DEF Install, InstallBlock, LogInv, TypeOK
<1>4. Stable' = Stable
  BY <1>1, <1>2, <1>3, StableEqual DEF Stable
<1>5. dlog[tail] = cache[c] /\ Unwritten(c)
  BY <1>1, <1>2 DEF LogInv, CopyInv, Unwritten, TypeOK
<1>6. cache[c] # NoBuf
  BY <1>2, <1>5 DEF LogInv, LogPinInv, LogCacheInv, Starting
<1>7. \A blk \in Blocks : BlockContent(blk)' = BlockContent(blk)
  BY <1>3, <1>5, <1>6 DEF BlockContent
<1> QED BY <1>2, <1>4, <1>7 DEF Mem, Active

\* The header is erased once the homes have what it named.
LEMMA EraseSimulated ==
    ASSUME LogInv, LogInv', NEW p \in Procs, Erase(p)
    PROVE  UNCHANGED <<Mem, Stable, Active>>
<1>1. /\ UNCHANGED <<disk, dlog, cache, sys>> /\ sys = "up" /\ pc[p] = "install"
      /\ dhead = lh /\ dhead \in Seq(Blocks) /\ Header(dhead) /\ dhead' = <<>>
  BY DEF Erase, Running, bufPart, LogInv, TailInv, TypeOK, HeaderInv
<1>2. \A i \in DOMAIN dhead : dlog[i] = disk[dhead[i]]
  BY <1>1 DEF Erase, LogInv, CopyInv, TypeOK
<1>3. \A blk \in Blocks : Stable[blk] = disk[blk]
  BY <1>1, <1>2, StableNow, StableValue
<1>4. Stable' = disk
  BY <1>1, StableNow, StableEmpty DEF LogInv, TypeOK
<1>5. Stable' = Stable
  BY <1>3, <1>4, StableEqual
<1>6. Active' = Active
  BY DEF Erase, Running, Goto, Active
<1> QED BY <1>1, <1>5, <1>6 DEF Mem, BlockContent

\* The end of a commit changes who sleeps, and nothing else.
LEMMA EndCommitSimulated ==
    ASSUME LogInv, NEW p \in Procs, EndCommit(p)
    PROVE  UNCHANGED <<Mem, Stable, Active>>
<1>1. Stable' = Stable /\ Mem' = Mem
  BY DEF EndCommit, diskPart, bufPart, Stable, Mem, BlockContent
<1>2. Active' = Active
  BY DEF EndCommit, Running, WakeLog, Active
<1> QED BY <1>1, <1>2

\* The first boot is an initial state of the atomic disk.
LEMMA InitSimulated == Init => Abs!Init
<1> SUFFICES ASSUME Init PROVE Abs!Init
  OBVIOUS
<1>1. Stable = disk
  BY StableNow, StableEmpty DEF Init
<1>2. Mem = Stable /\ Active = {}
  BY DEF Init, Mem, Active
<1> QED BY <1>1, <1>2 DEF Init, Abs!Init

\* Every step is one of the atomic disk, or is invisible there.
LEMMA NextSimulated == LogInv /\ LogInv' /\ [Next]_vars => [Abs!Next]_(Abs!diskVars)
<1> SUFFICES ASSUME LogInv, LogInv', [Next]_vars
             PROVE  Abs!Next \/ UNCHANGED <<Mem, Stable, Active>>
  BY DEF Abs!diskVars
<1>1. CASE Recovery
  BY <1>1, ReadHeadSimulated, RecoverInstallSimulated, RecoverEraseSimulated DEF Recovery
<1>2. CASE Crash
  BY <1>2, CrashSimulated DEF Abs!Next
<1>3. ASSUME NEW blk \in Blocks, Recycle(blk) PROVE UNCHANGED <<Mem, Stable, Active>>
  BY <1>3, RecycleSimulated
<1>4. ASSUME NEW p \in Procs, BeginOp(p) PROVE Abs!Next \/ UNCHANGED <<Mem, Stable, Active>>
  BY <1>4, BeginOpSimulated DEF Abs!Next
<1>5. ASSUME NEW p \in Procs, LogWrite(p) PROVE UNCHANGED <<Mem, Stable, Active>>
  BY <1>5, LogWriteSimulated
<1>6. ASSUME NEW p \in Procs, EndOp(p) PROVE Abs!Next
  BY <1>6, EndOpSimulated DEF Abs!Next
<1>7. ASSUME NEW p \in Procs, CommitStep(p) PROVE Abs!Next \/ UNCHANGED <<Mem, Stable, Active>>
  BY <1>7, WriteLogSimulated, WriteHeadSimulated, InstallSimulated, EraseSimulated,
     EndCommitSimulated DEF CommitStep, Abs!Next
<1>8. ASSUME NEW p \in Procs, NEW blk \in Blocks, NEW v \in Values, Modify(p, blk, v) PROVE Abs!Next
  BY <1>8, ModifySimulated DEF Abs!Next
<1>9. CASE UNCHANGED vars
  BY <1>9 DEF vars, diskPart, bufPart, Mem, Stable, Active, BlockContent
<1> QED BY <1>1, <1>2, <1>3, <1>4, <1>5, <1>6, <1>7, <1>8, <1>9 DEF Next

\* The file system's disk is atomic: a crash at any step, also during a commit or
\* during recovery, shows all the operations of a transaction or none of them.
THEOREM LogIsCrashAtomic == Spec => CrashAtomic
<1> QED BY InitSimulated, NextSimulated, LogInvariant, PTL DEF Spec, CrashAtomic, Abs!Spec

-----------------------------------------------------------------------------
(* The inductive invariant of the cache *)

\* Every buffer is in the list.
LruInv == \A x \in Bufs : \E i \in Bufs : lru[i] = x

\* A block is in at most one buffer.
OneBuffer ==
    \A x, y \in Bufs : blockno[x] = blockno[y] /\ blockno[x] # NoBlock => x = y

\* b->refcnt counts the processes that have the buffer, and the log.
Users(x) == {p \in BProcs : b[p] = x}
RefInv ==
    \A x \in Bufs : refcnt[x] = Cardinality(Users(x)) + (IF x \in pinned THEN 1 ELSE 0)

\* The buffer of a process, from bget() to brelse().
CallInv ==
    \A p \in BProcs :
        /\ bpc[p] = "idle" <=> b[p] = 0
        /\ bpc[p] # "idle" => blockno[b[p]] \in BBlocks
        /\ bpc[p] = "holding" => valid[b[p]]
        /\ bpc[p] = "rw" => (valid[b[p]] <=> write[p])
        /\ write[p] => bpc[p] = "rw"

\* Who holds the sleep lock of a buffer.
HoldPcs == {"rw", "holding"}
LockInv ==
    \A x \in Bufs, p \in BProcs : lock[x] = p <=> b[p] = x /\ bpc[p] \in HoldPcs

\* A valid buffer is equal to its block, unless the log or its holder is
\* going to write it.
CleanInv ==
    \A x \in Bufs :
        /\ valid[x] => blockno[x] \in BBlocks
        /\ valid[x] /\ x \notin pinned /\ (\A p \in BProcs : b[p] = x => ~write[p])
              => data[x] = bdisk[blockno[x]]

PinInv == IsFiniteSet(pinned) /\ Cardinality(pinned) <= MaxPins

CacheInv ==
    CacheTypeOK /\ LruInv /\ OneBuffer /\ RefInv /\ CallInv /\ LockInv /\ CleanInv /\ PinInv

-----------------------------------------------------------------------------
(* Operators of the model *)

\* Zero stands for no buffer.
LEMMA NoBuffer == 0 \notin Bufs /\ Bufs \subseteq Nat /\ 1 \in Bufs
  BY BcacheAssumption DEF BcacheAssumption, Bufs

\* A set of buffers that is not empty has a last one.
LEMMA LastExists ==
    ASSUME NEW S \in SUBSET Bufs, S # {}
    PROVE  LET m == CHOOSE i \in S : \A j \in S : j <= i
           IN m \in S /\ \A j \in S : j <= m
<1> USE BcacheAssumption DEF BcacheAssumption, Bufs
<1> DEFINE T == {NBUF - i : i \in S}
<1>1. T \in SUBSET Nat /\ T # {}
  <2>1. \A i \in S : i \in Int /\ NBUF - i \in Nat
    OBVIOUS
  <2>2. \A t \in T : t \in Nat
    BY <2>1
  <2>3. T # {}
    OBVIOUS
  <2> QED BY <2>2, <2>3, Zenon
<1>2. PICK t \in T : \A s \in T : ~ (<<s, t>> \in OpToRel(<, Nat))
  BY <1>1, NatLessThanWellFounded, WFMin
<1>3. \A s \in T : t <= s
  <2>1. ASSUME NEW s \in T, s < t PROVE FALSE
    <3>1. <<s, t>> \in OpToRel(<, Nat)
      BY <1>1, <2>1 DEF OpToRel
    <3> QED BY <1>2, <3>1
  <2> QED BY <1>1, <2>1
<1>4. PICK i \in S : t = NBUF - i
  OBVIOUS
<1>5. \A j \in S : j <= i
  <2> TAKE j \in S
  <2>1. NBUF - i <= NBUF - j
    BY <1>3, <1>4
  <2>2. i \in Int /\ j \in Int /\ NBUF \in Int
    OBVIOUS
  <2> HIDE DEF T
  <2> QED BY <2>1, <2>2
<1> QED BY <1>5

\* The users of a buffer can be counted.
LEMMA UsersFinite ==
    ASSUME NEW S \in SUBSET BProcs
    PROVE  IsFiniteSet(S) /\ Cardinality(S) \in Nat
  BY BcacheAssumption, FS_Subset, FS_CardinalityType DEF BcacheAssumption

\* One more user, one less.
LEMMA UserComes ==
    ASSUME NEW S \in SUBSET BProcs, NEW p \in BProcs, p \notin S
    PROVE  Cardinality(S \cup {p}) = Cardinality(S) + 1
  BY UsersFinite, FS_AddElement
LEMMA UserGoes ==
    ASSUME NEW S \in SUBSET BProcs, NEW p \in S
    PROVE  Cardinality(S \ {p}) = Cardinality(S) - 1 /\ Cardinality(S) >= 1
<1>1. Cardinality(S \ {p}) = Cardinality(S) - 1 /\ Cardinality(S \ {p}) \in Nat
  BY UsersFinite, FS_RemoveElement
<1> QED BY <1>1, UsersFinite

\* A buffer without references has no user, is not locked and is clean.
LEMMA FreeBuffer ==
    ASSUME CacheInv, NEW x \in Bufs, refcnt[x] = 0
    PROVE  /\ \A p \in BProcs : b[p] # x
           /\ x \notin pinned /\ lock[x] = BNoProc
           /\ valid[x] => data[x] = bdisk[blockno[x]]
<1>1. Cardinality(Users(x)) \in Nat
  BY UsersFinite DEF Users
<1>2. Cardinality(Users(x)) = 0 /\ x \notin pinned
  BY <1>1 DEF CacheInv, RefInv
<1>3. Users(x) = {}
  BY <1>2, UsersFinite, FS_EmptySet DEF Users
<1>4. \A p \in BProcs : b[p] # x
  BY <1>3 DEF Users
<1>5. lock[x] = BNoProc
  BY <1>4 DEF CacheInv, LockInv, CacheTypeOK
<1>6. valid[x] => data[x] = bdisk[blockno[x]]
  BY <1>2, <1>4 DEF CacheInv, CleanInv
<1> QED BY <1>2, <1>4, <1>5, <1>6

\* bget() takes the buffer of the block, or one that nobody refers to.
LEMMA BufferForIs ==
    ASSUME CacheInv, NEW k \in BBlocks, Cached(k) \cup Unused # {}
    PROVE  /\ BufferFor(k) \in Bufs
           /\ Cached(k) # {} => blockno[BufferFor(k)] = k
           /\ Cached(k) = {} => refcnt[BufferFor(k)] = 0
<1>1. CASE Cached(k) # {}
  BY <1>1 DEF BufferFor, Cached
<1>2. CASE Cached(k) = {}
  <2> DEFINE i == CHOOSE i \in Unused : \A j \in Unused : j <= i
  <2>1. i \in Unused
    <3>1. Unused \in SUBSET Bufs /\ Unused # {}
      BY <1>2 DEF Unused
    <3> QED BY <3>1, LastExists
  <2>2. BufferFor(k) = lru[i]
    BY <1>2 DEF BufferFor
  <2> HIDE DEF i
  <2> QED BY <1>2, <2>1, <2>2 DEF Unused, CacheInv, CacheTypeOK
<1> QED BY <1>1, <1>2

-----------------------------------------------------------------------------
(* Each action preserves the invariant *)

\* acquiresleep().
LEMMA AcquireSleepPreserves ==
    ASSUME CacheInv, NEW p \in BProcs, AcquireSleep(p)
    PROVE  CacheInv'
<1> USE BcacheAssumption, NoBuffer DEF BcacheAssumption, CacheInv, CacheTypeOK, BPcs, BAt, BGoto,
        AcquireSleep
<1>1. CacheTypeOK'
  BY DEF CallInv
<1>2. LruInv'
  BY DEF LruInv
<1>3. OneBuffer'
  BY DEF OneBuffer
<1>4. RefInv'
  BY DEF RefInv, Users
<1>5. CallInv'
  BY DEF CallInv
<1>6. LockInv'
  BY DEF LockInv, HoldPcs, CallInv
<1>7. CleanInv'
  BY DEF CleanInv, CallInv
<1>8. PinInv'
  BY DEF PinInv
<1> QED BY <1>1, <1>2, <1>3, <1>4, <1>5, <1>6, <1>7, <1>8 DEF CacheInv

\* bwrite().
LEMMA BwritePreserves ==
    ASSUME CacheInv, NEW p \in BProcs, NEW v \in BValues, Bwrite(p, v)
    PROVE  CacheInv'
<1> USE BcacheAssumption, NoBuffer DEF BcacheAssumption, CacheInv, CacheTypeOK, BPcs, BAt, BGoto, Bwrite
<1>a. b[p] \in Bufs /\ blockno[b[p]] \in BBlocks
  BY DEF CallInv
<1>1. CacheTypeOK'
  <2>1. data' \in [Bufs -> BValues]
    BY <1>a
  <2>2. write' \in [BProcs -> BOOLEAN]
    BY <1>a
  <2>3. bpc' \in [BProcs -> BPcs]
    BY <1>a
  <2>4. panicked' \in BOOLEAN
    BY <1>a
  <2> QED BY <2>1, <2>2, <2>3, <2>4
<1>2. LruInv'
  BY DEF LruInv
<1>3. OneBuffer'
  BY DEF OneBuffer
<1>4. RefInv'
  BY DEF RefInv, Users
<1>5. CallInv'
  BY DEF CallInv
<1>6. LockInv'
  BY DEF LockInv, HoldPcs, CallInv
<1>7. CleanInv'
  BY DEF CleanInv, CallInv
<1>8. PinInv'
  BY DEF PinInv
<1> QED BY <1>1, <1>2, <1>3, <1>4, <1>5, <1>6, <1>7, <1>8 DEF CacheInv

\* bpin().
LEMMA BpinPreserves ==
    ASSUME CacheInv, NEW p \in BProcs, NEW v \in BValues, Bpin(p, v)
    PROVE  CacheInv'
<1> USE BcacheAssumption, NoBuffer DEF BcacheAssumption, CacheInv, CacheTypeOK, BPcs, BAt, BGoto, Bpin
<1>a. b[p] \in Bufs /\ blockno[b[p]] \in BBlocks
  BY DEF CallInv

<1>b. refcnt[b[p]] \in Nat /\ Cardinality(Users(b[p])) \in Nat
  BY <1>a, UsersFinite DEF Users
<1>1. CacheTypeOK'
  <2>1. data' \in [Bufs -> BValues]
    BY <1>a, <1>b
  <2>2. refcnt' \in [Bufs -> Nat]
    BY <1>a, <1>b
  <2>3. pinned' \in SUBSET Bufs
    BY <1>a, <1>b
  <2> QED BY <2>1, <2>2, <2>3
<1>2. LruInv'
  BY DEF LruInv
<1>3. OneBuffer'
  BY DEF OneBuffer
<1>4. RefInv'
  <2> USE DEF RefInv
  <2> TAKE x \in Bufs
  <2>1. Users(x)' = Users(x)
    BY DEF Users
  <2>2. CASE x = b[p]
    <3>1. refcnt[x] = Cardinality(Users(x)) + (IF x \in pinned THEN 1 ELSE 0)
      BY DEF RefInv
    <3>2. x \in pinned' /\ refcnt'[x] = IF x \in pinned THEN refcnt[x] ELSE refcnt[x] + 1
      BY <2>2
    <3> QED BY <1>b, <2>1, <2>2, <3>1, <3>2
  <2>3. CASE x # b[p]
    <3>1. refcnt'[x] = refcnt[x] /\ (x \in pinned' <=> x \in pinned)
      BY <2>3
    <3> QED BY <2>1, <3>1 DEF RefInv
  <2> QED BY <2>2, <2>3
<1>5. CallInv'
  BY DEF CallInv
<1>6. LockInv'
  BY DEF LockInv, HoldPcs, CallInv
<1>7. CleanInv'
  BY DEF CleanInv, CallInv
<1>8. PinInv'
  <2>1. IsFiniteSet(pinned')
    BY FS_AddElement DEF PinInv
  <2>2. Cardinality(pinned') <= MaxPins
    OBVIOUS
  <2> QED BY <2>1, <2>2 DEF PinInv
<1> QED BY <1>1, <1>2, <1>3, <1>4, <1>5, <1>6, <1>7, <1>8 DEF CacheInv

\* bunpin().
LEMMA BunpinPreserves ==
    ASSUME CacheInv, NEW p \in BProcs, Bunpin(p)
    PROVE  CacheInv'
<1> USE BcacheAssumption, NoBuffer DEF BcacheAssumption, CacheInv, CacheTypeOK, BPcs, BAt, BGoto, Bunpin
<1>a. b[p] \in Bufs /\ blockno[b[p]] \in BBlocks
  BY DEF CallInv

<1>b. refcnt[b[p]] \in Nat /\ Cardinality(Users(b[p])) \in Nat
  BY <1>a, UsersFinite DEF Users

<1>c. refcnt[b[p]] = Cardinality(Users(b[p])) + 1 /\ refcnt[b[p]] - 1 \in Nat
  <2>1. b[p] \in pinned
    OBVIOUS
  <2>2. refcnt[b[p]] = Cardinality(Users(b[p])) + 1
    BY <1>a, <2>1 DEF RefInv
  <2> QED BY <1>b, <2>2
<1>1. CacheTypeOK'
  <2>1. refcnt' \in [Bufs -> Nat]
    BY <1>a, <1>c
  <2>2. pinned' \in SUBSET Bufs
    BY <1>a, <1>c
  <2> QED BY <2>1, <2>2
<1>2. LruInv'
  BY DEF LruInv
<1>3. OneBuffer'
  BY DEF OneBuffer
<1>4. RefInv'
  <2> USE DEF RefInv
  <2> TAKE x \in Bufs
  <2>1. Users(x)' = Users(x)
    BY DEF Users
  <2>2. CASE x = b[p]
    <3>1. x \notin pinned' /\ refcnt'[x] = refcnt[x] - 1
      BY <2>2
    <3> QED BY <1>b, <1>c, <2>1, <2>2, <3>1
  <2>3. CASE x # b[p]
    <3>1. refcnt'[x] = refcnt[x] /\ (x \in pinned' <=> x \in pinned)
      BY <2>3
    <3> QED BY <2>1, <3>1 DEF RefInv
  <2> QED BY <2>2, <2>3
<1>5. CallInv'
  BY DEF CallInv
<1>6. LockInv'
  BY DEF LockInv, HoldPcs, CallInv
<1>7. CleanInv'
  BY DEF CleanInv, CallInv
<1>8. PinInv'
  <2>1. IsFiniteSet(pinned) /\ Cardinality(pinned) <= MaxPins /\ Cardinality(pinned) \in Nat
    BY FS_CardinalityType DEF PinInv
  <2>2. IsFiniteSet(pinned') /\ Cardinality(pinned') = Cardinality(pinned) - 1
    BY <2>1, FS_RemoveElement
  <2> QED BY <2>1, <2>2 DEF PinInv
<1> QED BY <1>1, <1>2, <1>3, <1>4, <1>5, <1>6, <1>7, <1>8 DEF CacheInv

\* releasesleep() in brelse().
LEMMA BrelsePreserves ==
    ASSUME CacheInv, NEW p \in BProcs, Brelse(p)
    PROVE  CacheInv'
<1> USE BcacheAssumption, NoBuffer DEF BcacheAssumption, CacheInv, CacheTypeOK, BPcs, BAt, BGoto, Brelse
<1>a. b[p] \in Bufs /\ blockno[b[p]] \in BBlocks
  BY DEF CallInv
<1>1. CacheTypeOK'
  <2>1. lock' \in [Bufs -> BProcs \cup {BNoProc}]
    BY <1>a
  <2>2. bpc' \in [BProcs -> BPcs]
    BY <1>a
  <2>3. panicked' \in BOOLEAN
    BY <1>a
  <2> QED BY <2>1, <2>2, <2>3
<1>2. LruInv'
  BY DEF LruInv
<1>3. OneBuffer'
  BY DEF OneBuffer
<1>4. RefInv'
  BY DEF RefInv, Users
<1>5. CallInv'
  BY DEF CallInv
<1>6. LockInv'
  BY DEF LockInv, HoldPcs, CallInv
<1>7. CleanInv'
  BY DEF CleanInv, CallInv
<1>8. PinInv'
  BY DEF PinInv
<1> QED BY <1>1, <1>2, <1>3, <1>4, <1>5, <1>6, <1>7, <1>8 DEF CacheInv

\* The rest of brelse().
LEMMA BrelseDropPreserves ==
    ASSUME CacheInv, NEW p \in BProcs, BrelseDrop(p)
    PROVE  CacheInv'
<1> USE BcacheAssumption, NoBuffer DEF BcacheAssumption, CacheInv, CacheTypeOK, BPcs, BAt, BGoto,
        BrelseDrop
<1>a. b[p] \in Bufs /\ blockno[b[p]] \in BBlocks
  BY DEF CallInv

<1>b. p \in Users(b[p]) /\ Users(b[p]) \in SUBSET BProcs /\ refcnt[b[p]] \in Nat
  BY <1>a DEF Users
<1>c. refcnt[b[p]] >= 1 /\ refcnt[b[p]] - 1 \in Nat
  <2>1. Cardinality(Users(b[p])) >= 1 /\ Cardinality(Users(b[p])) \in Nat
    BY <1>b, UserGoes, UsersFinite
  <2>2. refcnt[b[p]] = Cardinality(Users(b[p])) + (IF b[p] \in pinned THEN 1 ELSE 0)
    BY <1>a DEF RefInv
  <2>3. refcnt[b[p]] >= 1
    BY <2>1, <2>2
  <2> QED BY <1>b, <2>3
<1>d. PICK pos \in Bufs : lru[pos] = b[p] /\ pos = CHOOSE i \in Bufs : lru[i] = b[p]
  BY <1>a DEF LruInv
<1>e. \/ lru' = lru
      \/ lru' = [i \in Bufs |-> IF i = 1 THEN b[p] ELSE IF i <= pos THEN lru[i - 1] ELSE lru[i]]
  BY <1>d DEF MoveToFront
<1>1. CacheTypeOK'
  <2>1. lru' \in [Bufs -> Bufs]
    <3>1. \A i \in Bufs : i # 1 => i - 1 \in Bufs
      BY DEF Bufs
    <3> QED BY <1>a, <1>e, <3>1
  <2>2. refcnt' \in [Bufs -> Nat]
    BY <1>a, <1>c
  <2>3. b' \in [BProcs -> Bufs \cup {0}] /\ bpc' \in [BProcs -> BPcs]
    OBVIOUS
  <2> QED BY <2>1, <2>2, <2>3
<1>2. LruInv'
  <2>1. CASE lru' = lru
    BY <2>1 DEF LruInv
  <2>2. CASE lru' = [i \in Bufs |-> IF i = 1 THEN b[p] ELSE IF i <= pos THEN lru[i - 1] ELSE lru[i]]
    <3>1. ASSUME NEW x \in Bufs PROVE \E i \in Bufs : lru'[i] = x
      <4>1. PICK j \in Bufs : lru[j] = x
        BY DEF LruInv
      <4>2. CASE j = pos
        BY <1>d, <2>2, <4>1, <4>2
      <4>3. CASE j < pos
        <5>1. j + 1 \in Bufs /\ j + 1 # 1 /\ j + 1 <= pos /\ (j + 1) - 1 = j
          BY <4>3 DEF Bufs
        <5> QED BY <2>2, <4>1, <5>1
      <4>4. CASE j > pos
        <5>1. j # 1 /\ ~(j <= pos)
          BY <4>4 DEF Bufs
        <5> QED BY <2>2, <4>1, <5>1
      <4> QED BY <4>2, <4>3, <4>4 DEF Bufs
    <3> QED BY <3>1 DEF LruInv
  <2> QED BY <1>e, <2>1, <2>2
<1>3. OneBuffer'
  BY DEF OneBuffer
<1>4. RefInv'
  <2> USE DEF RefInv
  <2> TAKE x \in Bufs
  <2>1. refcnt[x] = Cardinality(Users(x)) + (IF x \in pinned THEN 1 ELSE 0) /\ pinned' = pinned
    BY DEF RefInv
  <2>2. CASE x = b[p]
    <3>1. Users(x)' = Users(x) \ {p} /\ refcnt'[x] = refcnt[x] - 1
      BY <1>a, <2>2 DEF Users
    <3>2. Cardinality(Users(x) \ {p}) = Cardinality(Users(x)) - 1 /\ Cardinality(Users(x)) \in Nat
      BY <1>b, <2>2, UserGoes, UsersFinite
    <3> QED BY <2>1, <3>1, <3>2
  <2>3. CASE x # b[p]
    <3>1. Users(x)' = Users(x) /\ refcnt'[x] = refcnt[x]
      BY <2>3 DEF Users
    <3> QED BY <2>1, <3>1
  <2> QED BY <2>2, <2>3
<1>5. CallInv'
  BY DEF CallInv
<1>6. LockInv'
  BY DEF LockInv, HoldPcs, CallInv
<1>7. CleanInv'
  BY DEF CleanInv, CallInv
<1>8. PinInv'
  BY DEF PinInv
<1> QED BY <1>1, <1>2, <1>3, <1>4, <1>5, <1>6, <1>7, <1>8 DEF CacheInv

\* The transfer.
LEMMA RwPreserves ==
    ASSUME CacheInv, NEW p \in BProcs, Rw(p)
    PROVE  CacheInv'
<1> USE BcacheAssumption, NoBuffer DEF BcacheAssumption, CacheInv, CacheTypeOK, BPcs, BAt, BGoto, Rw
<1>a. b[p] \in Bufs /\ blockno[b[p]] \in BBlocks
  BY DEF CallInv

<1>b. lock[b[p]] = p /\ \A q \in BProcs : b[q] = b[p] /\ bpc[q] \in HoldPcs => q = p
  <2>1. lock[b[p]] = p
    BY <1>a DEF LockInv, HoldPcs
  <2>2. \A q \in BProcs : b[q] = b[p] /\ bpc[q] \in HoldPcs => lock[b[p]] = q
    <3>1. LockInv
      OBVIOUS
    <3> HIDE DEF CacheInv, CacheTypeOK, Rw, BAt, BGoto
    <3> QED BY <1>a, <3>1 DEF LockInv
  <2> QED BY <2>1, <2>2
<1>c. data[b[p]] \in BValues /\ bdisk[blockno[b[p]]] \in BValues
  BY <1>a
<1>1. CacheTypeOK'
  <2>1. data' \in [Bufs -> BValues]
    BY <1>a, <1>c
  <2>2. valid' \in [Bufs -> BOOLEAN]
    BY <1>a, <1>c
  <2>3. bdisk' \in [BBlocks -> BValues]
    BY <1>a, <1>c
  <2>4. write' \in [BProcs -> BOOLEAN]
    BY <1>a, <1>c
  <2>5. bpc' \in [BProcs -> BPcs]
    BY <1>a, <1>c
  <2> QED BY <2>1, <2>2, <2>3, <2>4, <2>5
<1>2. LruInv'
  BY DEF LruInv
<1>3. OneBuffer'
  BY DEF OneBuffer
<1>4. RefInv'
  BY DEF RefInv, Users
<1>5. CallInv'
  <2>1. \A q \in BProcs \ {p} : bpc[q] \in HoldPcs => b[q] # b[p]
    BY <1>b
  <2>2. \A q \in BProcs \ {p} : bpc'[q] = bpc[q] /\ write'[q] = write[q] /\ b'[q] = b[q]
    OBVIOUS
  <2>3. bpc'[p] = "holding" /\ write'[p] = FALSE /\ b'[p] = b[p]
    OBVIOUS
  <2>4. valid'[b[p]] = TRUE /\ \A x \in Bufs : x # b[p] => valid'[x] = valid[x]
    BY <1>a DEF CallInv
  <2>5. \A q \in BProcs : b[q] = 0 \/ b[q] \in Bufs
    OBVIOUS
  <2>6. blockno' = blockno
    OBVIOUS
  <2>7. ASSUME NEW q \in BProcs \ {p}
        PROVE  /\ bpc'[q] = "idle" <=> b'[q] = 0
               /\ bpc'[q] # "idle" => blockno'[b'[q]] \in BBlocks
               /\ bpc'[q] = "holding" => valid'[b'[q]]
               /\ bpc'[q] = "rw" => (valid'[b'[q]] <=> write'[q])
               /\ write'[q] => bpc'[q] = "rw"
    <3>1. bpc[q] \in HoldPcs => valid'[b[q]] = valid[b[q]]
      BY <2>1, <2>4, <2>5 DEF CallInv, HoldPcs
    <3> HIDE DEF CacheInv, CacheTypeOK, Rw, BAt, BGoto
    <3>2. CallInv
      BY DEF CacheInv
    <3> QED BY <2>2, <2>6, <3>1, <3>2 DEF CallInv, HoldPcs
  <2>8. /\ bpc'[p] = "idle" <=> b'[p] = 0
        /\ bpc'[p] # "idle" => blockno'[b'[p]] \in BBlocks
        /\ bpc'[p] = "holding" => valid'[b'[p]]
        /\ bpc'[p] = "rw" => (valid'[b'[p]] <=> write'[p])
        /\ write'[p] => bpc'[p] = "rw"
    BY <1>a, <2>3, <2>4, <2>6
  <2> QED BY <2>7, <2>8 DEF CallInv
<1>6. LockInv'
  BY DEF LockInv, HoldPcs, CallInv
<1>7. CleanInv'
  <2> USE DEF CleanInv
  <2> TAKE x \in Bufs
  <2>1. CASE x = b[p]
    <3>1. data'[x] = bdisk'[blockno'[x]] /\ blockno'[x] \in BBlocks
      BY <1>a, <1>c, <2>1
    <3> QED BY <3>1
  <2>2. CASE x # b[p]
    <3>1. valid'[x] = valid[x] /\ data'[x] = data[x] /\ blockno' = blockno /\ pinned' = pinned
      BY <2>2
    <3>2. valid[x] => bdisk'[blockno[x]] = bdisk[blockno[x]]
      <4>1. valid[x] => blockno[x] # blockno[b[p]] /\ blockno[x] \in BBlocks
        BY <1>a, <2>2 DEF OneBuffer, CleanInv
      <4> QED BY <4>1
    <3>3. \A q \in BProcs : b[q] = x => b'[q] = x /\ write'[q] = write[q]
      BY <2>2
    <3> HIDE DEF CacheTypeOK, Rw, BAt, BGoto
    <3> QED BY <3>1, <3>2, <3>3 DEF CleanInv
  <2> QED BY <2>1, <2>2
<1>8. PinInv'
  BY DEF PinInv
<1> QED BY <1>1, <1>2, <1>3, <1>4, <1>5, <1>6, <1>7, <1>8 DEF CacheInv

\* kill() of a process that sleeps.
LEMMA KillWakePreserves ==
    ASSUME CacheInv, NEW p \in BProcs, KillWake(p)
    PROVE  CacheInv'
<1> USE BcacheAssumption, NoBuffer DEF BcacheAssumption, CacheInv, CacheTypeOK, BPcs, BAt, BGoto,
        KillWake, bufVars
<1>1. CacheTypeOK'
  BY DEF CallInv
<1>2. LruInv'
  BY DEF LruInv
<1>3. OneBuffer'
  BY DEF OneBuffer
<1>4. RefInv'
  BY DEF RefInv, Users
<1>5. CallInv'
  BY DEF CallInv
<1>6. LockInv'
  BY DEF LockInv, HoldPcs, CallInv
<1>7. CleanInv'
  BY DEF CleanInv, CallInv
<1>8. PinInv'
  BY DEF PinInv
<1> QED BY <1>1, <1>2, <1>3, <1>4, <1>5, <1>6, <1>7, <1>8 DEF CacheInv

\* bget().
LEMMA BgetPreserves ==
    ASSUME CacheInv, NEW p \in BProcs, NEW k \in BBlocks, Bget(p, k)
    PROVE  CacheInv'
<1> USE BcacheAssumption, NoBuffer DEF BcacheAssumption, CacheInv, CacheTypeOK, BPcs, BAt, BGoto
<1>1. CASE Cached(k) \cup Unused = {}
  <2>1. UNCHANGED <<bufVars, bdisk, procVars>> /\ panicked' = TRUE
    BY <1>1 DEF Bget, bufVars, procVars
  <2> QED BY <2>1 DEF bufVars, procVars, LruInv, OneBuffer, RefInv, Users, CallInv, LockInv,
              CleanInv, PinInv
<1>2. CASE Cached(k) \cup Unused # {}
  <2>1. PICK x \in Bufs : x = BufferFor(k)
    BY <1>2, BufferForIs
  <2>2. PICK hit \in BOOLEAN : hit <=> Cached(k) # {}
    OBVIOUS
  <2>3. IF hit THEN blockno[x] = k ELSE refcnt[x] = 0 /\ \A y \in Bufs : blockno[y] # k
    BY <1>2, <2>1, <2>2, BufferForIs DEF Cached
  <2>4. /\ blockno' = [blockno EXCEPT ![x] = k]
        /\ valid' = [valid EXCEPT ![x] = @ /\ Cached(k) # {}]
        /\ refcnt' = [refcnt EXCEPT ![x] = @ + 1]
        /\ b' = [b EXCEPT ![p] = x]
        /\ bpc' = [bpc EXCEPT ![p] = "lock"]
        /\ UNCHANGED <<lru, data, lock, bdisk, write, pinned, panicked>>
    BY <1>2, <2>1 DEF Bget
  <2>5. bpc[p] = "idle" /\ b[p] = 0 /\ write[p] = FALSE
    BY DEF Bget, CallInv
  <2>6. valid'[x] = (valid[x] /\ hit) /\ \A y \in Bufs : y # x => valid'[y] = valid[y]
    BY <2>2, <2>4
  <2>7. ~hit => /\ \A q \in BProcs : b[q] # x
                /\ x \notin pinned /\ lock[x] = BNoProc
    BY <2>3, FreeBuffer
  <2>8. CacheTypeOK'
    <3>1. blockno' \in [Bufs -> BBlocks \cup {NoBlock}] /\ refcnt' \in [Bufs -> Nat]
      BY <2>4
    <3>2. valid' \in [Bufs -> BOOLEAN]
      BY <2>4
    <3>3. b' \in [BProcs -> Bufs \cup {0}] /\ bpc' \in [BProcs -> BPcs]
      BY <2>4
    <3> QED BY <2>4, <3>1, <3>2, <3>3
  <2>9. LruInv' /\ PinInv'
    BY <2>4 DEF LruInv, PinInv
  <2>10. OneBuffer'
    <3>1. \A y \in Bufs : y # x => blockno'[y] = blockno[y] /\ blockno[y] # k
      <4>1. \A y \in Bufs : y # x => blockno[y] # k
        BY <2>3 DEF OneBuffer
      <4> QED BY <2>4, <4>1
    <3>2. blockno'[x] = k
      BY <2>4
    <3> QED BY <3>1, <3>2 DEF OneBuffer
  <2>11. RefInv'
    <3> USE DEF RefInv
    <3> TAKE y \in Bufs
    <3>1. refcnt[y] = Cardinality(Users(y)) + (IF y \in pinned THEN 1 ELSE 0) /\ pinned' = pinned
      BY <2>4 DEF RefInv
    <3>2. CASE y = x
      <4>1. Users(y)' = Users(y) \cup {p} /\ p \notin Users(y) /\ Users(y) \in SUBSET BProcs
        BY <2>4, <2>5, <3>2 DEF Users
      <4>2. Cardinality(Users(y)') = Cardinality(Users(y)) + 1 /\ Cardinality(Users(y)) \in Nat
        BY <4>1, UserComes, UsersFinite
      <4>3. refcnt'[y] = refcnt[y] + 1
        BY <2>4, <3>2
      <4> QED BY <3>1, <4>2, <4>3
    <3>3. CASE y # x
      <4>1. Users(y)' = Users(y) /\ refcnt'[y] = refcnt[y]
        BY <2>4, <2>5, <3>3 DEF Users
      <4> QED BY <3>1, <4>1
    <3> QED BY <3>2, <3>3
  <2>12. /\ bpc'[p] = "lock" /\ b'[p] = x
         /\ \A q \in BProcs \ {p} : bpc'[q] = bpc[q] /\ b'[q] = b[q]
    BY <2>4
  <2>13. \A q \in BProcs \ {p} : bpc[q] # "idle" =>
             /\ b[q] \in Bufs /\ blockno'[b[q]] = blockno[b[q]] /\ valid'[b[q]] = valid[b[q]]
    <3> SUFFICES ASSUME NEW q \in BProcs \ {p}, bpc[q] # "idle"
                 PROVE  /\ b[q] \in Bufs /\ blockno'[b[q]] = blockno[b[q]]
                        /\ valid'[b[q]] = valid[b[q]]
      OBVIOUS
    <3>1. b[q] \in Bufs
      BY DEF CallInv
    <3>2. CASE b[q] # x
      BY <2>4, <2>6, <3>1, <3>2
    <3>3. CASE b[q] = x
      <4>1. hit
        BY <2>7, <3>3
      <4> QED BY <2>3, <2>4, <2>6, <3>3, <4>1
    <3> QED BY <3>1, <3>2, <3>3
  <2>14. CallInv'
    <3>1. blockno'[x] = k /\ write' = write
      BY <2>4
    <3> HIDE DEF CacheTypeOK, BAt, BGoto
    <3> QED BY <2>5, <2>12, <2>13, <3>1 DEF CallInv
  <2>15. LockInv'
    BY <2>4, <2>5, <2>12 DEF LockInv, HoldPcs
  <2>16. CleanInv'
    <3> USE DEF CleanInv
    <3> TAKE y \in Bufs
    <3>1. pinned' = pinned /\ bdisk' = bdisk /\ data' = data /\ write' = write
      BY <2>4
    <3>2. \A q \in BProcs : b[q] = y => b'[q] = y \/ write[q] = FALSE
      BY <2>5, <2>12
    <3>3. valid'[y] => valid[y] /\ blockno'[y] = blockno[y]
      BY <2>3, <2>4, <2>6
    <3> HIDE DEF CacheTypeOK, BAt, BGoto
    <3> QED BY <3>1, <3>2, <3>3 DEF CleanInv
  <2> QED BY <2>8, <2>9, <2>10, <2>11, <2>14, <2>15, <2>16
<1> QED BY <1>1, <1>2

LEMMA InitCacheInv == CacheInit => CacheInv
<1> SUFFICES ASSUME CacheInit PROVE CacheInv
  OBVIOUS
<1> USE BcacheAssumption, NoBuffer DEF BcacheAssumption, CacheInit
<1>1. lru \in [Bufs -> Bufs] /\ \A x \in Bufs : NBUF - x + 1 \in Bufs /\ lru[NBUF - x + 1] = x
  <2>1. lru = [i \in Bufs |-> NBUF - i + 1]
    <3> DEFINE s == [i \in Bufs |-> i]
    <3>1. s \in Seq(Nat) /\ Len(s) = NBUF
      BY DEF Bufs
    <3>2. Reverse(s) = [i \in 1..Len(s) |-> s[(Len(s) - i) + 1]]
      BY DEF Reverse
    <3>3. \A i \in Bufs : (NBUF - i) + 1 \in Bufs
      BY DEF Bufs
    <3> QED BY <3>1, <3>2, <3>3 DEF Bufs
  <2>2. ASSUME NEW x \in Bufs PROVE NBUF - x + 1 \in Bufs /\ NBUF - (NBUF - x + 1) + 1 = x
    BY DEF Bufs
  <2>3. lru \in [Bufs -> Bufs]
    BY <2>1, <2>2
  <2>4. ASSUME NEW x \in Bufs PROVE lru[NBUF - x + 1] = x
    BY <2>1, <2>2
  <2> HIDE DEF CacheInit
  <2> QED BY <2>2, <2>3, <2>4
<1>2. CacheTypeOK
  BY <1>1 DEF CacheTypeOK, BPcs
<1>3. LruInv
  BY <1>1 DEF LruInv
<1>4. RefInv
  <2>1. \A x \in Bufs : Users(x) = {}
    BY DEF Users
  <2>2. Cardinality({}) = 0
    BY FS_EmptySet
  <2>3. \A x \in Bufs : refcnt[x] = 0 /\ x \notin pinned
    OBVIOUS
  <2>4. ASSUME NEW x \in Bufs
        PROVE  refcnt[x] = Cardinality(Users(x)) + (IF x \in pinned THEN 1 ELSE 0)
    <3>1. Users(x) = {} /\ refcnt[x] = 0 /\ x \notin pinned
      BY <2>1, <2>3
    <3> HIDE DEF CacheInit
    <3> QED BY <2>2, <3>1
  <2> HIDE DEF CacheInit
  <2> QED BY <2>4 DEF RefInv
<1>5. OneBuffer /\ CallInv /\ LockInv /\ CleanInv
  BY DEF OneBuffer, CallInv, LockInv, HoldPcs, CleanInv
<1>6. PinInv
  BY FS_EmptySet DEF PinInv
<1> QED BY <1>2, <1>3, <1>4, <1>5, <1>6 DEF CacheInv

LEMMA StutterCacheInv == CacheInv /\ UNCHANGED cacheVars => CacheInv'
  BY DEF CacheInv, CacheTypeOK, LruInv, OneBuffer, RefInv, Users, CallInv, LockInv, CleanInv, PinInv,
         cacheVars, bufVars, procVars

LEMMA NextCacheInv == CacheInv /\ [CacheNext]_cacheVars => CacheInv'
<1> SUFFICES ASSUME CacheInv, [CacheNext]_cacheVars PROVE CacheInv'
  OBVIOUS
<1>1. ASSUME NEW p \in BProcs, KernelStep(p) PROVE CacheInv'
  BY <1>1, AcquireSleepPreserves, RwPreserves, BrelseDropPreserves, KillWakePreserves DEF KernelStep
<1>2. ASSUME NEW p \in BProcs, CallerStep(p) PROVE CacheInv'
  BY <1>2, BgetPreserves, BwritePreserves, BpinPreserves, BunpinPreserves, BrelsePreserves
     DEF CallerStep
<1> QED BY <1>1, <1>2, StutterCacheInv DEF CacheNext

\* The invariant holds in every state of the cache.
THEOREM CacheInvariant == CacheSpec => []CacheInv
  BY InitCacheInv, NextCacheInv, PTL DEF CacheSpec

-----------------------------------------------------------------------------
(* The refinement mapping, block by block *)

\* The buffers of block k, its content and its holder, as functions of the
\* variables.
BufsOf(bl, k) == {x \in Bufs : bl[x] = k}
MemAt(bl, va, da, di, k) ==
    LET C == BufsOf(bl, k)
    IN IF \E x \in C : va[x] THEN da[CHOOSE x \in C : va[x]] ELSE di[k]
HolderAt(bl, lo, k) ==
    LET C == BufsOf(bl, k)
    IN IF \E x \in C : lo[x] # BNoProc THEN lo[CHOOSE x \in C : lo[x] # BNoProc] ELSE BNoProc
Single(bl) == \A x, y \in Bufs : bl[x] = bl[y] /\ bl[x] # NoBlock => x = y

LEMMA MappingIs ==
    /\ CacheMem = [k \in BBlocks |-> MemAt(blockno, valid, data, bdisk, k)]
    /\ Holder = [k \in BBlocks |-> HolderAt(blockno, lock, k)]
  BY DEF CacheMem, Holder, MemAt, HolderAt, Cached, BufsOf
LEMMA MappingIsNext ==
    /\ CacheMem' = [k \in BBlocks |-> MemAt(blockno', valid', data', bdisk', k)]
    /\ Holder' = [k \in BBlocks |-> HolderAt(blockno', lock', k)]
  BY DEF CacheMem, Holder, MemAt, HolderAt, Cached, BufsOf

\* A block is in one buffer, or in none.
LEMMA OnlyBuffer ==
    ASSUME NEW bl, Single(bl), NEW k \in BBlocks, NEW x \in Bufs, bl[x] = k
    PROVE  BufsOf(bl, k) = {x}
  BY BcacheAssumption DEF BcacheAssumption, Single, BufsOf
LEMMA OneOrNone ==
    ASSUME NEW bl, Single(bl), NEW k \in BBlocks
    PROVE  BufsOf(bl, k) = {} \/ \E x \in Bufs : bl[x] = k /\ BufsOf(bl, k) = {x}
<1>1. CASE \E x \in Bufs : bl[x] = k
  BY <1>1, OnlyBuffer
<1>2. CASE \A x \in Bufs : bl[x] # k
  BY <1>2 DEF BufsOf
<1> QED BY <1>1, <1>2

\* A step that changes neither content nor holder of any block.
LEMMA SameStore ==
    ASSUME \A k \in BBlocks :
              /\ MemAt(blockno', valid', data', bdisk', k) = MemAt(blockno, valid, data, bdisk, k)
              /\ HolderAt(blockno', lock', k) = HolderAt(blockno, lock, k)
    PROVE  UNCHANGED <<CacheMem, Holder>>
  BY MappingIs, MappingIsNext

-----------------------------------------------------------------------------
(* Each action is a step of the store, or none *)

LEMMA SingleNow == CacheInv => Single(blockno)
  BY DEF CacheInv, OneBuffer, Single

\* bget(): the buffer that is recycled is equal to its old block.
LEMMA BgetStep ==
    ASSUME CacheInv, NEW p \in BProcs, NEW k \in BBlocks, Bget(p, k)
    PROVE  UNCHANGED <<CacheMem, Holder>>
<1>1. CASE Cached(k) \cup Unused = {}
  <2>1. UNCHANGED <<blockno, valid, data, bdisk, lock>>
    BY <1>1 DEF Bget
  <2> QED BY <2>1, SameStore
<1>2. CASE Cached(k) \cup Unused # {}
  <2>1. PICK x \in Bufs : x = BufferFor(k)
    BY <1>2, BufferForIs
  <2>2. /\ blockno' = [blockno EXCEPT ![x] = k]
        /\ valid' = [valid EXCEPT ![x] = @ /\ Cached(k) # {}]
        /\ UNCHANGED <<data, lock, bdisk>>
    BY <1>2, <2>1 DEF Bget
  <2>3. CacheTypeOK
    BY DEF CacheInv
  <2>4. CASE Cached(k) # {}
    <3>1. blockno[x] = k
      BY <1>2, <2>1, <2>4, BufferForIs
    <3>2. blockno' = blockno /\ valid' = valid
      BY <2>2, <2>3, <2>4, <3>1 DEF CacheTypeOK
    <3> QED BY <2>2, <3>2, SameStore
  <2>5. CASE Cached(k) = {}
    <3>1. refcnt[x] = 0 /\ \A y \in Bufs : blockno[y] # k
      BY <1>2, <2>1, <2>5, BufferForIs DEF Cached
    <3>2. lock[x] = BNoProc /\ (valid[x] => data[x] = bdisk[blockno[x]])
      BY <3>1, FreeBuffer
    <3>3. Single(blockno) /\ Single(blockno')
      <4>1. CacheInv'
        BY BgetPreserves
      <4> QED BY <4>1 DEF CacheInv, OneBuffer, Single
    <3>4. blockno'[x] = k /\ valid'[x] = FALSE
      BY <2>2, <2>3, <2>5 DEF CacheTypeOK
    <3>5. \A y \in Bufs : y # x => blockno'[y] = blockno[y] /\ valid'[y] = valid[y]
      BY <2>2, <2>3 DEF CacheTypeOK
    <3>6. ASSUME NEW j \in BBlocks
          PROVE  /\ MemAt(blockno', valid', data', bdisk', j) = MemAt(blockno, valid, data, bdisk, j)
                 /\ HolderAt(blockno', lock', j) = HolderAt(blockno, lock, j)
      <4>1. CASE j = k
        <5>1. BufsOf(blockno, j) = {}
          BY <3>1, <4>1 DEF BufsOf
        <5>2. BufsOf(blockno', j) = {x}
          BY <3>3, <3>4, <4>1, OnlyBuffer
        <5>3. MemAt(blockno', valid', data', bdisk', j) = bdisk'[j] /\ HolderAt(blockno', lock', j) = BNoProc
          BY <2>2, <3>2, <3>4, <5>2 DEF MemAt, HolderAt
        <5>4. MemAt(blockno, valid, data, bdisk, j) = bdisk[j] /\ HolderAt(blockno, lock, j) = BNoProc
          BY <5>1 DEF MemAt, HolderAt
        <5> QED BY <2>2, <5>3, <5>4
      <4>2. CASE j # k /\ j = blockno[x]
        <5>1. BufsOf(blockno, j) = {x}
          BY <3>3, <4>2, OnlyBuffer
        <5>2. BufsOf(blockno', j) = {}
          BY <3>3, <3>4, <3>5, <4>2, BcacheAssumption DEF Single, BcacheAssumption, BufsOf
        <5>3. MemAt(blockno, valid, data, bdisk, j) = bdisk[j] /\ HolderAt(blockno, lock, j) = BNoProc
          BY <3>2, <4>2, <5>1 DEF MemAt, HolderAt
        <5>4. MemAt(blockno', valid', data', bdisk', j) = bdisk'[j] /\ HolderAt(blockno', lock', j) = BNoProc
          BY <5>2 DEF MemAt, HolderAt
        <5> QED BY <2>2, <5>3, <5>4
      <4>3. CASE j # k /\ j # blockno[x]
        <5>1. BufsOf(blockno', j) = BufsOf(blockno, j) /\ x \notin BufsOf(blockno, j)
          BY <3>4, <3>5, <4>3 DEF BufsOf
        <5>2. \A y \in BufsOf(blockno, j) : valid'[y] = valid[y]
          BY <3>5, <5>1 DEF BufsOf
        <5>3. BufsOf(blockno, j) = {} \/ \E y \in Bufs : BufsOf(blockno, j) = {y}
          BY <3>3, OneOrNone
        <5> QED BY <2>2, <5>1, <5>2, <5>3 DEF MemAt, HolderAt
      <4> QED BY <4>1, <4>2, <4>3
    <3> QED BY <3>6, SameStore
  <2> QED BY <2>4, <2>5
<1> QED BY <1>1, <1>2

\* acquiresleep(): the block is held, or nothing happens.
LEMMA AcquireSleepStep ==
    ASSUME CacheInv, NEW p \in BProcs, AcquireSleep(p)
    PROVE  BStore!Next \/ UNCHANGED <<CacheMem, Holder>>
<1>1. CASE lock[b[p]] # BNoProc
  <2>1. UNCHANGED <<blockno, valid, data, bdisk, lock>>
    BY <1>1 DEF AcquireSleep
  <2> QED BY <2>1, SameStore
<1>2. CASE lock[b[p]] = BNoProc
  <2>1. b[p] \in Bufs /\ blockno[b[p]] \in BBlocks
    BY DEF AcquireSleep, BAt, CacheInv, CallInv, CacheTypeOK
  <2>2. PICK x \in Bufs : x = b[p]
    BY <2>1
  <2>3. PICK k \in BBlocks : k = blockno[x]
    BY <2>1, <2>2
  <2>4. lock' = [lock EXCEPT ![x] = p] /\ UNCHANGED <<blockno, valid, data, bdisk>>
    BY <1>2, <2>2 DEF AcquireSleep
  <2>5. lock'[x] = p /\ \A y \in Bufs : y # x => lock'[y] = lock[y]
    BY <2>4 DEF CacheInv, CacheTypeOK
  <2>6. \A j \in BBlocks :
           /\ MemAt(blockno', valid', data', bdisk', j) = MemAt(blockno, valid, data, bdisk, j)
           /\ j # k => HolderAt(blockno', lock', j) = HolderAt(blockno, lock, j)
    <3> TAKE j \in BBlocks
    <3>1. MemAt(blockno', valid', data', bdisk', j) = MemAt(blockno, valid, data, bdisk, j)
      BY <2>4
    <3>2. ASSUME j # k PROVE HolderAt(blockno', lock', j) = HolderAt(blockno, lock, j)
      <4>1. \A y \in Bufs : blockno[y] = j => lock'[y] = lock[y]
        BY <2>3, <2>5, <3>2
      <4>2. HolderAt(blockno, lock', j) = HolderAt(blockno, lock, j)
        <5>1. BufsOf(blockno, j) = {} \/ \E y \in Bufs : blockno[y] = j /\ BufsOf(blockno, j) = {y}
          BY SingleNow, OneOrNone
        <5> QED BY <4>1, <5>1 DEF HolderAt
      <4> QED BY <2>4, <4>2
    <3> QED BY <3>1, <3>2
  <2>7. HolderAt(blockno, lock, k) = BNoProc /\ HolderAt(blockno', lock', k) = p
    <3>1. HolderAt(blockno, lock, k) = lock[x] /\ HolderAt(blockno, lock', k) = lock'[x]
      <4>1. BufsOf(blockno, k) = {x}
        BY <2>3, SingleNow, OnlyBuffer
      <4> QED BY <4>1 DEF HolderAt
    <3> QED BY <1>2, <2>2, <2>4, <2>5, <3>1
  <2>8. Holder[k] = BNoProc /\ Holder' = [Holder EXCEPT ![k] = p] /\ UNCHANGED CacheMem
    BY <2>6, <2>7, MappingIs, MappingIsNext
  <2> QED BY <2>8 DEF BStore!Next, BStore!Hold
<1> QED BY <1>1, <1>2

\* The holder of a buffer, and the block it holds.
LEMMA HoldingIs ==
    ASSUME CacheInv, NEW p \in BProcs, BAt(p, "holding")
    PROVE  /\ b[p] \in Bufs /\ blockno[b[p]] \in BBlocks
           /\ lock[b[p]] = p /\ valid[b[p]] /\ Holder[blockno[b[p]]] = p
<1>1. b[p] \in Bufs /\ blockno[b[p]] \in BBlocks /\ valid[b[p]]
  BY DEF BAt, CacheInv, CallInv, CacheTypeOK
<1>2. lock[b[p]] = p
  BY <1>1 DEF BAt, CacheInv, LockInv, HoldPcs
<1>3. Holder[blockno[b[p]]] = p
  <2>1. BufsOf(blockno, blockno[b[p]]) = {b[p]}
    BY <1>1, SingleNow, OnlyBuffer
  <2>2. HolderAt(blockno, lock, blockno[b[p]]) = p
    BY <1>2, <2>1, BcacheAssumption DEF HolderAt, BcacheAssumption
  <2> QED BY <1>1, <2>2, MappingIs
<1> QED BY <1>1, <1>2, <1>3

\* The holder changes the data, with bwrite() or log_write().
LEMMA ChangeStep ==
    ASSUME CacheInv, NEW p \in BProcs, BAt(p, "holding"), NEW v \in BValues,
           data' = [data EXCEPT ![b[p]] = v], UNCHANGED <<blockno, valid, bdisk, lock>>
    PROVE  BStore!Next
<1>1. PICK x \in Bufs : x = b[p]
  BY HoldingIs
<1>2. PICK k \in BBlocks : k = blockno[x]
  BY <1>1, HoldingIs
<1>3. Holder[k] = p /\ valid[x]
  BY <1>1, <1>2, HoldingIs
<1>4. data'[x] = v /\ \A y \in Bufs : y # x => data'[y] = data[y]
  BY <1>1 DEF CacheInv, CacheTypeOK
<1>5. ASSUME NEW j \in BBlocks, j # k
      PROVE  MemAt(blockno', valid', data', bdisk', j) = MemAt(blockno, valid, data, bdisk, j)
  <2>1. \A y \in Bufs : blockno[y] = j => data'[y] = data[y]
    BY <1>2, <1>4, <1>5
  <2>2. MemAt(blockno, valid, data', bdisk, j) = MemAt(blockno, valid, data, bdisk, j)
    <3>1. BufsOf(blockno, j) = {} \/ \E y \in Bufs : blockno[y] = j /\ BufsOf(blockno, j) = {y}
      BY SingleNow, OneOrNone
    <3> QED BY <2>1, <3>1 DEF MemAt
  <2> QED BY <2>2
<1>6. MemAt(blockno', valid', data', bdisk', k) = v
  <2>1. BufsOf(blockno, k) = {x}
    BY <1>2, SingleNow, OnlyBuffer
  <2>2. MemAt(blockno, valid, data', bdisk, k) = data'[x]
    BY <1>3, <2>1 DEF MemAt
  <2> QED BY <1>4, <2>2
<1>7. CacheMem' = [CacheMem EXCEPT ![k] = v] /\ UNCHANGED Holder
  BY <1>5, <1>6, MappingIs, MappingIsNext
<1> QED BY <1>3, <1>7 DEF BStore!Next, BStore!Write

\* releasesleep(): the block is free.
LEMMA BrelseStep ==
    ASSUME CacheInv, NEW p \in BProcs, Brelse(p)
    PROVE  BStore!Next
<1>1. PICK x \in Bufs : x = b[p]
  BY HoldingIs DEF Brelse
<1>2. PICK k \in BBlocks : k = blockno[x]
  BY <1>1, HoldingIs DEF Brelse
<1>3. Holder[k] = p /\ lock[x] = p
  BY <1>1, <1>2, HoldingIs DEF Brelse
<1>4. lock' = [lock EXCEPT ![x] = BNoProc] /\ UNCHANGED <<blockno, valid, data, bdisk>>
  BY <1>1, <1>3 DEF Brelse
<1>5. lock'[x] = BNoProc /\ \A y \in Bufs : y # x => lock'[y] = lock[y]
  BY <1>4 DEF CacheInv, CacheTypeOK
<1>6. ASSUME NEW j \in BBlocks, j # k
      PROVE  HolderAt(blockno', lock', j) = HolderAt(blockno, lock, j)
  <2>1. \A y \in Bufs : blockno[y] = j => lock'[y] = lock[y]
    BY <1>2, <1>5, <1>6
  <2>2. HolderAt(blockno, lock', j) = HolderAt(blockno, lock, j)
    <3>1. BufsOf(blockno, j) = {} \/ \E y \in Bufs : blockno[y] = j /\ BufsOf(blockno, j) = {y}
      BY SingleNow, OneOrNone
    <3> QED BY <2>1, <3>1 DEF HolderAt
  <2> QED BY <1>4, <2>2
<1>7. HolderAt(blockno', lock', k) = BNoProc
  <2>1. BufsOf(blockno, k) = {x}
    BY <1>2, SingleNow, OnlyBuffer
  <2>2. HolderAt(blockno, lock', k) = BNoProc
    BY <1>5, <2>1 DEF HolderAt
  <2> QED BY <1>4, <2>2
<1>8. Holder' = [Holder EXCEPT ![k] = BNoProc] /\ UNCHANGED CacheMem
  BY <1>4, <1>6, <1>7, MappingIs, MappingIsNext
<1> QED BY <1>3, <1>8 DEF BStore!Next, BStore!Drop

\* The transfer: before and after it the buffer's content is the block's.
LEMMA RwStep ==
    ASSUME CacheInv, NEW p \in BProcs, Rw(p)
    PROVE  UNCHANGED <<CacheMem, Holder>>
<1>1. b[p] \in Bufs /\ blockno[b[p]] \in BBlocks /\ (valid[b[p]] <=> write[p])
  BY DEF Rw, BAt, CacheInv, CallInv, CacheTypeOK
<1>2. PICK x \in Bufs : x = b[p]
  BY <1>1
<1>3. PICK k \in BBlocks : k = blockno[x]
  BY <1>1, <1>2
<1>4. UNCHANGED <<blockno, lock>>
  BY DEF Rw
<1>5. /\ valid'[x] = TRUE /\ data'[x] = IF valid[x] THEN data[x] ELSE bdisk[k]
      /\ \A y \in Bufs : y # x => valid'[y] = valid[y] /\ data'[y] = data[y]
      /\ \A j \in BBlocks : j # k => bdisk'[j] = bdisk[j]
  <2>1. CASE write[p]
    BY <1>1, <1>2, <1>3, <2>1 DEF Rw, CacheInv, CacheTypeOK
  <2>2. CASE ~write[p]
    BY <1>1, <1>2, <1>3, <2>2 DEF Rw, CacheInv, CacheTypeOK
  <2> QED BY <2>1, <2>2
<1>6. ASSUME NEW j \in BBlocks
      PROVE  MemAt(blockno', valid', data', bdisk', j) = MemAt(blockno, valid, data, bdisk, j)
  <2>1. CASE j = k
    <3>1. BufsOf(blockno, j) = {x}
      BY <1>3, <2>1, SingleNow, OnlyBuffer
    <3>2. MemAt(blockno, valid, data, bdisk, j) = IF valid[x] THEN data[x] ELSE bdisk[k]
      BY <2>1, <3>1 DEF MemAt
    <3>3. MemAt(blockno, valid', data', bdisk', j) = data'[x]
      BY <1>5, <3>1 DEF MemAt
    <3> QED BY <1>4, <1>5, <3>2, <3>3
  <2>2. CASE j # k
    <3>1. \A y \in Bufs : blockno[y] = j => valid'[y] = valid[y] /\ data'[y] = data[y]
      BY <1>3, <1>5, <2>2
    <3>2. bdisk'[j] = bdisk[j]
      BY <1>5, <2>2
    <3>3. BufsOf(blockno, j) = {} \/ \E y \in Bufs : blockno[y] = j /\ BufsOf(blockno, j) = {y}
      BY SingleNow, OneOrNone
    <3>4. MemAt(blockno, valid', data', bdisk', j) = MemAt(blockno, valid, data, bdisk, j)
      BY <3>1, <3>2, <3>3 DEF MemAt
    <3> QED BY <1>4, <3>4
  <2> QED BY <2>1, <2>2
<1> QED BY <1>4, <1>6, SameStore

LEMMA StoreStep ==
    CacheInv /\ [CacheNext]_cacheVars => BStore!Next \/ UNCHANGED <<CacheMem, Holder>>
<1> SUFFICES ASSUME CacheInv, [CacheNext]_cacheVars
             PROVE  BStore!Next \/ UNCHANGED <<CacheMem, Holder>>
  OBVIOUS
<1>1. ASSUME NEW p \in BProcs, NEW v \in BValues, Bwrite(p, v)
      PROVE  BStore!Next
  <2>1. BAt(p, "holding") /\ lock[b[p]] = p
    BY <1>1, HoldingIs DEF Bwrite
  <2>2. data' = [data EXCEPT ![b[p]] = v] /\ UNCHANGED <<blockno, valid, bdisk, lock>>
    BY <1>1, <2>1 DEF Bwrite
  <2> QED BY <2>1, <2>2, ChangeStep
<1>2. ASSUME NEW p \in BProcs, NEW v \in BValues, Bpin(p, v)
      PROVE  BStore!Next
  BY <1>2, ChangeStep DEF Bpin
<1>3. ASSUME NEW p \in BProcs, Bunpin(p) \/ BrelseDrop(p) \/ KillWake(p)
      PROVE  UNCHANGED <<CacheMem, Holder>>
  <2>1. UNCHANGED <<blockno, valid, data, bdisk, lock>>
    BY <1>3 DEF Bunpin, BrelseDrop, KillWake, bufVars
  <2> QED BY <2>1, SameStore
<1>4. CASE UNCHANGED cacheVars
  <2>1. UNCHANGED <<blockno, valid, data, bdisk, lock>>
    BY <1>4 DEF cacheVars, bufVars
  <2> QED BY <2>1, SameStore
<1> QED BY <1>1, <1>2, <1>3, <1>4, BgetStep, AcquireSleepStep, BrelseStep, RwStep
    DEF CacheNext, KernelStep, CallerStep

LEMMA StoreInit == CacheInit => BStore!Init
<1> SUFFICES ASSUME CacheInit PROVE BStore!Init
  OBVIOUS
<1>1. \A k \in BBlocks : \A x \in Bufs : blockno[x] # k
  BY BcacheAssumption DEF CacheInit, BcacheAssumption
<1>2. CacheMem = [k \in BBlocks |-> bdisk[k]] /\ Holder = [k \in BBlocks |-> BNoProc]
  <2>1. \A k \in BBlocks : BufsOf(blockno, k) = {}
    BY <1>1 DEF BufsOf
  <2>2. \A k \in BBlocks : MemAt(blockno, valid, data, bdisk, k) = bdisk[k] /\ HolderAt(blockno, lock, k) = BNoProc
    BY <2>1 DEF MemAt, HolderAt
  <2> QED BY <2>2, MappingIs
<1> QED BY <1>2 DEF BStore!Init, CacheInit

-----------------------------------------------------------------------------
(* The panic of bget() *)

\* A buffer that is neither pinned nor in use has no references.
LEMMA NoneUnused ==
    ASSUME CacheInv, Unused = {}
    PROVE  AllInUse
<1>1. \A x \in Bufs : refcnt[x] # 0
  BY DEF Unused, CacheInv, LruInv
<1> SUFFICES ASSUME NEW x \in Bufs, x \notin pinned PROVE \E p \in BProcs : b[p] = x
  BY DEF AllInUse
<1>2. Cardinality(Users(x)) # 0
  <2>1. refcnt[x] = Cardinality(Users(x)) + 0 /\ Cardinality(Users(x)) \in Nat
    BY UsersFinite DEF Users, CacheInv, RefInv
  <2> QED BY <1>1, <2>1
<1> QED BY <1>2, FS_EmptySet DEF Users

\* A panic comes from bget(), which leaves the buffers as they are, and after
\* it nothing happens.
LEMMA PanicInv ==
    ASSUME CacheInv, panicked => AllInUse, [CacheNext]_cacheVars
    PROVE  panicked' => AllInUse'
<1>1. ASSUME NEW p \in BProcs, NEW k \in BBlocks, Bget(p, k) PROVE panicked' => AllInUse'
  <2>1. CASE Cached(k) \cup Unused = {}
    <3>1. AllInUse
      BY <2>1, NoneUnused
    <3>2. UNCHANGED <<b, pinned>>
      BY <1>1, <2>1 DEF Bget
    <3> QED BY <3>1, <3>2 DEF AllInUse
  <2>2. CASE Cached(k) \cup Unused # {}
    BY <1>1, <2>2 DEF Bget, BAt
  <2> QED BY <2>1, <2>2
<1>2. ASSUME NEW p \in BProcs, NEW v \in BValues, Bwrite(p, v) PROVE ~panicked'
  BY <1>2, HoldingIs DEF Bwrite, BAt
<1>3. ASSUME NEW p \in BProcs, Brelse(p) PROVE ~panicked'
  BY <1>3, HoldingIs DEF Brelse, BAt
<1>4. ASSUME NEW p \in BProcs, AcquireSleep(p) \/ Rw(p) \/ BrelseDrop(p) \/ KillWake(p) PROVE ~panicked'
  BY <1>4 DEF AcquireSleep, Rw, BrelseDrop, KillWake, BAt
<1>5. ASSUME NEW p \in BProcs, NEW v \in BValues, Bpin(p, v) PROVE ~panicked'
  BY <1>5 DEF Bpin, BAt
<1>6. ASSUME NEW p \in BProcs, Bunpin(p) PROVE ~panicked'
  BY <1>6 DEF Bunpin, BAt
<1>7. CASE UNCHANGED cacheVars
  BY <1>7 DEF cacheVars, procVars, AllInUse
<1> QED BY <1>1, <1>2, <1>3, <1>4, <1>5, <1>6, <1>7 DEF CacheNext, KernelStep, CallerStep

-----------------------------------------------------------------------------
(* Theorems about the cache *)

\* Whatever the number of buffers, each block has one content, that of its
\* buffer or of the disk, which only the holder of its sleep lock changes:
\* no recycling and no transfer loses or invents data.
THEOREM CacheRefinesStore == CacheSpec => BStore!Spec
<1>1. CacheInv /\ [CacheNext]_cacheVars => [BStore!Next]_<<CacheMem, Holder>>
  BY StoreStep
<1> QED BY <1>1, StoreInit, CacheInvariant, PTL DEF CacheSpec, BStore!Spec

\* The cache is that store until it panics, and it panics only in bget(), when
\* every buffer is pinned or in use.
THEOREM CacheImplementsStore == CacheSpec => CacheIsStore
<1>1. CacheInit => ~panicked
  BY DEF CacheInit
<1>2. CacheInv /\ (panicked => AllInUse) /\ [CacheNext]_cacheVars => (panicked' => AllInUse')
  BY PanicInv
<1>3. CacheSpec => [](panicked => AllInUse)
  BY <1>1, <1>2, CacheInvariant, PTL DEF CacheSpec
<1> QED BY <1>3, CacheRefinesStore DEF CacheIsStore

-----------------------------------------------------------------------------
(* The inductive invariant of the driver *)

InFlight == {"io", "ioSleep"}

\* A process has descriptors while its request is under way, and nobody else
\* has them.
DescInv ==
    /\ \A p \in DProcs : idx[p] # {} <=> at[p] \in InFlight
    /\ \A p \in DProcs : idx[p] \cap free = {}
    /\ \A p, q \in DProcs : p # q => idx[p] \cap idx[q] = {}

\* disk.info has the request of the chain that starts at d.
InfoInv ==
    \A d \in Descs, p \in DProcs : info[d] = p <=> idx[p] # {} /\ d = Lowest(idx[p])

Done(d) == \E i \in 1..Len(used) : used[i] = d

\* A chain is in one of the rings, once, and its buffer is waited for.
RingInv ==
    /\ \A d \in Descs : d \in avail \/ Done(d) => info[d] \in DProcs /\ busy[info[d]]
    /\ \A d \in avail : ~Done(d)
    /\ \A i, j \in 1..Len(used) : used[i] = used[j] => i = j

\* The device has moved the data of what is not with it any more.
MovedInv ==
    \A p \in DProcs : at[p] \in InFlight => moved[p] \/ (busy[p] /\ Lowest(idx[p]) \in avail)

\* What the device completes after the last turn of the loop is reported by
\* an interrupt of its own.
LeaveInv == intrAt = "leave" /\ used # <<>> => pending

VirtioInv ==
    /\ VirtioTypeOK /\ DescInv /\ InfoInv /\ RingInv /\ MovedInv
    /\ LeaveInv /\ NoLostCompletion

-----------------------------------------------------------------------------
(* Descriptors *)

LEMMA DescsNat == \A d \in Descs : d \in Nat
BY VirtioAssumption DEF Descs, VirtioAssumption

\* The free descriptors are counted.
LEMMA FreeCount == VirtioTypeOK => Cardinality(free) \in Nat
<1>1. IsFiniteSet(Descs)
  BY VirtioAssumption, FS_Interval DEF Descs, VirtioAssumption
<1> QED BY <1>1, FS_Subset, FS_CardinalityType DEF VirtioTypeOK

\* alloc_desc() finds the lowest free descriptor.
LEMMA LowestIs ==
    ASSUME NEW S \in SUBSET Descs, S # {}
    PROVE  Lowest(S) \in S /\ \A e \in S : Lowest(S) <= e
<1>1. S \in SUBSET Nat
  BY VirtioAssumption DEF Descs, VirtioAssumption
<1>2. PICK r \in S : \A s \in S : ~ (<<s, r>> \in OpToRel(<, Nat))
  BY <1>1, NatLessThanWellFounded, WFMin
<1>3. ASSUME NEW s \in S, s < r PROVE FALSE
  <2>1. <<s, r>> \in OpToRel(<, Nat)
    BY <1>1, <1>3 DEF OpToRel
  <2> QED BY <2>1, <1>2
<1>4. \A s \in S : r <= s
  BY <1>1, <1>3
<1> QED BY <1>4 DEF Lowest

\* alloc3_desc() gets the lowest one among its three.
LEMMA ThreeIs ==
    ASSUME free \in SUBSET Descs, Cardinality(free) >= 3
    PROVE  /\ free # {} /\ Lowest(free) \in LowestThree /\ LowestThree \subseteq free
           /\ Lowest(LowestThree) = Lowest(free)
<1>1. free # {}
  BY FS_EmptySet
<1>2. Lowest(free) \in free /\ \A e \in free : Lowest(free) <= e
  BY <1>1, LowestIs
<1>3. {e \in free : e < Lowest(free)} = {}
  <2>1. PICK l \in Nat : l = Lowest(free)
    BY <1>2, DescsNat
  <2>2. \A e \in free : e \in Nat /\ l <= e
    BY <1>2, <2>1, DescsNat
  <2> QED BY <2>1, <2>2
<1>4. Lowest(free) \in LowestThree
  BY <1>2, <1>3, FS_EmptySet DEF LowestThree
<1>5. LowestThree \subseteq free
  BY DEF LowestThree
<1>6. Lowest(LowestThree) \in LowestThree /\ \A e \in LowestThree : Lowest(LowestThree) <= e
  BY <1>4, <1>5, LowestIs
<1>7. Lowest(LowestThree) = Lowest(free)
  <2>1. PICK l \in Nat, m \in Nat : l = Lowest(free) /\ m = Lowest(LowestThree)
    BY <1>2, <1>5, <1>6, DescsNat
  <2>2. l <= m /\ m <= l
    BY <1>2, <1>4, <1>5, <1>6, <2>1
  <2> QED BY <2>1, <2>2
<1> QED BY <1>1, <1>4, <1>5, <1>7

-----------------------------------------------------------------------------
(* Every step preserves the invariant. *)

LEMMA CallPreserves ==
    ASSUME VirtioInv, NEW p \in DProcs, DiskCall(p)
    PROVE  VirtioInv'
BY DEF VirtioInv, VirtioTypeOK, DescInv, InfoInv, RingInv, MovedInv, LeaveInv, NoLostCompletion, DiskCall,
       Done, InFlight, Sleepers, ringVars

LEMMA DiskKillWakePreserves ==
    ASSUME VirtioInv, NEW p \in DProcs, DiskKillWake(p)
    PROVE  VirtioInv'
<1> USE VirtioAssumption DEF VirtioAssumption, WakeAnd, DiskKillWake, VirtioInv, VirtioTypeOK
<1>1. VirtioTypeOK'
  BY DEF ringVars
<1>2. \A q \in DProcs : at'[q] \in InFlight <=> at[q] \in InFlight
  BY DEF InFlight
<1>3. DescInv' /\ InfoInv' /\ MovedInv'
  BY <1>2 DEF DescInv, InfoInv, MovedInv, ringVars
<1>5. RingInv'
  BY DEF RingInv, Done, ringVars
<1>4. LeaveInv' /\ NoLostCompletion'
  BY DEF LeaveInv, NoLostCompletion, Sleepers, ringVars
<1> QED BY <1>1, <1>3, <1>4, <1>5

\* virtio_disk_rw() up to its first sleep.
LEMMA DiskRwPreserves ==
    ASSUME VirtioInv, NEW p \in DProcs, DiskRw(p)
    PROVE  VirtioInv'
<1> USE VirtioAssumption DEF VirtioAssumption
<1>1. CASE Cardinality(free) >= 3
  <2> DEFINE h == Lowest(free)
  <2>1. /\ h \in LowestThree /\ LowestThree \subseteq free /\ Lowest(LowestThree) = h
        /\ h \in Descs
    BY <1>1, ThreeIs DEF VirtioInv, VirtioTypeOK
  <2>2. /\ free' = free \ LowestThree
        /\ idx' = [idx EXCEPT ![p] = LowestThree]
        /\ info' = [info EXCEPT ![h] = p]
        /\ busy' = [busy EXCEPT ![p] = TRUE]
        /\ avail' = avail \cup {h}
        /\ at' = [at EXCEPT ![p] = "ioSleep"]
        /\ UNCHANGED <<used, pending, intrAt, moved>>
        /\ at[p] = "rw"
    BY <1>1 DEF DiskRw
  <2> HIDE DEF h
  <2> USE DEF VirtioInv, VirtioTypeOK
  <2>3. idx[p] = {} /\ \A q \in DProcs : h \notin idx[q]
    BY <2>1, <2>2 DEF DescInv, InFlight
  <2>4. \A q \in DProcs : info[h] # q
    <3>1. ASSUME NEW q \in DProcs, info[h] = q PROVE FALSE
      <4>1. idx[q] # {} /\ h = Lowest(idx[q])
        BY <2>1, <3>1 DEF InfoInv
      <4> QED BY <4>1, <2>3, LowestIs
    <3> QED BY <3>1
  <2>5. h \notin avail /\ ~Done(h)
    BY <2>1, <2>4 DEF RingInv
  <2>6. VirtioTypeOK'
    BY <2>1, <2>2
  <2>7. DescInv'
    BY <2>1, <2>2 DEF DescInv, InFlight
  <2>8. InfoInv'
    <3> SUFFICES ASSUME NEW d \in Descs, NEW q \in DProcs
                 PROVE  info'[d] = q <=> idx'[q] # {} /\ d = Lowest(idx'[q])
      BY DEF InfoInv
    <3>1. CASE q = p
      BY <2>1, <2>2, <2>3, <3>1 DEF InfoInv
    <3>2. CASE q # p /\ d # h
      BY <2>2, <3>2 DEF InfoInv
    <3>3. CASE q # p /\ d = h
      BY <2>1, <2>2, <2>3, <3>3, LowestIs
    <3> QED BY <3>1, <3>2, <3>3
  <2>9. RingInv'
    <3>1. \A d \in Descs : info[d] # p
      BY <2>3 DEF InfoInv
    <3> QED BY <2>1, <2>2, <2>5, <3>1 DEF RingInv, Done
  <2>10. MovedInv'
    BY <2>1, <2>2 DEF MovedInv, InFlight
  <2>11. NoLostCompletion'
    <3>1. \A q \in DProcs : at'[q] # "descSleep"
      BY <1>1, <2>2, FreeCount DEF NoLostCompletion, Sleepers
    <3>2. \A q \in DProcs : at'[q] = "ioSleep" => busy'[q]
      BY <2>2 DEF NoLostCompletion, Sleepers
    <3> QED BY <2>2, <3>1, <3>2 DEF NoLostCompletion, Sleepers
  <2>12. LeaveInv'
    BY <2>2 DEF LeaveInv
  <2> QED BY <2>12, <2>6, <2>7, <2>8, <2>9, <2>10, <2>11
<1>2. CASE ~(Cardinality(free) >= 3)
  <2> USE DEF VirtioInv, VirtioTypeOK
  <2>1. /\ WakeAnd(IF free = {} THEN {} ELSE Sleepers("descSleep"), p, "descSleep")
        /\ UNCHANGED <<free, idx, info, busy, ringVars, intrAt, moved>>
        /\ at[p] = "rw"
    BY <1>2 DEF DiskRw, ringVars
  <2>2. /\ \A q \in DProcs : at'[q] \in {"rw", "descSleep", at[q]}
        /\ \A q \in DProcs : at'[q] # at[q] => at[q] \in {"rw", "descSleep"}
        /\ at' \in [DProcs -> {"idle", "rw", "descSleep", "io", "ioSleep"}]
    BY <2>1 DEF WakeAnd, Sleepers
  <2>3. VirtioTypeOK'
    BY <2>1, <2>2 DEF ringVars
  <2>4. \A q \in DProcs : at'[q] \in InFlight <=> at[q] \in InFlight
    BY <2>2 DEF InFlight
  <2>5. DescInv' /\ InfoInv' /\ RingInv' /\ MovedInv'
    BY <2>1, <2>4 DEF DescInv, InfoInv, RingInv, MovedInv, Done, ringVars
  <2>6. Cardinality(free) < 3
    BY FreeCount, <1>2
  <2>7. LeaveInv' /\ NoLostCompletion'
    BY <2>1, <2>2, <2>6 DEF LeaveInv, NoLostCompletion, Sleepers, ringVars
  <2> QED BY <2>3, <2>5, <2>7
<1> QED BY <1>1, <1>2

\* The rest of virtio_disk_rw().
LEMMA RwDonePreserves ==
    ASSUME VirtioInv, NEW p \in DProcs, RwDone(p)
    PROVE  VirtioInv'
<1> USE VirtioAssumption DEF VirtioAssumption, VirtioInv, VirtioTypeOK
<1>1. CASE busy[p]
  <2>1. at' = [at EXCEPT ![p] = "ioSleep"] /\ at[p] = "io"
        /\ UNCHANGED <<free, info, idx, moved, busy, ringVars, intrAt>>
    BY <1>1 DEF RwDone
  <2>2. VirtioTypeOK'
    BY <2>1 DEF ringVars
  <2>3. \A q \in DProcs : at'[q] \in InFlight <=> at[q] \in InFlight
    BY <2>1 DEF InFlight
  <2>4. DescInv' /\ InfoInv' /\ RingInv' /\ MovedInv'
    BY <2>1, <2>3 DEF DescInv, InfoInv, RingInv, MovedInv, Done, ringVars
  <2>5. LeaveInv' /\ NoLostCompletion'
    BY <1>1, <2>1 DEF LeaveInv, NoLostCompletion, Sleepers, ringVars
  <2> QED BY <2>2, <2>4, <2>5
<1>2. CASE ~busy[p]
  <2> DEFINE h == Lowest(idx[p])
  <2>1. /\ info' = [info EXCEPT ![h] = DNoProc]
        /\ free' = free \cup idx[p]
        /\ idx' = [idx EXCEPT ![p] = {}]
        /\ moved' = [moved EXCEPT ![p] = FALSE]
        /\ WakeAnd(Sleepers("descSleep"), p, "idle")
        /\ UNCHANGED <<busy, ringVars, intrAt>>
        /\ at[p] = "io"
    BY <1>2 DEF RwDone
  <2>2. idx[p] # {} /\ h \in idx[p] /\ h \in Descs
    BY <2>1, LowestIs DEF DescInv, InFlight
  <2> HIDE DEF h
  <2>3. /\ at'[p] = "idle" /\ \A q \in DProcs : at'[q] # "descSleep"
        /\ \A q \in DProcs \ {p} : at'[q] = at[q] \/ (at[q] = "descSleep" /\ at'[q] = "rw")
        /\ at' \in [DProcs -> {"idle", "rw", "descSleep", "io", "ioSleep"}]
    BY <2>1 DEF WakeAnd, Sleepers
  <2>4. \A q \in DProcs \ {p} : at'[q] \in InFlight <=> at[q] \in InFlight
    BY <2>3 DEF InFlight
  <2>5. info[h] = p
    BY <2>2 DEF InfoInv, h
  <2>6. VirtioTypeOK'
    BY <2>1, <2>2, <2>3 DEF ringVars
  <2>7. DescInv'
    BY <2>1, <2>3, <2>4 DEF DescInv, InFlight
  <2>8. InfoInv'
    <3> SUFFICES ASSUME NEW d \in Descs, NEW q \in DProcs
                 PROVE  info'[d] = q <=> idx'[q] # {} /\ d = Lowest(idx'[q])
      BY DEF InfoInv
    <3>1. CASE q = p
      BY <2>1, <2>2, <3>1 DEF InfoInv, h
    <3>2. CASE q # p /\ d # h
      BY <2>1, <2>2, <3>2 DEF InfoInv
    <3>3. CASE q # p /\ d = h
      <4>1. idx[q] # {} => h # Lowest(idx[q])
        BY <2>2, <3>3, LowestIs DEF DescInv
      <4> QED BY <2>1, <2>2, <3>3, <4>1
    <3> QED BY <3>1, <3>2, <3>3
  <2>9. h \notin avail /\ ~Done(h)
    BY <1>2, <2>2, <2>5 DEF RingInv
  <2>10. RingInv'
    BY <2>1, <2>2, <2>9 DEF RingInv, Done, ringVars
  <2>11. MovedInv'
    BY <2>1, <2>3, <2>4 DEF MovedInv, ringVars, InFlight
  <2>12. LeaveInv' /\ NoLostCompletion'
    BY <2>1, <2>3 DEF LeaveInv, NoLostCompletion, Sleepers, ringVars
  <2> QED BY <2>6, <2>7, <2>8, <2>10, <2>11, <2>12
<1> QED BY <1>1, <1>2

\* The device is done with a chain.
LEMMA CompletePreserves ==
    ASSUME VirtioInv, NEW d \in Descs, Complete(d)
    PROVE  VirtioInv'
<1> USE VirtioAssumption DEF VirtioAssumption, VirtioInv, VirtioTypeOK, Complete
<1>1. info[d] \in DProcs /\ busy[info[d]] /\ ~Done(d)
  BY DEF RingInv
<1>2. VirtioTypeOK'
  BY <1>1
<1>3. /\ Len(used') = Len(used) + 1 /\ used'[Len(used) + 1] = d
      /\ \A i \in 1..Len(used) : used'[i] = used[i]
  OBVIOUS
<1>4. \A e \in Descs : Done(e)' <=> Done(e) \/ e = d
  BY <1>3 DEF Done
<1>5. DescInv' /\ InfoInv'
  BY DEF DescInv, InfoInv
<1>6. RingInv'
  <2>1. \A e \in Descs : e \in avail' \/ Done(e)' => info[e] \in DProcs /\ busy[info[e]]
    BY <1>1, <1>4 DEF RingInv
  <2>2. \A e \in avail' : ~Done(e)'
    BY <1>4 DEF RingInv
  <2>3. \A i, j \in 1..Len(used') : used'[i] = used'[j] => i = j
    BY <1>1, <1>3 DEF RingInv, Done
  <2> QED BY <2>1, <2>2, <2>3 DEF RingInv
<1>7. MovedInv'
  <2> SUFFICES ASSUME NEW p \in DProcs, at[p] \in InFlight
               PROVE  moved'[p] \/ (busy[p] /\ Lowest(idx[p]) \in avail')
    BY DEF MovedInv
  <2>1. CASE p = info[d]
    BY <2>1, <1>1
  <2>2. CASE p # info[d]
    <3>1. Lowest(idx[p]) = d => info[d] = p
      BY DEF InfoInv, DescInv
    <3> QED BY <2>2, <3>1 DEF MovedInv
  <2> QED BY <2>1, <2>2
<1>8. LeaveInv' /\ NoLostCompletion'
  BY DEF LeaveInv, NoLostCompletion, Sleepers
<1> QED BY <1>2, <1>5, <1>6, <1>7, <1>8

LEMMA IntrEnterPreserves ==
    ASSUME VirtioInv, IntrBegin
    PROVE  VirtioInv'
BY DEF VirtioInv, VirtioTypeOK, DescInv, InfoInv, RingInv, MovedInv, LeaveInv, NoLostCompletion, IntrBegin,
       Done, Sleepers

\* One turn of the loop of virtio_disk_intr().
LEMMA IntrTurnPreserves ==
    ASSUME VirtioInv, IntrTurn
    PROVE  VirtioInv'
<1> USE VirtioAssumption DEF VirtioAssumption, VirtioInv, VirtioTypeOK
<1>1. CASE used = <<>>
  BY <1>1 DEF IntrTurn, DescInv, InfoInv, RingInv, MovedInv, LeaveInv, NoLostCompletion, Done, Sleepers
<1>2. CASE used # <<>>
  <2>1. PICK d \in Descs : d = Head(used) /\ d = used[1]
    BY <1>2
  <2>2. PICK p \in DProcs : p = info[d] /\ busy[p] /\ Done(d)
    BY <1>2, <2>1 DEF RingInv, Done
  <2>3. /\ busy' = [busy EXCEPT ![p] = FALSE]
        /\ WakeAnd({p} \cap Sleepers("ioSleep"), DNoProc, "")
        /\ used' = Tail(used) /\ intrAt = "loop"
        /\ UNCHANGED <<intrAt, free, info, avail, pending, idx, moved>>
    BY <1>2, <2>1, <2>2 DEF IntrTurn
  <2>4. /\ \A q \in DProcs \ {p} : at'[q] = at[q]
        /\ at'[p] = IF at[p] = "ioSleep" THEN "io" ELSE at[p]
        /\ at' \in [DProcs -> {"idle", "rw", "descSleep", "io", "ioSleep"}]
    BY <2>3 DEF WakeAnd, Sleepers
  <2>5. \A q \in DProcs : at'[q] \in InFlight <=> at[q] \in InFlight
    BY <2>4 DEF InFlight
  <2>6. /\ used' \in Seq(Descs) /\ Len(used') = Len(used) - 1
        /\ \A i \in 1..Len(used') : used'[i] = used[i + 1] /\ i + 1 \in 1..Len(used)
        /\ 1 \in 1..Len(used)
    <3>1. Len(used) > 0 /\ Len(used) \in Nat
      BY <1>2
    <3>2. used' \in Seq(Descs) /\ Len(used') = Len(used) - 1
      BY <1>2, <2>3, HeadTailProperties
    <3>3. \A i \in 1..Len(used') : used'[i] = used[i + 1]
      BY <1>2, <2>3, HeadTailProperties
    <3>4. \A i \in 1..Len(used') : i + 1 \in 1..Len(used)
      BY <3>1, <3>2
    <3> QED BY <3>1, <3>2, <3>3, <3>4
  <2>7. \A e \in Descs : Done(e)' => Done(e) /\ e # d
    <3> SUFFICES ASSUME NEW e \in Descs, NEW i \in 1..Len(used'), used'[i] = e
                 PROVE  Done(e) /\ e # d
      BY DEF Done
    <3>1. used[i + 1] = e /\ i + 1 \in 1..Len(used) /\ i + 1 # 1
      BY <2>6
    <3> QED BY <3>1, <2>1, <2>6 DEF RingInv, Done
  <2>8. VirtioTypeOK'
    BY <2>3, <2>4, <2>6
  <2>9. DescInv' /\ InfoInv'
    BY <2>3, <2>5 DEF DescInv, InfoInv
  <2>10. \A e \in Descs : info[e] = p => e = d
    BY <2>2 DEF InfoInv
  <2>11. d \notin avail
    BY <2>2 DEF RingInv
  <2>12. RingInv'
    <3>1. \A e \in Descs : e \in avail' \/ Done(e)' => info'[e] \in DProcs /\ busy'[info'[e]]
      <4> SUFFICES ASSUME NEW e \in Descs, e \in avail' \/ Done(e)'
                   PROVE  info'[e] \in DProcs /\ busy'[info'[e]]
        OBVIOUS
      <4>1. e \in avail \/ Done(e)
        BY <2>3, <2>7
      <4>2. e # d
        BY <2>3, <2>7, <2>11
      <4>3. info[e] # p /\ info[e] \in DProcs /\ busy[info[e]]
        BY <2>10, <4>1, <4>2 DEF RingInv
      <4> QED BY <2>3, <4>3
    <3>2. \A e \in avail' : ~Done(e)'
      BY <2>3, <2>7 DEF RingInv
    <3>3. \A i, j \in 1..Len(used') : used'[i] = used'[j] => i = j
      <4> TAKE i, j \in 1..Len(used')
      <4>1. used[i + 1] = used[j + 1] => i + 1 = j + 1
        BY <2>6 DEF RingInv
      <4> QED BY <2>6, <4>1
    <3> QED BY <3>1, <3>2, <3>3 DEF RingInv
  <2>13. MovedInv'
    <3> SUFFICES ASSUME NEW q \in DProcs, at'[q] \in InFlight
                 PROVE  moved'[q] \/ (busy'[q] /\ Lowest(idx'[q]) \in avail')
      BY DEF MovedInv
    <3>1. moved[q] \/ (busy[q] /\ Lowest(idx[q]) \in avail)
      BY <2>5 DEF MovedInv
    <3>2. CASE q # p
      BY <2>3, <3>1, <3>2
    <3>3. CASE q = p
      <4>1. d = Lowest(idx[p])
        BY <2>2 DEF InfoInv
      <4> QED BY <2>3, <2>11, <3>1, <3>3, <4>1
    <3> QED BY <3>2, <3>3
  <2>14. LeaveInv' /\ NoLostCompletion'
    BY <2>3, <2>4 DEF LeaveInv, NoLostCompletion, Sleepers
  <2> QED BY <2>8, <2>9, <2>12, <2>13, <2>14
<1> QED BY <1>1, <1>2

LEMMA IntrLeavePreserves ==
    ASSUME VirtioInv, IntrLeave
    PROVE  VirtioInv'
BY DEF VirtioInv, VirtioTypeOK, DescInv, InfoInv, RingInv, MovedInv, LeaveInv, NoLostCompletion, IntrLeave,
       Done, Sleepers, ringVars

LEMMA InitVirtioInv == VirtioInit => VirtioInv
<1> SUFFICES ASSUME VirtioInit PROVE VirtioInv
  OBVIOUS
<1> USE VirtioAssumption DEF VirtioAssumption, VirtioInit
<1>1. VirtioTypeOK
  <2>1. used \in Seq(Descs)
    OBVIOUS
  <2>2. info \in [Descs -> DProcs \cup {DNoProc}]
    OBVIOUS
  <2>3. /\ at \in [DProcs -> {"idle", "rw", "descSleep", "io", "ioSleep"}]
        /\ idx \in [DProcs -> SUBSET Descs]
        /\ busy \in [DProcs -> BOOLEAN] /\ moved \in [DProcs -> BOOLEAN]
    OBVIOUS
  <2> QED BY <2>1, <2>2, <2>3 DEF VirtioTypeOK
<1>2. DescInv /\ InfoInv /\ MovedInv
  BY DEF DescInv, InfoInv, MovedInv, InFlight
<1>3. RingInv
  BY DEF RingInv, Done
<1>4. LeaveInv /\ NoLostCompletion
  BY DEF LeaveInv, NoLostCompletion, Sleepers
<1> QED BY <1>1, <1>2, <1>3, <1>4 DEF VirtioInv

LEMMA NextVirtioInv == VirtioInv /\ [VirtioNext]_virtioVars => VirtioInv'
<1>1. ASSUME VirtioInv, UNCHANGED virtioVars PROVE VirtioInv'
  BY <1>1 DEF VirtioInv, VirtioTypeOK, DescInv, InfoInv, RingInv, MovedInv, LeaveInv, NoLostCompletion,
              virtioVars, ringVars, Done, Sleepers
<1> QED BY <1>1, CallPreserves, DiskRwPreserves, RwDonePreserves, DiskKillWakePreserves, CompletePreserves,
           IntrEnterPreserves, IntrTurnPreserves, IntrLeavePreserves DEF VirtioNext

-----------------------------------------------------------------------------
(* Theorems about the driver *)

\* A request is in one ring or seen by the driver, and b->disk says which: at
\* every point of virtio_disk_rw(), virtio_disk_intr() and the device.
THEOREM VirtioInvariant == VirtioSpec => []VirtioInv
BY InitVirtioInv, NextVirtioInv, PTL DEF VirtioSpec

\* virtio_disk_rw() and virtio_disk_intr() lose no wakeup and no completion,
\* although the device completes requests while the handler runs.
THEOREM DiskLosesNothing == VirtioSpec => []NoLostCompletion
BY VirtioInvariant, PTL DEF VirtioInv

\* virtio_disk_rw() returns only when its data have been moved, whoever woke
\* it up before.
THEOREM DiskTransferDone == VirtioSpec => TransferDone
<1>1. VirtioInv /\ [VirtioNext]_virtioVars =>
          [\A p \in DProcs : at[p] = "io" /\ at'[p] = "idle" => moved[p]]_virtioVars
  <2> SUFFICES ASSUME VirtioInv, VirtioNext, NEW p \in DProcs, at[p] = "io", at'[p] = "idle"
               PROVE  moved[p]
    OBVIOUS
  <2>1. moved[p] \/ busy[p]
    BY DEF VirtioInv, MovedInv, InFlight
  <2>2. PICK q \in DProcs : RwDone(q) /\ q = p /\ ~busy[q]
    BY VirtioAssumption DEF VirtioNext, DiskCall, DiskRw, RwDone, DiskKillWake, Complete, IntrBegin,
       IntrTurn, IntrLeave, WakeAnd, Sleepers, VirtioInv, VirtioTypeOK, VirtioAssumption
  <2> QED BY <2>1, <2>2
<1> QED BY <1>1, VirtioInvariant, PTL DEF VirtioSpec, TransferDone
=============================================================================
