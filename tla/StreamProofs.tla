---------------------------- MODULE StreamProofs ----------------------------
(***************************************************************************)
(* Proofs about modules Pipe and Console, the two places where the kernel  *)
(* keeps bytes in a ring and counts them modulo a power of two.  They hold *)
(* for any number of processes, any way in which they share the            *)
(* descriptors of the pipe, any size of the buffers, and indices that wrap *)
(* at any multiple of that size, as 2^32 is of 512 and of 128.             *)
(***************************************************************************)
EXTENDS Pipe, Console, FiniteSetTheorems, SequenceTheorems, TLAPS

-----------------------------------------------------------------------------
(* Remainders. *)

\* A remainder is what is left of a multiple.
LEMMA DivMod ==
    ASSUME NEW m \in Nat \ {0}, NEW a \in Int
    PROVE  a \div m \in Int /\ a % m \in 0..(m - 1) /\ a = m * (a \div m) + (a % m)
BY SMT

\* It is determined by that.
LEMMA ModUnique ==
    ASSUME NEW m \in Nat \ {0}, NEW q \in Int, NEW x \in 0..(m - 1)
    PROVE  (m * q + x) % m = x
<1> DEFINE a == m * q + x
           d == a \div m
           y == a % m
<1>1. a \in Int
  OBVIOUS
<1>2. d \in Int /\ y \in 0..(m - 1) /\ a = m * d + y
  BY <1>1, DivMod
<1>3. m * (q - d) = y - x
  <2>1. a = m * q + x
    OBVIOUS
  <2> HIDE DEF a, d, y
  <2>2. m * (q - d) = m * q - m * d /\ m * q \in Int /\ m * d \in Int
    BY <1>2
  <2> QED BY <1>2, <2>1, <2>2
<1>4. CASE q - d >= 1
  <2>1. m * (q - d) >= m
    BY <1>2, <1>4
  <2> QED BY <1>2, <1>3, <2>1
<1>5. CASE q - d <= -1
  <2>1. m * (q - d) <= -m
    BY <1>2, <1>5
  <2> QED BY <1>2, <1>3, <2>1
<1>6. CASE q - d = 0
  BY <1>2, <1>3, <1>6
<1> QED BY <1>2, <1>4, <1>5, <1>6

\* A multiple more or less does not change it.
LEMMA ModShift ==
    ASSUME NEW m \in Nat \ {0}, NEW a \in Int, NEW q \in Int
    PROVE  (a + m * q) % m = a % m
<1> DEFINE d == a \div m
           x == a % m
<1>1. d \in Int /\ x \in 0..(m - 1) /\ a = m * d + x
  BY DivMod
<1>2. a + m * q = m * (d + q) + x
  <2>1. m * (d + q) = m * d + m * q /\ m * d \in Int /\ m * q \in Int
    BY <1>1
  <2> HIDE DEF d, x
  <2> QED BY <1>1, <2>1
<1>3. (m * (d + q) + x) % m = x
  <2> HIDE DEF d, x
  <2>1. d + q \in Int
    BY <1>1
  <2> QED BY <1>1, <2>1, ModUnique
<1> QED BY <1>2, <1>3

\* A number below m is its own remainder.
LEMMA ModSmall ==
    ASSUME NEW m \in Nat \ {0}, NEW x \in 0..(m - 1)
    PROVE  x % m = x
<1>1. (m * 0 + x) % m = x
  BY ModUnique
<1> QED BY <1>1

\* A remainder may be taken first by a multiple of m.
LEMMA ModMod ==
    ASSUME NEW m \in Nat \ {0}, NEW v \in Nat \ {0}, v % m = 0, NEW a \in Int, NEW k \in Int
    PROVE  ((a % v) + k) % m = (a + k) % m
<1> DEFINE d == a \div v
           x == a % v
           c == v \div m
<1>1. d \in Int /\ x \in Int /\ a = v * d + x
  BY DivMod
<1>2. c \in Int /\ v = m * c
  <2>1. c \in Int /\ v = m * c + (v % m)
    BY DivMod
  <2> QED BY <2>1
<1>3. a + k = (x + k) + m * (c * d)
  <2> HIDE DEF d, x, c
  <2>1. v * d = m * (c * d) /\ m * (c * d) \in Int
    BY <1>1, <1>2
  <2> QED BY <1>1, <2>1
<1>4. ((x + k) + m * (c * d)) % m = (x + k) % m
  <2> HIDE DEF d, x, c
  <2>1. x + k \in Int /\ c * d \in Int
    BY <1>1, <1>2
  <2> QED BY <2>1, ModShift
<1> QED BY <1>3, <1>4

\* Two counters that wrap around still tell how far apart they are, ...
LEMMA ModDiff ==
    ASSUME NEW m \in Nat \ {0}, NEW a \in Int, NEW b \in Int, b - a \in 0..(m - 1)
    PROVE  ((b % m) - (a % m)) % m = b - a
<1> DEFINE d == a \div m
           x == a % m
           c == b \div m
           y == b % m
<1>1. d \in Int /\ x \in Int /\ a = m * d + x
  BY DivMod
<1>2. c \in Int /\ y \in Int /\ b = m * c + y
  BY DivMod
<1>3. y - x = (b - a) + m * (d - c)
  <2> HIDE DEF d, x, c, y
  <2>1. m * (d - c) = m * d - m * c /\ m * d \in Int /\ m * c \in Int
    BY <1>1, <1>2
  <2> QED BY <1>1, <1>2, <2>1
<1>4. ((b - a) + m * (d - c)) % m = (b - a) % m
  <2> HIDE DEF d, x, c, y
  <2>1. d - c \in Int /\ b - a \in Int
    BY <1>1, <1>2
  <2> QED BY <2>1, ModShift
<1>5. (b - a) % m = b - a
  BY ModSmall
<1> QED BY <1>3, <1>4, <1>5

\* ... and are different when they are less than m apart.
LEMMA ModNeq ==
    ASSUME NEW m \in Nat \ {0}, NEW a \in Int, NEW b \in Int, b - a \in 1..(m - 1)
    PROVE  a % m # b % m
<1>1. b % m \in Int /\ a % m \in Int
  BY DivMod
<1>2. ((b % m) - (a % m)) % m = b - a
  <2>1. b - a \in 0..(m - 1)
    OBVIOUS
  <2> QED BY <2>1, ModDiff
<1>3. 0 % m = 0
  BY ModSmall
<1>4. CASE a % m = b % m
  <2>1. (b % m) - (a % m) = 0
    BY <1>1, <1>4
  <2> QED BY <1>2, <1>3, <2>1
<1> QED BY <1>4

\* Two sequences with the same elements are the same.
LEMMA SplitSequence ==
    ASSUME NEW T, NEW a \in Seq(T), NEW b \in Seq(T), NEW c \in Seq(T),
           Len(c) = Len(a) + Len(b),
           \A i \in 1..Len(a) : c[i] = a[i],
           \A k \in 1..Len(b) : c[Len(a) + k] = b[k]
    PROVE  a \o b = c
<1>1. a \o b \in Seq(T) /\ Len(a \o b) = Len(c)
  OBVIOUS
<1>2. \A i \in 1..Len(c) : (a \o b)[i] = c[i]
  <2> SUFFICES ASSUME NEW i \in 1..Len(c) PROVE (a \o b)[i] = c[i]
    OBVIOUS
  <2>1. CASE i <= Len(a)
    BY <2>1
  <2>2. CASE i > Len(a)
    <3>1. i - Len(a) \in 1..Len(b) /\ Len(a) + (i - Len(a)) = i
      BY <2>2
    <3>2. c[Len(a) + (i - Len(a))] = b[i - Len(a)]
      BY <3>1
    <3> QED BY <2>2, <3>1, <3>2
  <2> QED BY <2>1, <2>2
<1> QED BY <1>1, <1>2, SeqEqual

-----------------------------------------------------------------------------
(* The pipe: the invariant. *)

LockPcs == {"rloop", "rdoze", "rcopy", "wloop", "wdoze"}
ReadPcs == {"rlock", "rloop", "rdoze", "rsleep", "rcopy"}
WritePcs == {"wlock", "wloop", "wdoze", "wsleep"}

\* pi->lock is held by the process that is inside it.
PLockInv == \A p \in PProc : ppc[p] \in LockPcs <=> plock = p

\* A call holds on to its descriptor.  An end is open while there is a
\* descriptor for it or its last user is on the way to pipeclose().
DescInv ==
    /\ \A p \in PProc : /\ ppc[p] \in ReadPcs => "r" \in fds[p]
                        /\ ppc[p] \in WritePcs => "w" \in fds[p]
    /\ \A side \in End : fref[side] = Holders(fds, side)
    /\ pi.readopen <=> \E p \in PProc : "r" \in fds[p] \/ ppc[p] = "cr"
    /\ pi.writeopen <=> \E p \in PProc : "w" \in fds[p] \/ ppc[p] = "cw"
    /\ \A p \in PProc : ppc[p] = "cr" => \A q \in PProc : "r" \notin fds[q] /\ (ppc[q] = "cr" => q = p)
    /\ \A p \in PProc : ppc[p] = "cw" => \A q \in PProc : "w" \notin fds[q] /\ (ppc[q] = "cw" => q = p)
    /\ pi.alloc <=> pi.readopen \/ pi.writeopen

\* Why a process sleeps.  The process that holds the lock may have changed that,
\* and wakes the sleepers before it lets the lock go.
SleepInv ==
    \A p \in PProc :
        /\ ppc[p] = "rsleep" => pi.writeopen /\ (Empty \/ cut \/ \E q \in PProc : ppc[q] = "wloop")
        /\ ppc[p] = "wsleep" => pi.readopen /\ (Full \/ \E q \in PProc : ppc[q] = "rcopy")
        /\ ppc[p] = "rdoze" => pi.writeopen /\ Empty
        /\ ppc[p] = "wdoze" => pi.readopen /\ Full

\* The counters are the numbers of bytes that came and went, up to WRAP, and the
\* bytes in between are in the slots that these numbers give them.
CountInv ==
    /\ Len(taken) <= Len(sent) /\ Len(sent) <= Len(taken) + PIPESIZE
    /\ pi.nread = Len(taken) % WRAP
    /\ pi.nwrite = Len(sent) % WRAP
BytesInv ==
    /\ \A i \in 1..Len(taken) : taken[i] = sent[i]
    /\ \A i \in (Len(taken) + 1)..Len(sent) : pi.data[(i - 1) % PIPESIZE] = sent[i]

PipeInv == PipeTypeOK /\ PLockInv /\ DescInv /\ SleepInv /\ CountInv /\ BytesInv

-----------------------------------------------------------------------------
(* The pipe: its counters. *)

\* The tests of the code on the counters are right although these wrap around.
LEMMA EmptyFull ==
    ASSUME PipeTypeOK, CountInv
    PROVE  /\ Len(taken) \in Nat /\ Len(sent) \in Nat
           /\ Len(taken) <= Len(sent) /\ Len(sent) <= Len(taken) + PIPESIZE
           /\ Empty <=> Len(sent) = Len(taken)
           /\ Full <=> Len(sent) = Len(taken) + PIPESIZE
<1> DEFINE s == Len(sent)
           x == Len(taken)
<1>1. s \in Nat /\ x \in Nat /\ x <= s /\ s <= x + PIPESIZE
  BY DEF PipeTypeOK, CountInv
<1>2. WRAP \in Nat \ {0} /\ PIPESIZE \in Nat /\ PIPESIZE <= WRAP - 1
  BY PipeAssumption DEF PipeAssumption
<1>3. pi.nread = x % WRAP /\ pi.nwrite = s % WRAP
  BY DEF CountInv
<1> HIDE DEF s, x
<1>4. ASSUME s # x PROVE x % WRAP # s % WRAP
  <2>1. s - x \in 1..(WRAP - 1)
    BY <1>1, <1>2, <1>4
  <2>2. s \in Int /\ x \in Int
    BY <1>1
  <2> QED BY <1>2, <2>1, <2>2, ModNeq, Zenon
<1>5. ((x % WRAP) + PIPESIZE) % WRAP = (x + PIPESIZE) % WRAP
  <2>1. WRAP % WRAP = 0
    <3>1. (WRAP * 1 + 0) % WRAP = 0
      BY <1>2, ModUnique
    <3> QED BY <1>2, <3>1
  <2>2. x \in Int /\ PIPESIZE \in Int
    BY <1>1, <1>2
  <2> QED BY <1>2, <2>1, <2>2, ModMod, Zenon
<1>6. ASSUME s # x + PIPESIZE PROVE s % WRAP # (x + PIPESIZE) % WRAP
  <2>1. (x + PIPESIZE) - s \in 1..(WRAP - 1) /\ x + PIPESIZE \in Int /\ s \in Int
    BY <1>1, <1>2, <1>6
  <2> QED BY <1>2, <2>1, ModNeq, Zenon
<1> QED BY <1>1, <1>3, <1>4, <1>5, <1>6 DEF Empty, Full, s, x

\* Counting on from a remainder.
LEMMA IncCount ==
    ASSUME NEW k \in Nat
    PROVE  Inc(k % WRAP) = (k + 1) % WRAP /\ Inc(k % WRAP) \in Counter
<1>1. WRAP \in Nat \ {0}
  BY PipeAssumption DEF PipeAssumption
<1>2. WRAP % WRAP = 0
  <2>1. (WRAP * 1 + 0) % WRAP = 0
    BY <1>1, ModUnique
  <2> QED BY <1>1, <2>1
<1>3. (k + 1) % WRAP \in 0..(WRAP - 1)
  BY <1>1, DivMod
<1>4. ((k % WRAP) + 1) % WRAP = (k + 1) % WRAP
  <2>1. k \in Int /\ 1 \in Int
    OBVIOUS
  <2> QED BY <1>1, <1>2, <2>1, ModMod, Zenon
<1> QED BY <1>3, <1>4 DEF Inc, Counter

\* The slot of the byte with number k + 1.
LEMMA Slot ==
    ASSUME NEW k \in Nat
    PROVE  (k % WRAP) % PIPESIZE = k % PIPESIZE /\ k % PIPESIZE \in 0..(PIPESIZE - 1)
<1>1. WRAP \in Nat \ {0} /\ PIPESIZE \in Nat \ {0} /\ WRAP % PIPESIZE = 0
  BY PipeAssumption DEF PipeAssumption
<1>2. k \in Int /\ 0 \in Int
  OBVIOUS
<1>3. ((k % WRAP) + 0) % PIPESIZE = (k + 0) % PIPESIZE
  BY <1>1, <1>2, ModMod, ZenonT(40)
<1>4. k % WRAP \in Int /\ k % PIPESIZE \in 0..(PIPESIZE - 1)
  BY <1>1, <1>2, DivMod
<1>5. (k % WRAP) + 0 = k % WRAP /\ k + 0 = k
  BY <1>4
<1> QED BY <1>3, <1>4, <1>5

\* A step that moves no byte leaves the bytes as they are.
LEMMA DataFrame ==
    ASSUME CountInv, BytesInv, UNCHANGED <<sent, taken>>,
           pi'.nread = pi.nread, pi'.nwrite = pi.nwrite, pi'.data = pi.data
    PROVE  CountInv' /\ BytesInv'
BY DEF CountInv, BytesInv

\* A step that closes nothing leaves the ends as they are.
LEMMA DescFrame ==
    ASSUME DescInv, UNCHANGED <<fref, fds>>, pi'.readopen = pi.readopen,
           pi'.writeopen = pi.writeopen, pi'.alloc = pi.alloc,
           \A q \in PProc : /\ ppc'[q] \in ReadPcs => "r" \in fds[q]
                            /\ ppc'[q] \in WritePcs => "w" \in fds[q]
                            /\ ppc'[q] = "cr" <=> ppc[q] = "cr"
                            /\ ppc'[q] = "cw" <=> ppc[q] = "cw"
    PROVE  DescInv'
BY DEF DescInv

\* Closing a descriptor: only the process that drops the last reference to an
\* end goes on to close that end.
LEMMA CloseDesc ==
    ASSUME PipeTypeOK, DescInv, NEW p \in PProc, NEW side \in End, FileClose(p, side),
           \A d \in End : fref'[d] = Holders(fds', d),
           fref[side] > 1 <=> \E y \in PProc \ {p} : side \in fds[y]
    PROVE  DescInv'
<1>1. /\ \A y \in PProc \ {p} : fds'[y] = fds[y] /\ ppc'[y] = ppc[y]
      /\ fds'[p] = fds[p] \ {side} /\ ppc[p] = "idle" /\ side \in fds[p] /\ pi' = pi
  BY DEF FileClose, Go, PipeTypeOK
<1>2. ppc'[p] = (IF \E y \in PProc \ {p} : side \in fds[y] THEN "idle" ELSE IF side = "r" THEN "cr" ELSE "cw")
  BY DEF FileClose, Go, PipeTypeOK
<1>3. \A y \in PProc : /\ ppc'[y] \in ReadPcs => "r" \in fds'[y]
                       /\ ppc'[y] \in WritePcs => "w" \in fds'[y]
  <2>1. \A y \in PProc \ {p} : /\ ppc'[y] \in ReadPcs => "r" \in fds'[y]
                               /\ ppc'[y] \in WritePcs => "w" \in fds'[y]
    BY <1>1 DEF DescInv
  <2>2. ppc'[p] \in {"idle", "cr", "cw"}
    BY <1>2
  <2>3. ppc'[p] \notin ReadPcs /\ ppc'[p] \notin WritePcs
    BY <2>2 DEF ReadPcs, WritePcs
  <2> QED BY <2>1, <2>3
<1>4. \A y \in PProc : (ppc[y] = "cr" => side # "r") /\ (ppc[y] = "cw" => side # "w")
  BY <1>1 DEF DescInv
<1>5. CASE side = "r"
  <2>1. /\ \A y \in PProc : /\ "w" \in fds'[y] <=> "w" \in fds[y]
                            /\ ppc'[y] = "cw" <=> ppc[y] = "cw"
    BY <1>1, <1>2, <1>5
  <2>2. \A y \in PProc \ {p} : ("r" \in fds'[y] <=> "r" \in fds[y]) /\ ppc'[y] # "cr"
    BY <1>1, <1>4, <1>5
  <2>3. "r" \notin fds'[p] /\ "r" \in fds[p] /\ (ppc'[p] = "cr" <=> ~\E y \in PProc \ {p} : "r" \in fds[y])
    BY <1>1, <1>2, <1>5
  <2>4. pi'.readopen = TRUE /\ \E y \in PProc : "r" \in fds'[y] \/ ppc'[y] = "cr"
    <3>1. pi.readopen = TRUE
      BY <2>3 DEF DescInv, PipeTypeOK
    <3> QED BY <1>1, <2>2, <2>3, <3>1
  <2>5. pi'.writeopen <=> \E y \in PProc : "w" \in fds'[y] \/ ppc'[y] = "cw"
    BY <1>1, <2>1 DEF DescInv
  <2>6. \A x \in PProc : ppc'[x] = "cr" => \A y \in PProc : "r" \notin fds'[y] /\ (ppc'[y] = "cr" => y = x)
    BY <2>2, <2>3
  <2>7. \A x \in PProc : ppc'[x] = "cw" => \A y \in PProc : "w" \notin fds'[y] /\ (ppc'[y] = "cw" => y = x)
    BY <2>1 DEF DescInv
  <2>8. pi'.alloc <=> pi'.readopen \/ pi'.writeopen
    BY <1>1 DEF DescInv
  <2> QED BY <1>3, <2>4, <2>5, <2>6, <2>7, <2>8 DEF DescInv
<1>6. CASE side = "w"
  <2>1. /\ \A y \in PProc : /\ "r" \in fds'[y] <=> "r" \in fds[y]
                            /\ ppc'[y] = "cr" <=> ppc[y] = "cr"
    BY <1>1, <1>2, <1>6
  <2>2. \A y \in PProc \ {p} : ("w" \in fds'[y] <=> "w" \in fds[y]) /\ ppc'[y] # "cw"
    BY <1>1, <1>4, <1>6
  <2>3. "w" \notin fds'[p] /\ "w" \in fds[p] /\ (ppc'[p] = "cw" <=> ~\E y \in PProc \ {p} : "w" \in fds[y])
    BY <1>1, <1>2, <1>6
  <2>4. pi'.writeopen = TRUE /\ \E y \in PProc : "w" \in fds'[y] \/ ppc'[y] = "cw"
    <3>1. pi.writeopen = TRUE
      BY <2>3 DEF DescInv, PipeTypeOK
    <3> QED BY <1>1, <2>2, <2>3, <3>1
  <2>5. pi'.readopen <=> \E y \in PProc : "r" \in fds'[y] \/ ppc'[y] = "cr"
    BY <1>1, <2>1 DEF DescInv
  <2>6. \A x \in PProc : ppc'[x] = "cw" => \A y \in PProc : "w" \notin fds'[y] /\ (ppc'[y] = "cw" => y = x)
    BY <2>2, <2>3
  <2>7. \A x \in PProc : ppc'[x] = "cr" => \A y \in PProc : "r" \notin fds'[y] /\ (ppc'[y] = "cr" => y = x)
    BY <2>1 DEF DescInv
  <2>8. pi'.alloc <=> pi'.readopen \/ pi'.writeopen
    BY <1>1 DEF DescInv
  <2> QED BY <1>3, <2>4, <2>5, <2>6, <2>7, <2>8 DEF DescInv
<1> QED BY <1>5, <1>6 DEF End

-----------------------------------------------------------------------------
(* The pipe: every step preserves the invariant. *)

\* write() begins.
LEMMA StartWritePreserves ==
    ASSUME PipeInv, NEW p \in PProc, NEW num \in {1, PIPESIZE + 1}, StartWrite(p, num)
    PROVE  PipeInv'
<1> USE PipeAssumption DEF PipeAssumption, PipeInv, PipeTypeOK, End, NoHolder, StartWrite, Go
<1>1. PipeTypeOK'
  BY SMTT(30) DEF PPcs
<1>2. PLockInv'
  BY DEF PLockInv, LockPcs
<1>3. DescInv'
  <2>1. \A y \in PProc : /\ ppc'[y] \in ReadPcs => ppc[y] \in ReadPcs \/ "r" \in fds[y]
                         /\ ppc'[y] \in WritePcs => ppc[y] \in WritePcs \/ "w" \in fds[y]
                         /\ ppc'[y] = "cr" <=> ppc[y] = "cr"
                         /\ ppc'[y] = "cw" <=> ppc[y] = "cw"
    BY DEF ReadPcs, WritePcs
  <2>2. \A y \in PProc : /\ ppc'[y] \in ReadPcs => "r" \in fds[y]
                         /\ ppc'[y] \in WritePcs => "w" \in fds[y]
    BY <2>1 DEF DescInv
  <2> QED BY <2>1, <2>2, DescFrame
<1>4. SleepInv'
  BY DEF SleepInv, Empty, Full
<1>5. CountInv' /\ BytesInv'
  BY DataFrame
<1> QED BY <1>1, <1>2, <1>3, <1>4, <1>5 DEF PipeInv

\* read() begins.
LEMMA StartReadPreserves ==
    ASSUME PipeInv, NEW p \in PProc, NEW num \in {1, PIPESIZE + 1}, StartRead(p, num)
    PROVE  PipeInv'
<1> USE PipeAssumption DEF PipeAssumption, PipeInv, PipeTypeOK, End, NoHolder, StartRead, Go
<1>1. PipeTypeOK'
  BY DEF PPcs
<1>2. PLockInv'
  BY DEF PLockInv, LockPcs
<1>3. DescInv'
  <2>1. \A y \in PProc : /\ ppc'[y] \in ReadPcs => ppc[y] \in ReadPcs \/ "r" \in fds[y]
                         /\ ppc'[y] \in WritePcs => ppc[y] \in WritePcs \/ "w" \in fds[y]
                         /\ ppc'[y] = "cr" <=> ppc[y] = "cr"
                         /\ ppc'[y] = "cw" <=> ppc[y] = "cw"
    BY DEF ReadPcs, WritePcs
  <2>2. \A y \in PProc : /\ ppc'[y] \in ReadPcs => "r" \in fds[y]
                         /\ ppc'[y] \in WritePcs => "w" \in fds[y]
    BY <2>1 DEF DescInv
  <2> QED BY <2>1, <2>2, DescFrame
<1>4. SleepInv'
  BY DEF SleepInv, Empty, Full
<1>5. CountInv' /\ BytesInv'
  BY DataFrame
<1> QED BY <1>1, <1>2, <1>3, <1>4, <1>5 DEF PipeInv

\* acquire() in pipewrite().
LEMMA WriteLockPreserves ==
    ASSUME PipeInv, NEW p \in PProc, WriteLock(p)
    PROVE  PipeInv'
<1> USE PipeAssumption DEF PipeAssumption, PipeInv, PipeTypeOK, End, NoHolder, WriteLock, Lock, Go
<1>1. PipeTypeOK'
  BY DEF PPcs
<1>2. PLockInv'
  BY DEF PLockInv, LockPcs
<1>3. DescInv'
  <2>1. \A y \in PProc : /\ ppc'[y] \in ReadPcs => ppc[y] \in ReadPcs \/ "r" \in fds[y]
                         /\ ppc'[y] \in WritePcs => ppc[y] \in WritePcs \/ "w" \in fds[y]
                         /\ ppc'[y] = "cr" <=> ppc[y] = "cr"
                         /\ ppc'[y] = "cw" <=> ppc[y] = "cw"
    BY DEF ReadPcs, WritePcs
  <2>2. \A y \in PProc : /\ ppc'[y] \in ReadPcs => "r" \in fds[y]
                         /\ ppc'[y] \in WritePcs => "w" \in fds[y]
    BY <2>1 DEF DescInv
  <2> QED BY <2>1, <2>2, DescFrame
<1>4. SleepInv'
  BY DEF SleepInv, Empty, Full
<1>5. CountInv' /\ BytesInv'
  BY DataFrame
<1> QED BY <1>1, <1>2, <1>3, <1>4, <1>5 DEF PipeInv

\* The pipe is full: the readers are woken before the writer sleeps.
LEMMA WriteFullPreserves ==
    ASSUME PipeInv, NEW p \in PProc, WriteFull(p)
    PROVE  PipeInv'
<1> USE PipeAssumption DEF PipeAssumption, PipeInv, PipeTypeOK, End, NoHolder, WriteFull, wakeup,
        WakeReaders, Go
<1>1. PipeTypeOK'
  BY DEF PPcs
<1>2. PLockInv'
  BY DEF PLockInv, LockPcs
<1>3. DescInv'
  <2>1. \A y \in PProc : /\ ppc'[y] \in ReadPcs => ppc[y] \in ReadPcs \/ "r" \in fds[y]
                         /\ ppc'[y] \in WritePcs => ppc[y] \in WritePcs \/ "w" \in fds[y]
                         /\ ppc'[y] = "cr" <=> ppc[y] = "cr"
                         /\ ppc'[y] = "cw" <=> ppc[y] = "cw"
    BY DEF ReadPcs, WritePcs
  <2>2. \A y \in PProc : /\ ppc'[y] \in ReadPcs => "r" \in fds[y]
                         /\ ppc'[y] \in WritePcs => "w" \in fds[y]
    BY <2>1 DEF DescInv
  <2> QED BY <2>1, <2>2, DescFrame
<1>4. SleepInv'
  BY DEF SleepInv, Empty, Full
<1>5. CountInv' /\ BytesInv'
  BY DataFrame
<1> QED BY <1>1, <1>2, <1>3, <1>4, <1>5 DEF PipeInv

\* sleep() in pipewrite().
LEMMA WriteSleepPreserves ==
    ASSUME PipeInv, NEW p \in PProc, WriteSleep(p)
    PROVE  PipeInv'
<1> USE PipeAssumption DEF PipeAssumption, PipeInv, PipeTypeOK, End, NoHolder, WriteSleep, Go
<1>1. PipeTypeOK'
  BY DEF PPcs
<1>2. PLockInv'
  BY DEF PLockInv, LockPcs
<1>3. DescInv'
  <2>1. \A y \in PProc : /\ ppc'[y] \in ReadPcs => ppc[y] \in ReadPcs \/ "r" \in fds[y]
                         /\ ppc'[y] \in WritePcs => ppc[y] \in WritePcs \/ "w" \in fds[y]
                         /\ ppc'[y] = "cr" <=> ppc[y] = "cr"
                         /\ ppc'[y] = "cw" <=> ppc[y] = "cw"
    BY DEF ReadPcs, WritePcs
  <2>2. \A y \in PProc : /\ ppc'[y] \in ReadPcs => "r" \in fds[y]
                         /\ ppc'[y] \in WritePcs => "w" \in fds[y]
    BY <2>1 DEF DescInv
  <2> QED BY <2>1, <2>2, DescFrame
<1>4. SleepInv'
  BY DEF SleepInv, Empty, Full
<1>5. CountInv' /\ BytesInv'
  BY DataFrame
<1> QED BY <1>1, <1>2, <1>3, <1>4, <1>5 DEF PipeInv

\* A byte goes in.
LEMMA WriteBytePreserves ==
    ASSUME PipeInv, NEW p \in PProc, WriteByte(p)
    PROVE  PipeInv'
<1> USE PipeAssumption DEF PipeAssumption, PipeInv
<1> DEFINE b == Len(sent) + 1
           k == pi.nwrite % PIPESIZE
<1>1. /\ ppc[p] = "wloop" /\ left[p] > 0 /\ pi.readopen /\ ~Full
      /\ pi' = [pi EXCEPT !.data[k] = b, !.nwrite = Inc(@)] /\ sent' = Append(sent, b)
      /\ left' = [left EXCEPT ![p] = @ - 1]
      /\ UNCHANGED <<plock, fref, fds, ppc, pkilled, cut, taken>>
  BY DEF WriteByte
<1>2. Len(sent) \in Nat /\ b \in Nat /\ k = Len(sent) % PIPESIZE /\ k \in 0..(PIPESIZE - 1)
  <2>1. Len(sent) \in Nat /\ b \in Nat
    BY DEF PipeTypeOK
  <2>2. pi.nwrite = Len(sent) % WRAP
    BY DEF CountInv
  <2>3. (Len(sent) % WRAP) % PIPESIZE = Len(sent) % PIPESIZE /\ Len(sent) % PIPESIZE \in 0..(PIPESIZE - 1)
    BY <2>1, Slot, Zenon
  <2> QED BY <2>1, <2>2, <2>3
<1>3. /\ pi' \in [nread : Counter, nwrite : Counter, data : [0..(PIPESIZE - 1) -> Nat],
                  readopen : BOOLEAN, writeopen : BOOLEAN, alloc : BOOLEAN]
      /\ pi'.nread = pi.nread /\ pi'.nwrite = Inc(pi.nwrite) /\ pi'.data = [pi.data EXCEPT ![k] = b]
      /\ pi'.readopen = pi.readopen /\ pi'.writeopen = pi.writeopen /\ pi'.alloc = pi.alloc
  <2>1. Inc(pi.nwrite) \in Counter
    BY <1>2, IncCount DEF CountInv
  <2> HIDE DEF k, b
  <2> QED BY <1>1, <1>2, <2>1 DEF PipeTypeOK
<1>4. sent' \in Seq(Nat) /\ Len(sent') = b /\ sent'[b] = b /\ \A i \in 1..Len(sent) : sent'[i] = sent[i]
  <2> HIDE DEF b
  <2>1. sent' = Append(sent, b) /\ sent \in Seq(Nat) /\ b \in Nat
    BY <1>1, <1>2 DEF PipeTypeOK
  <2> QED BY <2>1 DEF b
<1>5. PipeTypeOK'
  BY <1>1, <1>3, <1>4, SMTT(30) DEF PipeTypeOK
<1>6. PLockInv'
  BY <1>1 DEF PLockInv
<1>7. DescInv'
  BY <1>1, <1>3 DEF DescInv
<1>8. CountInv'
  <2>1. pi'.nwrite = b % WRAP
    BY <1>2, <1>3, IncCount DEF CountInv
  <2>2. Len(sent) # Len(taken) + PIPESIZE
    BY <1>1, EmptyFull
  <2>3. taken' = taken /\ Len(taken) \in Nat
    BY <1>1 DEF PipeTypeOK
  <2> QED BY <1>2, <1>3, <1>4, <2>1, <2>2, <2>3, SMTT(30) DEF CountInv
<1>9. BytesInv'
  <2>1. \A i \in 1..Len(taken) : taken'[i] = sent'[i]
    BY <1>1, <1>4 DEF BytesInv, CountInv, PipeTypeOK
  <2>2. ASSUME NEW i \in (Len(taken) + 1)..b PROVE pi'.data[(i - 1) % PIPESIZE] = sent'[i]
    <3>1. CASE i = b
      BY <1>2, <1>3, <1>4, <3>1 DEF PipeTypeOK
    <3>2. CASE i # b
      <4>1. i \in Int /\ i - 1 \in Nat /\ i \in (Len(taken) + 1)..Len(sent) /\ i \in 1..Len(sent)
        <5>1. Len(taken) \in Nat
          BY DEF PipeTypeOK
        <5> QED BY <1>2, <3>2, <5>1
      <4>2. Len(sent) - (i - 1) \in 1..(PIPESIZE - 1)
        <5>1. Len(taken) \in Nat /\ Len(sent) # Len(taken) + PIPESIZE /\ Len(sent) <= Len(taken) + PIPESIZE
          BY <1>1, EmptyFull
        <5> QED BY <1>2, <4>1, <5>1
      <4>3. (i - 1) % PIPESIZE # Len(sent) % PIPESIZE
        <5>1. i - 1 \in Int /\ Len(sent) \in Int /\ PIPESIZE \in Nat \ {0}
          BY <1>2, <4>1
        <5> QED BY <4>2, <5>1, ModNeq, Zenon
      <4>4. (i - 1) % PIPESIZE \in 0..(PIPESIZE - 1)
        BY <4>1, Slot
      <4>5. pi'.data[(i - 1) % PIPESIZE] = pi.data[(i - 1) % PIPESIZE]
        BY <1>2, <1>3, <4>3, <4>4 DEF PipeTypeOK
      <4> QED BY <1>4, <4>1, <4>5 DEF BytesInv
    <3> QED BY <3>1, <3>2
  <2> QED BY <1>1, <1>4, <2>1, <2>2 DEF BytesInv
<1>10. SleepInv'
  <2>1. \A q \in PProc : ppc[q] \notin {"rdoze", "wdoze", "rcopy"}
    BY <1>1 DEF PLockInv, LockPcs
  <2> QED BY <1>1, <1>3, <2>1 DEF SleepInv
<1> QED BY <1>5, <1>6, <1>7, <1>8, <1>9, <1>10 DEF PipeInv

\* No reader is left, or the writer is killed.
LEMMA WriteFailsPreserves ==
    ASSUME PipeInv, NEW p \in PProc, WriteFails(p)
    PROVE  PipeInv'
<1> USE PipeAssumption DEF PipeAssumption, PipeInv, PipeTypeOK, End, NoHolder, WriteFails, Go
<1>1. PipeTypeOK'
  BY DEF PPcs
<1>2. PLockInv'
  BY DEF PLockInv, LockPcs
<1>3. DescInv'
  <2>1. \A y \in PProc : /\ ppc'[y] \in ReadPcs => ppc[y] \in ReadPcs \/ "r" \in fds[y]
                         /\ ppc'[y] \in WritePcs => ppc[y] \in WritePcs \/ "w" \in fds[y]
                         /\ ppc'[y] = "cr" <=> ppc[y] = "cr"
                         /\ ppc'[y] = "cw" <=> ppc[y] = "cw"
    BY DEF ReadPcs, WritePcs
  <2>2. \A y \in PProc : /\ ppc'[y] \in ReadPcs => "r" \in fds[y]
                         /\ ppc'[y] \in WritePcs => "w" \in fds[y]
    BY <2>1 DEF DescInv
  <2> QED BY <2>1, <2>2, DescFrame
<1>4. SleepInv'
  BY DEF SleepInv, Empty, Full, PLockInv, LockPcs, DescInv, ReadPcs, WritePcs
<1>5. CountInv' /\ BytesInv'
  BY DataFrame
<1> QED BY <1>1, <1>2, <1>3, <1>4, <1>5 DEF PipeInv

\* pipewrite() returns.
LEMMA WriteReturnsPreserves ==
    ASSUME PipeInv, NEW p \in PProc, WriteReturns(p)
    PROVE  PipeInv'
<1> USE PipeAssumption DEF PipeAssumption, PipeInv, PipeTypeOK, End, NoHolder, WriteReturns,
        wakeup, WakeReaders, Go
<1>1. PipeTypeOK'
  BY DEF PPcs
<1>2. PLockInv'
  BY DEF PLockInv, LockPcs
<1>3. DescInv'
  <2>1. \A y \in PProc : /\ ppc'[y] \in ReadPcs => ppc[y] \in ReadPcs \/ "r" \in fds[y]
                         /\ ppc'[y] \in WritePcs => ppc[y] \in WritePcs \/ "w" \in fds[y]
                         /\ ppc'[y] = "cr" <=> ppc[y] = "cr"
                         /\ ppc'[y] = "cw" <=> ppc[y] = "cw"
    BY DEF ReadPcs, WritePcs
  <2>2. \A y \in PProc : /\ ppc'[y] \in ReadPcs => "r" \in fds[y]
                         /\ ppc'[y] \in WritePcs => "w" \in fds[y]
    BY <2>1 DEF DescInv
  <2> QED BY <2>1, <2>2, DescFrame
<1>4. SleepInv'
  BY DEF SleepInv, Empty, Full
<1>5. CountInv' /\ BytesInv'
  BY DataFrame
<1> QED BY <1>1, <1>2, <1>3, <1>4, <1>5 DEF PipeInv

\* acquire() in piperead().
LEMMA ReadLockPreserves ==
    ASSUME PipeInv, NEW p \in PProc, ReadLock(p)
    PROVE  PipeInv'
<1> USE PipeAssumption DEF PipeAssumption, PipeInv, PipeTypeOK, End, NoHolder, ReadLock, Lock, Go
<1>1. PipeTypeOK'
  BY DEF PPcs
<1>2. PLockInv'
  BY DEF PLockInv, LockPcs
<1>3. DescInv'
  <2>1. \A y \in PProc : /\ ppc'[y] \in ReadPcs => ppc[y] \in ReadPcs \/ "r" \in fds[y]
                         /\ ppc'[y] \in WritePcs => ppc[y] \in WritePcs \/ "w" \in fds[y]
                         /\ ppc'[y] = "cr" <=> ppc[y] = "cr"
                         /\ ppc'[y] = "cw" <=> ppc[y] = "cw"
    BY DEF ReadPcs, WritePcs
  <2>2. \A y \in PProc : /\ ppc'[y] \in ReadPcs => "r" \in fds[y]
                         /\ ppc'[y] \in WritePcs => "w" \in fds[y]
    BY <2>1 DEF DescInv
  <2> QED BY <2>1, <2>2, DescFrame
<1>4. SleepInv'
  BY DEF SleepInv, Empty, Full
<1>5. CountInv' /\ BytesInv'
  BY DataFrame
<1> QED BY <1>1, <1>2, <1>3, <1>4, <1>5 DEF PipeInv

\* The pipe is empty and a writer is left.
LEMMA ReadEmptyPreserves ==
    ASSUME PipeInv, NEW p \in PProc, ReadEmpty(p)
    PROVE  PipeInv'
<1> USE PipeAssumption DEF PipeAssumption, PipeInv, PipeTypeOK, End, NoHolder, ReadEmpty, Go
<1>1. \/ ppc' = [ppc EXCEPT ![p] = "idle"] /\ plock' = NoHolder /\ left' = [left EXCEPT ![p] = 0]
      \/ ppc' = [ppc EXCEPT ![p] = "rdoze"] /\ UNCHANGED <<plock, left>>
  OBVIOUS
<1>2. PipeTypeOK'
  <2>1. ppc' \in [PProc -> PPcs]
    BY <1>1 DEF PPcs
  <2> QED BY <1>1, <2>1, SMTT(30)
<1>3. PLockInv'
  BY <1>1 DEF PLockInv, LockPcs
<1>4. DescInv'
  <2>1. \A y \in PProc : /\ ppc'[y] \in ReadPcs => ppc[y] \in ReadPcs \/ "r" \in fds[y]
                         /\ ppc'[y] \in WritePcs => ppc[y] \in WritePcs \/ "w" \in fds[y]
                         /\ ppc'[y] = "cr" <=> ppc[y] = "cr"
                         /\ ppc'[y] = "cw" <=> ppc[y] = "cw"
    BY DEF ReadPcs, WritePcs
  <2>2. \A y \in PProc : /\ ppc'[y] \in ReadPcs => "r" \in fds[y]
                         /\ ppc'[y] \in WritePcs => "w" \in fds[y]
    BY <2>1 DEF DescInv
  <2> QED BY <2>1, <2>2, DescFrame
<1>5. SleepInv'
  BY SMTT(30) DEF SleepInv, Empty, Full
<1>6. CountInv' /\ BytesInv'
  BY DataFrame
<1> QED BY <1>2, <1>3, <1>4, <1>5, <1>6 DEF PipeInv

\* sleep() in piperead().
LEMMA ReadSleepPreserves ==
    ASSUME PipeInv, NEW p \in PProc, ReadSleep(p)
    PROVE  PipeInv'
<1> USE PipeAssumption DEF PipeAssumption, PipeInv, PipeTypeOK, End, NoHolder, ReadSleep, Go
<1>1. PipeTypeOK'
  BY DEF PPcs
<1>2. PLockInv'
  BY DEF PLockInv, LockPcs
<1>3. DescInv'
  <2>1. \A y \in PProc : /\ ppc'[y] \in ReadPcs => ppc[y] \in ReadPcs \/ "r" \in fds[y]
                         /\ ppc'[y] \in WritePcs => ppc[y] \in WritePcs \/ "w" \in fds[y]
                         /\ ppc'[y] = "cr" <=> ppc[y] = "cr"
                         /\ ppc'[y] = "cw" <=> ppc[y] = "cw"
    BY DEF ReadPcs, WritePcs
  <2>2. \A y \in PProc : /\ ppc'[y] \in ReadPcs => "r" \in fds[y]
                         /\ ppc'[y] \in WritePcs => "w" \in fds[y]
    BY <2>1 DEF DescInv
  <2> QED BY <2>1, <2>2, DescFrame
<1>4. SleepInv'
  BY DEF SleepInv, Empty, Full
<1>5. CountInv' /\ BytesInv'
  BY DataFrame
<1> QED BY <1>1, <1>2, <1>3, <1>4, <1>5 DEF PipeInv

\* There is something to read, or no writer.
LEMMA ReadReadyPreserves ==
    ASSUME PipeInv, NEW p \in PProc, ReadReady(p)
    PROVE  PipeInv'
<1> USE PipeAssumption DEF PipeAssumption, PipeInv, PipeTypeOK, End, NoHolder, ReadReady, Go
<1>1. PipeTypeOK'
  BY DEF PPcs
<1>2. PLockInv'
  BY DEF PLockInv, LockPcs
<1>3. DescInv'
  <2>1. \A y \in PProc : /\ ppc'[y] \in ReadPcs => ppc[y] \in ReadPcs \/ "r" \in fds[y]
                         /\ ppc'[y] \in WritePcs => ppc[y] \in WritePcs \/ "w" \in fds[y]
                         /\ ppc'[y] = "cr" <=> ppc[y] = "cr"
                         /\ ppc'[y] = "cw" <=> ppc[y] = "cw"
    BY DEF ReadPcs, WritePcs
  <2>2. \A y \in PProc : /\ ppc'[y] \in ReadPcs => "r" \in fds[y]
                         /\ ppc'[y] \in WritePcs => "w" \in fds[y]
    BY <2>1 DEF DescInv
  <2> QED BY <2>1, <2>2, DescFrame
<1>4. SleepInv'
  BY DEF SleepInv, Empty, Full
<1>5. CountInv' /\ BytesInv'
  BY DataFrame
<1> QED BY <1>1, <1>2, <1>3, <1>4, <1>5 DEF PipeInv

\* A byte goes out.
LEMMA ReadBytePreserves ==
    ASSUME PipeInv, NEW p \in PProc, NEW bad \in BOOLEAN, ReadByte(p, bad)
    PROVE  PipeInv'
<1> USE PipeAssumption DEF PipeAssumption, PipeInv
<1> DEFINE x == Len(taken)
           b == pi.data[pi.nread % PIPESIZE]
<1>1. /\ ppc[p] = "rcopy" /\ left[p] > 0 /\ ~Empty
      /\ pi' = [pi EXCEPT !.nread = Inc(@)] /\ taken' = Append(taken, b)
      /\ UNCHANGED <<fref, fds, pkilled, cut, sent>>
  BY DEF ReadByte
<1>2. \/ ppc' = WakeWriters(Go(p, "idle")) /\ plock' = NoHolder /\ left' = [left EXCEPT ![p] = 0]
      \/ left' = [left EXCEPT ![p] = @ - 1] /\ UNCHANGED <<ppc, plock>>
  BY DEF ReadByte
<1>3. x \in Nat /\ x < Len(sent) /\ pi.nread % PIPESIZE = x % PIPESIZE /\ x % PIPESIZE \in 0..(PIPESIZE - 1)
  <2>1. x \in Nat /\ pi.nread = x % WRAP
    BY DEF PipeTypeOK, CountInv
  <2>2. (x % WRAP) % PIPESIZE = x % PIPESIZE /\ x % PIPESIZE \in 0..(PIPESIZE - 1)
    BY <2>1, Slot, Zenon
  <2>3. x < Len(sent)
    BY <1>1, EmptyFull
  <2> QED BY <2>1, <2>2, <2>3
<1>4. b = sent[x + 1] /\ b \in Nat
  <2>1. x + 1 \in (Len(taken) + 1)..Len(sent) /\ (x + 1) - 1 = x
    BY <1>3 DEF PipeTypeOK
  <2> QED BY <1>3, <2>1 DEF BytesInv, PipeTypeOK
<1>5. /\ pi' \in [nread : Counter, nwrite : Counter, data : [0..(PIPESIZE - 1) -> Nat],
                  readopen : BOOLEAN, writeopen : BOOLEAN, alloc : BOOLEAN]
      /\ pi'.nread = Inc(pi.nread) /\ pi'.nwrite = pi.nwrite /\ pi'.data = pi.data
      /\ pi'.readopen = pi.readopen /\ pi'.writeopen = pi.writeopen /\ pi'.alloc = pi.alloc
  <2>1. Inc(pi.nread) \in Counter
    BY <1>3, IncCount DEF CountInv
  <2> QED BY <1>1, <2>1 DEF PipeTypeOK
<1>6. taken' \in Seq(Nat) /\ Len(taken') = x + 1 /\ taken'[x + 1] = b /\ \A i \in 1..x : taken'[i] = taken[i]
  <2> HIDE DEF b
  <2>1. taken' = Append(taken, b) /\ taken \in Seq(Nat) /\ b \in Nat
    BY <1>1, <1>4 DEF PipeTypeOK
  <2> QED BY <2>1
<1>7. /\ ppc' \in [PProc -> PPcs] /\ plock' \in PProc \cup {NoHolder} /\ left' \in [PProc -> Nat]
      /\ \A q \in PProc \ {p} : ppc'[q] = ppc[q] \/ (ppc[q] = "wsleep" /\ ppc'[q] = "wlock")
      /\ \/ ppc'[p] = "idle" /\ plock' = NoHolder /\ \A q \in PProc : ppc'[q] # "wsleep"
         \/ ppc' = ppc /\ plock' = plock
  <2>1. CASE ppc' = WakeWriters(Go(p, "idle")) /\ plock' = NoHolder /\ left' = [left EXCEPT ![p] = 0]
    BY <2>1 DEF PipeTypeOK, PPcs, WakeWriters, wakeup, Go
  <2>2. CASE left' = [left EXCEPT ![p] = @ - 1] /\ UNCHANGED <<ppc, plock>>
    BY <1>1, <2>2 DEF PipeTypeOK
  <2> QED BY <1>2, <2>1, <2>2
<1>8. PipeTypeOK'
  BY <1>1, <1>5, <1>6, <1>7 DEF PipeTypeOK
<1>9. PLockInv'
  BY <1>1, <1>7 DEF PLockInv, LockPcs, NoHolder, PipeTypeOK
<1>10. DescInv'
  <2>1. \A q \in PProc : /\ ppc'[q] \in ReadPcs => ppc[q] \in ReadPcs
                         /\ ppc'[q] \in WritePcs => ppc[q] \in WritePcs
                         /\ ppc'[q] = "cr" <=> ppc[q] = "cr"
                         /\ ppc'[q] = "cw" <=> ppc[q] = "cw"
    BY <1>1, <1>7 DEF ReadPcs, WritePcs
  <2>2. \A q \in PProc : /\ ppc'[q] \in ReadPcs => "r" \in fds[q]
                         /\ ppc'[q] \in WritePcs => "w" \in fds[q]
    BY <2>1 DEF DescInv
  <2> QED BY <1>1, <1>5, <2>1, <2>2, DescFrame
<1>11. CountInv'
  <2>1. pi'.nread = (x + 1) % WRAP
    BY <1>3, <1>5, IncCount DEF CountInv
  <2>2. Len(sent) \in Nat /\ Len(sent) <= x + PIPESIZE /\ sent' = sent
    BY <1>1 DEF CountInv, PipeTypeOK
  <2>3. x + 1 <= Len(sent) /\ Len(sent) <= (x + 1) + PIPESIZE
    BY <1>3, <2>2
  <2>4. Len(taken') = x + 1 /\ pi'.nwrite = Len(sent) % WRAP
    BY <1>5, <1>6 DEF CountInv
  <2> HIDE DEF x
  <2> QED BY <2>1, <2>2, <2>3, <2>4 DEF CountInv
<1>12. BytesInv'
  <2>1. \A i \in 1..(x + 1) : taken'[i] = sent[i]
    BY <1>3, <1>4, <1>6, SMTT(30) DEF BytesInv
  <2>2. \A i \in (x + 2)..Len(sent) : pi.data[(i - 1) % PIPESIZE] = sent[i]
    <3>1. \A i \in (x + 2)..Len(sent) : i \in (Len(taken) + 1)..Len(sent)
      BY <1>3 DEF PipeTypeOK
    <3> QED BY <3>1 DEF BytesInv
  <2>3. (x + 1) + 1 = x + 2
    BY <1>3
  <2> QED BY <1>1, <1>5, <1>6, <2>1, <2>2, <2>3 DEF BytesInv
<1>13. SleepInv'
  <2>1. \A q \in PProc : ppc[q] \notin {"rdoze", "wdoze", "wloop"}
    BY <1>1 DEF PLockInv, LockPcs
  <2> QED BY <1>1, <1>5, <1>7, <2>1 DEF SleepInv
<1> QED BY <1>8, <1>9, <1>10, <1>11, <1>12, <1>13 DEF PipeInv

\* piperead() returns.
LEMMA ReadReturnsPreserves ==
    ASSUME PipeInv, NEW p \in PProc, ReadReturns(p)
    PROVE  PipeInv'
<1> USE PipeAssumption DEF PipeAssumption, PipeInv, PipeTypeOK, End, NoHolder, ReadReturns,
        wakeup, WakeWriters, Go
<1>1. PipeTypeOK'
  BY DEF PPcs
<1>2. PLockInv'
  BY DEF PLockInv, LockPcs
<1>3. DescInv'
  <2>1. \A y \in PProc : /\ ppc'[y] \in ReadPcs => ppc[y] \in ReadPcs \/ "r" \in fds[y]
                         /\ ppc'[y] \in WritePcs => ppc[y] \in WritePcs \/ "w" \in fds[y]
                         /\ ppc'[y] = "cr" <=> ppc[y] = "cr"
                         /\ ppc'[y] = "cw" <=> ppc[y] = "cw"
    BY DEF ReadPcs, WritePcs
  <2>2. \A y \in PProc : /\ ppc'[y] \in ReadPcs => "r" \in fds[y]
                         /\ ppc'[y] \in WritePcs => "w" \in fds[y]
    BY <2>1 DEF DescInv
  <2> QED BY <2>1, <2>2, DescFrame
<1>4. SleepInv'
  BY DEF SleepInv, Empty, Full
<1>5. CountInv' /\ BytesInv'
  BY DataFrame
<1> QED BY <1>1, <1>2, <1>3, <1>4, <1>5 DEF PipeInv

\* A descriptor is closed.
LEMMA FileClosePreserves ==
    ASSUME PipeInv, NEW p \in PProc, NEW side \in End, FileClose(p, side)
    PROVE  PipeInv'
<1> USE PipeAssumption DEF PipeAssumption, PipeInv, PipeTypeOK, End, NoHolder, FileClose, Go
<1> DEFINE H == {y \in PProc : side \in fds[y]}
<1>1. /\ IsFiniteSet(H) /\ p \in H /\ fref[side] = Cardinality(H) /\ fref[side] \in Nat /\ fref[side] >= 1
      /\ IsFiniteSet(H \ {p}) /\ Cardinality(H \ {p}) = fref[side] - 1
  <2>1. IsFiniteSet(H) /\ p \in H
    BY FS_Subset DEF FileClose
  <2>2. fref[side] = Cardinality(H)
    BY DEF DescInv, Holders
  <2>3. IsFiniteSet(H \ {p}) /\ Cardinality(H \ {p}) = Cardinality(H) - 1
    BY <2>1, FS_RemoveElement
  <2>4. Cardinality(H \ {p}) \in Nat
    BY <2>3, FS_CardinalityType
  <2> QED BY <2>1, <2>2, <2>3, <2>4
<1>2. fref[side] > 1 <=> \E y \in PProc \ {p} : side \in fds[y]
  <2>1. Cardinality(H \ {p}) = 0 <=> H \ {p} = {}
    BY <1>1, FS_EmptySet
  <2>2. fref[side] \in Nat /\ (fref[side] > 1 <=> fref[side] - 1 # 0)
    BY <1>1
  <2>3. fref[side] > 1 <=> H \ {p} # {}
    BY <1>1, <2>1, <2>2, Zenon
  <2>4. H \ {p} # {} <=> \E y \in PProc \ {p} : side \in fds[y]
    BY Zenon
  <2> QED BY <2>3, <2>4
<1>3. \A d \in End : fref'[d] = Holders(fds', d)
  <2>1. {y \in PProc : side \in fds'[y]} = H \ {p}
    OBVIOUS
  <2>2. \A d \in End \ {side} : {y \in PProc : d \in fds'[y]} = {y \in PProc : d \in fds[y]}
    OBVIOUS
  <2>3. fref'[side] = Holders(fds', side)
    BY <1>1, <2>1 DEF Holders
  <2>4. \A d \in End \ {side} : fref'[d] = Holders(fds', d)
    <3> TAKE d \in End \ {side}
    <3>1. fref'[d] = fref[d]
      OBVIOUS
    <3>2. fref[d] = Holders(fds, d)
      BY DEF DescInv
    <3> QED BY <2>2, <3>1, <3>2 DEF Holders
  <2> QED BY <2>3, <2>4
<1>4. PipeTypeOK'
  <2>1. ppc' \in [PProc -> PPcs]
    BY DEF PPcs
  <2>2. fref' \in [End -> Nat] /\ fds' \in [PProc -> SUBSET End]
    BY <1>1
  <2> QED BY <2>1, <2>2
<1>5. PLockInv'
  BY DEF PLockInv, LockPcs
<1>6. DescInv'
  <2> HIDE DEF FileClose, Go, PipeTypeOK, PipeInv, PipeAssumption, End
  <2>1. PipeTypeOK /\ DescInv
    BY DEF PipeInv
  <2> QED BY <1>2, <1>3, <2>1, CloseDesc
<1>7. SleepInv'
  BY DEF SleepInv, Empty, Full
<1>8. CountInv' /\ BytesInv'
  BY DataFrame
<1> QED BY <1>4, <1>5, <1>6, <1>7, <1>8 DEF PipeInv

\* An end is closed: those who wait at the other one are woken.
LEMMA pipeclosePreserves ==
    ASSUME PipeInv, NEW p \in PProc, pipeclose(p)
    PROVE  PipeInv'
<1> USE PipeAssumption DEF PipeAssumption, PipeInv, PipeTypeOK, End, NoHolder, pipeclose, wakeup,
        WakeReaders, WakeWriters, Go
<1>1. PipeTypeOK'
  BY DEF PPcs
<1>2. PLockInv'
  BY DEF PLockInv, LockPcs
<1>3. DescInv'
  BY SMTT(30) DEF DescInv, ReadPcs, WritePcs
<1>4. SleepInv'
  BY DEF SleepInv, Empty, Full, PLockInv, LockPcs, DescInv, ReadPcs, WritePcs
<1>5. CountInv' /\ BytesInv'
  BY DEF CountInv, BytesInv
<1> QED BY <1>1, <1>2, <1>3, <1>4, <1>5 DEF PipeInv

\* kill().
LEMMA PipeKillPreserves ==
    ASSUME PipeInv, NEW p \in PProc, NEW q \in PProc, PipeKill(p, q)
    PROVE  PipeInv'
<1> USE PipeAssumption DEF PipeAssumption, PipeInv, PipeTypeOK, End, NoHolder, PipeKill, Go
<1>1. PipeTypeOK'
  BY DEF PPcs
<1>2. PLockInv'
  BY DEF PLockInv, LockPcs
<1>3. DescInv'
  <2>1. \A y \in PProc : /\ ppc'[y] \in ReadPcs => ppc[y] \in ReadPcs \/ "r" \in fds[y]
                         /\ ppc'[y] \in WritePcs => ppc[y] \in WritePcs \/ "w" \in fds[y]
                         /\ ppc'[y] = "cr" <=> ppc[y] = "cr"
                         /\ ppc'[y] = "cw" <=> ppc[y] = "cw"
    BY DEF ReadPcs, WritePcs
  <2>2. \A y \in PProc : /\ ppc'[y] \in ReadPcs => "r" \in fds[y]
                         /\ ppc'[y] \in WritePcs => "w" \in fds[y]
    BY <2>1 DEF DescInv
  <2> QED BY <2>1, <2>2, DescFrame
<1>4. SleepInv'
  BY DEF SleepInv, Empty, Full
<1>5. CountInv' /\ BytesInv'
  BY DataFrame
<1> QED BY <1>1, <1>2, <1>3, <1>4, <1>5 DEF PipeInv

-----------------------------------------------------------------------------
(* The theorems about the pipe. *)

\* The fresh pipe, shared in one of the given ways.
LEMMA PipeInitInv == PipeInit => PipeInv
<1> SUFFICES ASSUME PipeInit PROVE PipeInv
  OBVIOUS
<1> USE PipeAssumption DEF PipeAssumption, PipeInit, NoHolder
<1>1. fds \in [PProc -> SUBSET End] /\ \A side \in End : \E p \in PProc : side \in fds[p]
  BY DEF End
<1>2. \A side \in End : fref[side] = Holders(fds, side) /\ fref[side] \in Nat
  <2>1. \A side \in End : IsFiniteSet({p \in PProc : side \in fds[p]})
    BY FS_Subset
  <2> QED BY <2>1, FS_CardinalityType DEF Holders
<1>3. Len(<<>>) = 0 /\ <<>> \in Seq(Nat)
  OBVIOUS
<1>4. WRAP \in Nat \ {0} /\ 0 \in 0..(WRAP - 1) /\ 0 % WRAP = 0
  <2>1. WRAP \in Nat \ {0} /\ 0 \in 0..(WRAP - 1)
    OBVIOUS
  <2> QED BY <2>1, ModSmall, Zenon
<1>5. PipeTypeOK
  <2>1. fref \in [End -> Nat]
    BY <1>2
  <2>2. ppc \in [PProc -> PPcs]
    BY DEF PPcs
  <2>3. pi \in [nread : Counter, nwrite : Counter, data : [0..(PIPESIZE - 1) -> Nat],
               readopen : BOOLEAN, writeopen : BOOLEAN, alloc : BOOLEAN]
    BY <1>4 DEF Counter
  <2> QED BY <1>1, <1>3, <2>1, <2>2, <2>3 DEF PipeTypeOK
<1>6. PLockInv
  BY DEF PLockInv, LockPcs
<1>7. DescInv
  BY <1>1, <1>2 DEF DescInv, ReadPcs, WritePcs, End
<1>8. SleepInv
  BY DEF SleepInv
<1>9. CountInv
  BY <1>3, <1>4 DEF CountInv
<1>10. BytesInv
  BY <1>3 DEF BytesInv
<1> QED BY <1>5, <1>6, <1>7, <1>8, <1>9, <1>10 DEF PipeInv

\* One case for each action.
LEMMA PipeNextInv == PipeInv /\ [PipeNext]_pvars => PipeInv'
<1> SUFFICES ASSUME PipeInv, [PipeNext]_pvars PROVE PipeInv'
  OBVIOUS
<1>1. CASE UNCHANGED pvars
  <2>1. PipeTypeOK' /\ PLockInv' /\ SleepInv'
    BY <1>1 DEF pvars, PipeInv, PipeTypeOK, PLockInv, SleepInv, Empty, Full
  <2>2. DescInv'
    BY <1>1 DEF pvars, PipeInv, DescInv
  <2>3. CountInv' /\ BytesInv'
    BY <1>1, DataFrame DEF pvars, PipeInv
  <2> QED BY <2>1, <2>2, <2>3 DEF PipeInv
<1>2. CASE PipeDone
  BY <1>1, <1>2 DEF PipeDone
<1>3. CASE \E p \in PProc : \/ WriteLock(p) \/ WriteFull(p) \/ WriteSleep(p) \/ WriteByte(p)
                            \/ WriteFails(p) \/ WriteReturns(p)
  BY <1>3, WriteLockPreserves, WriteFullPreserves, WriteSleepPreserves, WriteBytePreserves,
     WriteFailsPreserves, WriteReturnsPreserves
<1>4. CASE \E p \in PProc : \/ ReadLock(p) \/ ReadEmpty(p) \/ ReadSleep(p) \/ ReadReady(p)
                            \/ ReadReturns(p) \/ pipeclose(p)
  BY <1>4, ReadLockPreserves, ReadEmptyPreserves, ReadSleepPreserves, ReadReadyPreserves,
     ReadReturnsPreserves, pipeclosePreserves
<1>5. CASE \E p \in PProc : \E num \in {1, PIPESIZE + 1} : StartWrite(p, num) \/ StartRead(p, num)
  <2>1. {1, PIPESIZE + 1} \subseteq Nat
    BY PipeAssumption DEF PipeAssumption
  <2> QED BY <1>5, <2>1, StartWritePreserves, StartReadPreserves
<1>6. CASE \E p \in PProc : \E bad \in BOOLEAN : ReadByte(p, bad)
  BY <1>6, ReadBytePreserves
<1>7. CASE \E p \in PProc : \E side \in End : FileClose(p, side)
  BY <1>7, FileClosePreserves
<1>8. CASE \E p \in PProc : \E q \in PProc : PipeKill(p, q)
  BY <1>8, PipeKillPreserves
<1> QED BY <1>1, <1>2, <1>3, <1>4, <1>5, <1>6, <1>7, <1>8 DEF PipeNext

\* The invariant of kernel/pipe.c: the lock is held by whoever is inside, the ends
\* are open as long as they are in use, sleepers have a reason, and the counters
\* and the slots hold the bytes that are under way.
THEOREM PipeInvariant == PipeSpec => []PipeInv
BY PipeInitInv, PipeNextInv, PTL DEF PipeSpec

\* What the counters and the slots say is in the pipe is what is under way.
LEMMA PipeContents == PipeTypeOK /\ CountInv /\ BytesInv => taken \o InPipe = sent
<1> SUFFICES ASSUME PipeTypeOK, CountInv, BytesInv PROVE taken \o InPipe = sent
  OBVIOUS
<1>1. PICK t \in Nat : t = Len(taken)
  BY DEF PipeTypeOK
<1>2. PICK s \in Nat : s = Len(sent)
  BY DEF PipeTypeOK
<1>3. /\ WRAP \in Nat \ {0} /\ PIPESIZE \in Nat \ {0} /\ PIPESIZE <= WRAP - 1
      /\ WRAP % PIPESIZE = 0
  BY PipeAssumption DEF PipeAssumption
<1>4. t <= s /\ s <= t + PIPESIZE /\ pi.nread = t % WRAP /\ pi.nwrite = s % WRAP
  BY <1>1, <1>2 DEF CountInv
<1>5. (pi.nwrite - pi.nread) % WRAP = s - t
  <2>1. s - t \in 0..(WRAP - 1) /\ s \in Int /\ t \in Int
    BY <1>3, <1>4
  <2>2. ((s % WRAP) - (t % WRAP)) % WRAP = s - t
    BY <1>3, <2>1, ModDiff, Zenon
  <2> QED BY <1>4, <2>2
<1>6. \A k \in 1..(s - t) : pi.data[(pi.nread + k - 1) % PIPESIZE] = sent[t + k]
  <2> SUFFICES ASSUME NEW k \in 1..(s - t)
               PROVE  pi.data[(pi.nread + k - 1) % PIPESIZE] = sent[t + k]
    OBVIOUS
  <2>1. t \in Int /\ k - 1 \in Int /\ t % WRAP \in Int
    BY <1>3, DivMod
  <2>2. ((t % WRAP) + (k - 1)) % PIPESIZE = (t + (k - 1)) % PIPESIZE
    BY <1>3, <2>1, ModMod, ZenonT(40)
  <2>3. pi.nread + k - 1 = (t % WRAP) + (k - 1) /\ (t + k) - 1 = t + (k - 1)
    BY <1>4, <2>1
  <2>4. t + k \in (t + 1)..s
    BY <1>4
  <2>5. pi.data[((t + k) - 1) % PIPESIZE] = sent[t + k]
    BY <1>1, <1>2, <2>4 DEF BytesInv
  <2> QED BY <2>2, <2>3, <2>5
<1>7. InPipe = [k \in 1..(s - t) |-> sent[t + k]]
  BY <1>5, <1>6 DEF InPipe
<1>8. s - t \in Nat /\ \A k \in 1..(s - t) : sent[t + k] \in Nat
  <2>1. \A k \in 1..(s - t) : t + k \in 1..s
    BY <1>4
  <2> QED BY <1>2, <1>4, <2>1 DEF PipeTypeOK
<1>9. InPipe \in Seq(Nat) /\ Len(InPipe) = s - t
  BY <1>7, <1>8
<1>10. \A k \in 1..Len(InPipe) : sent[Len(taken) + k] = InPipe[k]
  BY <1>1, <1>7, <1>9
<1>11. Len(sent) = Len(taken) + Len(InPipe)
  BY <1>1, <1>2, <1>4, <1>9
<1>12. \A i \in 1..Len(taken) : sent[i] = taken[i]
  BY DEF BytesInv
<1>13. taken \in Seq(Nat) /\ sent \in Seq(Nat)
  BY DEF PipeTypeOK
<1> QED BY <1>9, <1>10, <1>11, <1>12, <1>13, SplitSequence, Zenon

\* Bytes leave the pipe in the order in which they came in, none lost and none
\* twice, whatever the counters do at WRAP, and the page is not freed while a
\* descriptor or a call can reach it.
THEOREM PipeIsFifo == PipeSpec => []PipeFifo
<1>1. PipeInv => PipeFifo
  <2> SUFFICES ASSUME PipeInv PROVE PipeFifo
    OBVIOUS
  <2>1. taken \o InPipe = sent
    BY PipeContents DEF PipeInv
  <2>2. ASSUME NEW p \in PProc, fds[p] # {} \/ ppc[p] # "idle" PROVE pi.alloc
    <3>1. fds[p] \subseteq End /\ ppc[p] \in PPcs
      BY DEF PipeInv, PipeTypeOK
    <3>2. "r" \in fds[p] \/ "w" \in fds[p] \/ ppc[p] \in {"cr", "cw"}
      BY <2>2, <3>1 DEF PipeInv, DescInv, End, PPcs, ReadPcs, WritePcs
    <3> QED BY <3>2 DEF PipeInv, DescInv
  <2> QED BY <2>1, <2>2 DEF PipeFifo
<1> QED BY <1>1, PipeInvariant, PTL

\* No wakeup is lost: with the lock free, a reader that sleeps finds nothing to
\* read and a writer that sleeps no room, except for the bytes of a writer that
\* was killed.
THEOREM PipeSleepersHaveReason == PipeSpec => []PipeSleepers
<1>1. PipeInv => PipeSleepers
  <2> SUFFICES ASSUME PipeInv, plock = NoHolder, NEW p \in PProc
               PROVE  /\ ppc[p] = "rsleep" => pi.writeopen /\ (Empty \/ cut)
                      /\ ppc[p] = "wsleep" => Full /\ pi.readopen
    BY DEF PipeSleepers
  <2>1. \A q \in PProc : ppc[q] \notin LockPcs
    BY PipeAssumption DEF PipeInv, PLockInv, NoHolder, PipeAssumption
  <2> QED BY <2>1 DEF PipeInv, SleepInv, LockPcs
<1> QED BY <1>1, PipeInvariant, PTL

-----------------------------------------------------------------------------
(* The console: the invariant, and what is in the buffer. *)

\* Characters with a line or typed: k are complete lines, l are being typed.
KeysHeld == (w - r) % IdxMod
KeysTyped == (e - w) % IdxMod

Cell == Keys \cup {NoKey}
BufType == buf \in [0..(INPUT_BUF_SIZE - 1) -> Cell] /\ rx \in Cell
RoomInv == KeysHeld + KeysTyped <= INPUT_BUF_SIZE

\* Nobody sleeps beside what he waits for.
WakeInv ==
    /\ \A p \in Readers : rpc[p] = "asleep" => r = w
    /\ \A p \in Writers : wpc[p] = "asleep" => tx = UART_TX_BUF_SIZE
    /\ tx > 0 => thr \/ irq \/ handler # "out"

ConsoleInv == ConsoleTypeOK /\ BufType /\ RoomInv /\ WakeInv

\* l characters of a buffer from the place of the i-th on.
Part(g, i, l) == [x \in 1..l |-> g[(i + x - 1) % INPUT_BUF_SIZE]]

LEMMA Sizes == /\ INPUT_BUF_SIZE \in Nat \ {0} /\ IdxMod \in Nat \ {0} /\ IdxMod % INPUT_BUF_SIZE = 0
               /\ INPUT_BUF_SIZE < IdxMod /\ IdxMod % IdxMod = 0 /\ UART_TX_BUF_SIZE \in Nat
<1>1. IdxMod \in Nat \ {0}
  BY ConsoleAssumption DEF ConsoleAssumption
<1>2. (IdxMod * 1 + 0) % IdxMod = 0
  BY <1>1, ModUnique
<1> QED BY <1>1, <1>2, ConsoleAssumption DEF ConsoleAssumption

\* An index counts on modulo IdxMod, and its place is that of the number it
\* stands for.
LEMMA Indices ==
    ASSUME NEW i \in Int, NEW d \in Int
    PROVE  /\ Add(i % IdxMod, d) = (i + d) % IdxMod
           /\ Add(i % IdxMod, d) % INPUT_BUF_SIZE = (i + d) % INPUT_BUF_SIZE
           /\ (i % IdxMod) % INPUT_BUF_SIZE = i % INPUT_BUF_SIZE
           /\ i % IdxMod \in 0..(IdxMod - 1)
<1>1. ((i % IdxMod) + d) % IdxMod = (i + d) % IdxMod
  BY Sizes, ModMod, Zenon
<1>2. \A j \in Int : (j % IdxMod) % INPUT_BUF_SIZE = j % INPUT_BUF_SIZE
  <2> SUFFICES ASSUME NEW j \in Int PROVE (j % IdxMod) % INPUT_BUF_SIZE = j % INPUT_BUF_SIZE
    OBVIOUS
  <2>1. ((j % IdxMod) + 0) % INPUT_BUF_SIZE = (j + 0) % INPUT_BUF_SIZE
    <3>1. 0 \in Int /\ INPUT_BUF_SIZE \in Nat \ {0} /\ IdxMod \in Nat \ {0} /\ IdxMod % INPUT_BUF_SIZE = 0
      BY Sizes
    <3> QED BY <3>1, ModMod, ZenonT(40)
  <2>2. (j % IdxMod) + 0 = j % IdxMod /\ j + 0 = j
    BY Sizes, DivMod
  <2> QED BY <2>1, <2>2
<1>3. i + d \in Int
  OBVIOUS
<1>4. i % IdxMod \in 0..(IdxMod - 1)
  BY Sizes, DivMod
<1> QED BY <1>1, <1>2, <1>3, <1>4 DEF Add

\* The indices, unwrapped.
LEMMA Unwrapped ==
    ASSUME NEW i \in 0..(IdxMod - 1), NEW j \in 0..(IdxMod - 1)
    PROVE  /\ (j - i) % IdxMod \in Nat /\ (i + ((j - i) % IdxMod)) % IdxMod = j
           /\ i % IdxMod = i /\ ((j - i) % IdxMod = 0 <=> i = j)
<1>1. i \in Int /\ j \in Int /\ j - i \in Int /\ IdxMod \in Nat \ {0}
  BY Sizes
<1>2. (j - i) % IdxMod \in 0..(IdxMod - 1)
  BY <1>1, DivMod
<1>3. (((j - i) % IdxMod) + i) % IdxMod = ((j - i) + i) % IdxMod
  BY <1>1, Sizes, ModMod, Zenon
<1>4. j % IdxMod = j /\ i % IdxMod = i /\ 0 % IdxMod = 0
  <2>1. 0 \in 0..(IdxMod - 1)
    BY Sizes
  <2> QED BY <2>1, <1>1, ModSmall, Zenon
<1>5. ((j - i) % IdxMod) + i = i + ((j - i) % IdxMod) /\ (j - i) + i = j
  BY <1>1, <1>2
<1>6. (i + ((j - i) % IdxMod)) % IdxMod = j
  BY <1>3, <1>4, <1>5
<1>7. ASSUME (j - i) % IdxMod = 0 PROVE i = j
  <2>1. i + 0 = i
    BY <1>1
  <2> QED BY <1>4, <1>6, <1>7, <2>1
<1>8. ASSUME i = j PROVE (j - i) % IdxMod = 0
  <2>1. j - i = 0
    BY <1>1, <1>8
  <2> QED BY <1>4, <2>1
<1> QED BY <1>2, <1>4, <1>6, <1>7, <1>8

\* How many characters lie between two indices.
LEMMA Apart ==
    ASSUME NEW i \in Int, NEW l \in 0..INPUT_BUF_SIZE
    PROVE  (((i + l) % IdxMod) - (i % IdxMod)) % IdxMod = l
<1>1. i + l \in Int /\ (i + l) - i \in 0..(IdxMod - 1) /\ (i + l) - i = l /\ IdxMod \in Nat \ {0}
  BY Sizes
<1> QED BY <1>1, ModDiff, Zenon

\* A slice of the buffer, and of the buffer after a step.
LEMMA SliceIs ==
    ASSUME NEW i \in Int, NEW l \in 0..INPUT_BUF_SIZE
    PROVE  /\ Slice(i % IdxMod, (i + l) % IdxMod) = Part(buf, i, l)
           /\ r' = i % IdxMod /\ w' = (i + l) % IdxMod => Slice(r, w)' = Part(buf', i, l)
           /\ w' = i % IdxMod /\ e' = (i + l) % IdxMod => Slice(w, e)' = Part(buf', i, l)
<1>1. (((i + l) % IdxMod) - (i % IdxMod)) % IdxMod = l
  BY Apart
<1>2. \A k \in 1..l : Add(i % IdxMod, k - 1) % INPUT_BUF_SIZE = (i + k - 1) % INPUT_BUF_SIZE
  <2> SUFFICES ASSUME NEW k \in 1..l
               PROVE  Add(i % IdxMod, k - 1) % INPUT_BUF_SIZE = (i + k - 1) % INPUT_BUF_SIZE
    OBVIOUS
  <2>1. k - 1 \in Int /\ i + (k - 1) = i + k - 1
    OBVIOUS
  <2> QED BY <2>1, Indices
<1> QED BY <1>1, <1>2 DEF Slice, Part

\* A part of the buffer is a sequence.
LEMMA PartSeq ==
    ASSUME NEW g \in [0..(INPUT_BUF_SIZE - 1) -> Cell], NEW i \in Int, NEW l \in Nat
    PROVE  /\ Part(g, i, l) \in Seq(Cell) /\ Len(Part(g, i, l)) = l
           /\ \A x \in 1..l : Part(g, i, l)[x] = g[(i + x - 1) % INPUT_BUF_SIZE]
<1>1. \A x \in 1..l : (i + x - 1) % INPUT_BUF_SIZE \in 0..(INPUT_BUF_SIZE - 1)
  <2> SUFFICES ASSUME NEW x \in 1..l PROVE (i + x - 1) % INPUT_BUF_SIZE \in 0..(INPUT_BUF_SIZE - 1)
    OBVIOUS
  <2>1. i + x - 1 \in Int
    OBVIOUS
  <2> QED BY <2>1, Sizes, DivMod
<1>2. \A x \in 1..l : g[(i + x - 1) % INPUT_BUF_SIZE] \in Cell
  BY <1>1
<1> QED BY <1>2 DEF Part

\* Taking the first away.
LEMMA PartTail ==
    ASSUME NEW g \in [0..(INPUT_BUF_SIZE - 1) -> Cell], NEW i \in Int, NEW l \in Nat \ {0}
    PROVE  Part(g, i + 1, l - 1) = Tail(Part(g, i, l)) /\ Part(g, i, l) # <<>>
<1>1. /\ Part(g, i, l) \in Seq(Cell) /\ Len(Part(g, i, l)) = l
      /\ \A x \in 1..l : Part(g, i, l)[x] = g[(i + x - 1) % INPUT_BUF_SIZE]
  <2>1. l \in Nat
    OBVIOUS
  <2> QED BY <2>1, PartSeq, Zenon
<1>2. /\ Part(g, i + 1, l - 1) \in Seq(Cell) /\ Len(Part(g, i + 1, l - 1)) = l - 1
      /\ \A x \in 1..(l - 1) : Part(g, i + 1, l - 1)[x] = g[((i + 1) + x - 1) % INPUT_BUF_SIZE]
  <2>1. i + 1 \in Int /\ l - 1 \in Nat
    OBVIOUS
  <2> QED BY <2>1, PartSeq, Zenon
<1>3. Part(g, i, l) # <<>>
  BY <1>1
<1>4. /\ Tail(Part(g, i, l)) \in Seq(Cell) /\ Len(Tail(Part(g, i, l))) = l - 1
      /\ \A x \in 1..(l - 1) : Tail(Part(g, i, l))[x] = Part(g, i, l)[x + 1]
  BY <1>1, <1>3, HeadTailProperties
<1>5. \A x \in 1..(l - 1) : Tail(Part(g, i, l))[x] = Part(g, i + 1, l - 1)[x]
  <2> SUFFICES ASSUME NEW x \in 1..(l - 1) PROVE Tail(Part(g, i, l))[x] = Part(g, i + 1, l - 1)[x]
    OBVIOUS
  <2>1. x + 1 \in 1..l /\ i + (x + 1) - 1 = (i + 1) + x - 1
    OBVIOUS
  <2> QED BY <1>1, <1>2, <1>4, <2>1
<1> QED BY <1>2, <1>3, <1>4, <1>5, SeqEqual

\* Taking the last away.
LEMMA PartFront ==
    ASSUME NEW g \in [0..(INPUT_BUF_SIZE - 1) -> Cell], NEW i \in Int, NEW l \in Nat \ {0}
    PROVE  Part(g, i, l - 1) = SubSeq(Part(g, i, l), 1, l - 1)
<1>1. /\ Part(g, i, l) \in Seq(Cell) /\ Len(Part(g, i, l)) = l
      /\ \A x \in 1..l : Part(g, i, l)[x] = g[(i + x - 1) % INPUT_BUF_SIZE]
  <2>1. l \in Nat
    OBVIOUS
  <2> QED BY <2>1, PartSeq, Zenon
<1>2. /\ Part(g, i, l - 1) \in Seq(Cell) /\ Len(Part(g, i, l - 1)) = l - 1
      /\ \A x \in 1..(l - 1) : Part(g, i, l - 1)[x] = g[(i + x - 1) % INPUT_BUF_SIZE]
  <2>1. l - 1 \in Nat
    OBVIOUS
  <2> QED BY <2>1, PartSeq, Zenon
<1>3. \A x \in 1..(l - 1) : Part(g, i, l)[x] \in Cell
  BY <1>1
<1>4. /\ SubSeq(Part(g, i, l), 1, l - 1) \in Seq(Cell) /\ Len(SubSeq(Part(g, i, l), 1, l - 1)) = l - 1
      /\ \A x \in 1..(l - 1) : SubSeq(Part(g, i, l), 1, l - 1)[x] = Part(g, i, l)[x]
  <2> DEFINE s == Part(g, i, l)
  <2> HIDE DEF s
  <2>1. s \in Seq(Cell) /\ Len(s) = l
    BY <1>1 DEF s
  <2> QED BY <2>1 DEF s
<1>5. \A x \in 1..(l - 1) : SubSeq(Part(g, i, l), 1, l - 1)[x] = Part(g, i, l - 1)[x]
  BY <1>1, <1>2, <1>4
<1> QED BY <1>2, <1>4, <1>5, SeqEqual

\* A character stored at the place after k others does not touch them.
LEMMA PartKeep ==
    ASSUME NEW g \in [0..(INPUT_BUF_SIZE - 1) -> Cell], NEW i \in Int, NEW k \in 0..(INPUT_BUF_SIZE - 1),
           NEW l \in 0..k, NEW c \in Cell
    PROVE  Part([g EXCEPT ![(i + k) % INPUT_BUF_SIZE] = c], i, l) = Part(g, i, l)
<1>1. \A x \in 1..l : (i + x - 1) % INPUT_BUF_SIZE # (i + k) % INPUT_BUF_SIZE
  <2> SUFFICES ASSUME NEW x \in 1..l PROVE (i + x - 1) % INPUT_BUF_SIZE # (i + k) % INPUT_BUF_SIZE
    OBVIOUS
  <2>1. (i + k) - (i + x - 1) \in 1..(INPUT_BUF_SIZE - 1) /\ i + k \in Int /\ i + x - 1 \in Int
    BY Sizes
  <2> QED BY <2>1, Sizes, ModNeq, Zenon
<1>2. \A x \in 1..l : (i + x - 1) % INPUT_BUF_SIZE \in 0..(INPUT_BUF_SIZE - 1)
  <2> SUFFICES ASSUME NEW x \in 1..l PROVE (i + x - 1) % INPUT_BUF_SIZE \in 0..(INPUT_BUF_SIZE - 1)
    OBVIOUS
  <2>1. i + x - 1 \in Int
    OBVIOUS
  <2> QED BY <2>1, Sizes, DivMod
<1>3. \A j \in 0..(INPUT_BUF_SIZE - 1) :
         j # (i + k) % INPUT_BUF_SIZE => [g EXCEPT ![(i + k) % INPUT_BUF_SIZE] = c][j] = g[j]
  OBVIOUS
<1>4. \A x \in 1..l : [g EXCEPT ![(i + k) % INPUT_BUF_SIZE] = c][(i + x - 1) % INPUT_BUF_SIZE]
                      = g[(i + x - 1) % INPUT_BUF_SIZE]
  BY <1>1, <1>2, <1>3
<1> QED BY <1>4 DEF Part

\* It comes after them.
LEMMA PartAppend ==
    ASSUME NEW g \in [0..(INPUT_BUF_SIZE - 1) -> Cell], NEW i \in Int, NEW l \in 0..(INPUT_BUF_SIZE - 1),
           NEW c \in Cell
    PROVE  Part([g EXCEPT ![(i + l) % INPUT_BUF_SIZE] = c], i, l + 1) = Append(Part(g, i, l), c)
<1> DEFINE h == [g EXCEPT ![(i + l) % INPUT_BUF_SIZE] = c]
<1>1. h \in [0..(INPUT_BUF_SIZE - 1) -> Cell] /\ h[(i + l) % INPUT_BUF_SIZE] = c
  <2>1. (i + l) % INPUT_BUF_SIZE \in 0..(INPUT_BUF_SIZE - 1)
    <3>1. i + l \in Int
      BY Sizes
    <3> QED BY <3>1, Sizes, DivMod
  <2> QED BY <2>1
<1>2. Part(h, i, l) = Part(g, i, l)
  <2>1. l \in 0..l
    BY Sizes
  <2> QED BY <2>1, PartKeep, Zenon
<1> HIDE DEF h
<1>3. l \in Nat /\ l + 1 \in Nat
  BY Sizes
<1>4. /\ Part(h, i, l) \in Seq(Cell) /\ Len(Part(h, i, l)) = l
      /\ \A x \in 1..l : Part(h, i, l)[x] = h[(i + x - 1) % INPUT_BUF_SIZE]
  BY <1>1, <1>3, PartSeq
<1>5. /\ Part(h, i, l + 1) \in Seq(Cell) /\ Len(Part(h, i, l + 1)) = l + 1
      /\ \A x \in 1..(l + 1) : Part(h, i, l + 1)[x] = h[(i + x - 1) % INPUT_BUF_SIZE]
  BY <1>1, <1>3, PartSeq
<1>6. /\ Append(Part(h, i, l), c) \in Seq(Cell) /\ Len(Append(Part(h, i, l), c)) = l + 1
      /\ \A x \in 1..l : Append(Part(h, i, l), c)[x] = Part(h, i, l)[x]
      /\ Append(Part(h, i, l), c)[l + 1] = c
  BY <1>4, AppendProperties
<1>7. \A x \in 1..(l + 1) : Part(h, i, l + 1)[x] = Append(Part(h, i, l), c)[x]
  <2> SUFFICES ASSUME NEW x \in 1..(l + 1) PROVE Part(h, i, l + 1)[x] = Append(Part(h, i, l), c)[x]
    OBVIOUS
  <2>1. CASE x = l + 1
    <3>1. i + x - 1 = i + l
      BY <1>3, <2>1
    <3> QED BY <1>1, <1>5, <1>6, <2>1, <3>1
  <2>2. CASE x # l + 1
    <3>1. x \in 1..l
      BY <1>3, <2>2
    <3> QED BY <1>4, <1>5, <1>6, <3>1
  <2> QED BY <2>1, <2>2
<1>8. Part(h, i, l + 1) = Append(Part(h, i, l), c)
  BY <1>5, <1>6, <1>7, SeqEqual
<1> QED BY <1>2, <1>8 DEF h

\* Two parts that follow each other are one.
LEMMA PartJoin ==
    ASSUME NEW g \in [0..(INPUT_BUF_SIZE - 1) -> Cell], NEW i \in Int, NEW k \in Nat, NEW l \in Nat
    PROVE  Part(g, i, k + l) = Part(g, i, k) \o Part(g, i + k, l)
<1>1. /\ Part(g, i, k) \in Seq(Cell) /\ Len(Part(g, i, k)) = k
      /\ \A x \in 1..k : Part(g, i, k)[x] = g[(i + x - 1) % INPUT_BUF_SIZE]
  BY PartSeq, Zenon
<1>2. /\ Part(g, i + k, l) \in Seq(Cell) /\ Len(Part(g, i + k, l)) = l
      /\ \A x \in 1..l : Part(g, i + k, l)[x] = g[((i + k) + x - 1) % INPUT_BUF_SIZE]
  <2>1. i + k \in Int
    OBVIOUS
  <2> QED BY <2>1, PartSeq, Zenon
<1>3. /\ Part(g, i, k + l) \in Seq(Cell) /\ Len(Part(g, i, k + l)) = k + l
      /\ \A x \in 1..(k + l) : Part(g, i, k + l)[x] = g[(i + x - 1) % INPUT_BUF_SIZE]
  <2>1. k + l \in Nat
    OBVIOUS
  <2> QED BY <2>1, PartSeq, Zenon
<1>4. \A x \in 1..k : Part(g, i, k + l)[x] = Part(g, i, k)[x]
  BY <1>1, <1>3
<1>5. \A x \in 1..l : Part(g, i, k + l)[k + x] = Part(g, i + k, l)[x]
  <2> SUFFICES ASSUME NEW x \in 1..l PROVE Part(g, i, k + l)[k + x] = Part(g, i + k, l)[x]
    OBVIOUS
  <2>1. k + x \in 1..(k + l) /\ i + (k + x) - 1 = (i + k) + x - 1
    OBVIOUS
  <2> QED BY <1>2, <1>3, <2>1
<1>6. /\ Len(Part(g, i, k + l)) = Len(Part(g, i, k)) + Len(Part(g, i + k, l))
      /\ \A x \in 1..Len(Part(g, i, k)) : Part(g, i, k + l)[x] = Part(g, i, k)[x]
      /\ \A x \in 1..Len(Part(g, i + k, l)) :
            Part(g, i, k + l)[Len(Part(g, i, k)) + x] = Part(g, i + k, l)[x]
  BY <1>1, <1>2, <1>3, <1>4, <1>5
<1> QED BY <1>1, <1>2, <1>3, <1>6, SplitSequence, Zenon

-----------------------------------------------------------------------------
(* The console: what its steps do to the queue. *)

\* The buffer as a queue: KeysHeld characters from cons.r on are complete lines,
\* KeysTyped after them the line that is being typed.
LEMMA QueueNow ==
    ASSUME ConsoleInv
    PROVE  /\ r \in Int /\ KeysHeld \in Nat /\ KeysTyped \in Nat /\ KeysHeld + KeysTyped <= INPUT_BUF_SIZE
           /\ r % IdxMod = r /\ w = (r + KeysHeld) % IdxMod /\ e = (r + KeysHeld + KeysTyped) % IdxMod
           /\ r = w <=> KeysHeld = 0
           /\ w = e <=> KeysTyped = 0
           /\ Held = KeysHeld + KeysTyped
           /\ Slice(r, w) = Part(buf, r, KeysHeld)
           /\ Slice(w, e) = Part(buf, r + KeysHeld, KeysTyped)
<1>1. r \in 0..(IdxMod - 1) /\ w \in 0..(IdxMod - 1) /\ e \in 0..(IdxMod - 1)
  BY DEF ConsoleInv, ConsoleTypeOK
<1>2. /\ KeysHeld \in Nat /\ (r + KeysHeld) % IdxMod = w /\ r % IdxMod = r
      /\ KeysHeld = 0 <=> r = w
  BY <1>1, Unwrapped DEF KeysHeld
<1>3. /\ KeysTyped \in Nat /\ (w + KeysTyped) % IdxMod = e
      /\ KeysTyped = 0 <=> w = e
  BY <1>1, Unwrapped DEF KeysTyped
<1>4. KeysHeld + KeysTyped <= INPUT_BUF_SIZE
  BY DEF ConsoleInv, RoomInv
<1>5. PICK k \in Nat : k = KeysHeld
  BY <1>2
<1>6. PICK l \in Nat : l = KeysTyped
  BY <1>3
<1>7. /\ r \in Int /\ k + l \in 0..INPUT_BUF_SIZE /\ k \in 0..INPUT_BUF_SIZE /\ l \in 0..INPUT_BUF_SIZE
      /\ r + k \in Int /\ r + (k + l) = r + k + l
  BY <1>1, <1>4, <1>5, <1>6, Sizes
<1>8. (r + k + l) % IdxMod = e
  <2>1. Add((r + k) % IdxMod, l) = (r + k + l) % IdxMod
    <3>1. l \in Int
      BY <1>6
    <3> QED BY <1>7, <3>1, Indices, Zenon
  <2> QED BY <2>1, <1>2, <1>3, <1>5, <1>6 DEF Add
<1>9. Held = k + l
  <2>1. (((r + (k + l)) % IdxMod) - (r % IdxMod)) % IdxMod = k + l
    BY <1>7, Apart, Zenon
  <2> QED BY <2>1, <1>2, <1>7, <1>8 DEF Held
<1>10. Slice(r, w) = Part(buf, r, k)
  <2>1. Slice(r % IdxMod, (r + k) % IdxMod) = Part(buf, r, k)
    BY <1>7, SliceIs, Zenon
  <2> QED BY <2>1, <1>2, <1>5
<1>11. Slice(w, e) = Part(buf, r + k, l)
  <2>1. Slice((r + k) % IdxMod, (r + k + l) % IdxMod) = Part(buf, r + k, l)
    BY <1>7, SliceIs, Zenon
  <2> QED BY <2>1, <1>2, <1>5, <1>8
<1> QED BY <1>2, <1>3, <1>4, <1>5, <1>6, <1>7, <1>8, <1>9, <1>10, <1>11

\* The same after a step.
LEMMA QueueNext ==
    ASSUME NEW i \in Int, NEW k \in Nat, NEW l \in Nat, k + l <= INPUT_BUF_SIZE,
           r' = i % IdxMod, w' = (i + k) % IdxMod, e' = (i + k + l) % IdxMod
    PROVE  /\ r' \in 0..(IdxMod - 1) /\ w' \in 0..(IdxMod - 1) /\ e' \in 0..(IdxMod - 1)
           /\ RoomInv'
           /\ Slice(r, w)' = Part(buf', i, k)
           /\ Slice(w, e)' = Part(buf', i + k, l)
<1>1. i + k \in Int /\ i + k + l \in Int /\ k \in 0..INPUT_BUF_SIZE /\ l \in 0..INPUT_BUF_SIZE
  BY Sizes
<1>2. /\ i % IdxMod \in 0..(IdxMod - 1) /\ (i + k) % IdxMod \in 0..(IdxMod - 1)
      /\ (i + k + l) % IdxMod \in 0..(IdxMod - 1)
  BY <1>1, Sizes, DivMod
<1>3. (((i + k) % IdxMod) - (i % IdxMod)) % IdxMod = k
  BY <1>1, Apart, Zenon
<1>4. (((i + k + l) % IdxMod) - ((i + k) % IdxMod)) % IdxMod = l
  BY <1>1, Apart, Zenon
<1>5. RoomInv'
  BY <1>3, <1>4 DEF RoomInv, KeysHeld, KeysTyped
<1>6. Slice(r, w)' = Part(buf', i, k)
  BY <1>1, SliceIs, Zenon
<1>7. Slice(w, e)' = Part(buf', i + k, l)
  BY <1>1, SliceIs, Zenon
<1> QED BY <1>2, <1>5, <1>6, <1>7

QueueVars == <<Slice(r, w), Slice(w, e)>>

\* What a step has to keep of the buffer and to do to the queue.
QueueStep ==
    /\ r' \in 0..(IdxMod - 1) /\ w' \in 0..(IdxMod - 1) /\ e' \in 0..(IdxMod - 1)
    /\ BufType' /\ RoomInv' /\ [Queue!Next]_QueueVars

\* A step that leaves the buffer alone.
LEMMA QueueFrame ==
    ASSUME ConsoleInv, UNCHANGED inVars, rx' \in Cell
    PROVE  QueueStep
<1>1. UNCHANGED <<buf, r, w, e>>
  BY DEF inVars
<1>2. RoomInv' /\ BufType'
  BY <1>1 DEF ConsoleInv, RoomInv, KeysHeld, KeysTyped, BufType
<1>3. UNCHANGED QueueVars
  BY <1>1 DEF QueueVars, Slice
<1> QED BY <1>1, <1>2, <1>3 DEF QueueStep, ConsoleInv, ConsoleTypeOK

\* consoleread() takes the first character that is ready, or leaves an end of file.
LEMMA ReadCharStep ==
    ASSUME ConsoleInv, NEW p \in Readers, ReadChar(p)
    PROVE  QueueStep
<1>1. r # w /\ UNCHANGED <<buf, w, e, rx>> /\ (r' = r \/ r' = Add(r, 1))
  BY DEF ReadChar, uartVars
<1>2. CASE r' = r
  BY <1>1, <1>2, QueueFrame DEF inVars, ConsoleInv, BufType
<1>3. CASE r' = Add(r, 1)
  <2>1. PICK k \in Nat, l \in Nat : k = KeysHeld /\ l = KeysTyped
    BY QueueNow
  <2>2. k # 0 /\ k + l <= INPUT_BUF_SIZE /\ r \in Int
    BY <1>1, <2>1, QueueNow
  <2>3. /\ r + 1 \in Int /\ k - 1 \in Nat /\ (k - 1) + l <= INPUT_BUF_SIZE
        /\ (r + 1) + (k - 1) = r + k /\ (r + 1) + (k - 1) + l = r + k + l
    BY <2>1, <2>2, Sizes
  <2>4. /\ r' = (r + 1) % IdxMod /\ w' = ((r + 1) + (k - 1)) % IdxMod
        /\ e' = ((r + 1) + (k - 1) + l) % IdxMod
    <3>1. w = (r + k) % IdxMod /\ e = (r + k + l) % IdxMod
      BY <2>1, QueueNow
    <3> QED BY <1>1, <1>3, <2>3, <3>1 DEF Add
  <2>5. /\ r' \in 0..(IdxMod - 1) /\ w' \in 0..(IdxMod - 1) /\ e' \in 0..(IdxMod - 1)
        /\ RoomInv'
        /\ Slice(r, w)' = Part(buf', r + 1, k - 1)
        /\ Slice(w, e)' = Part(buf', (r + 1) + (k - 1), l)
    <3>1. PICK i \in Int, j \in Nat : i = r + 1 /\ j = k - 1
      BY <2>3
    <3>2. /\ j + l <= INPUT_BUF_SIZE /\ r' = i % IdxMod /\ w' = (i + j) % IdxMod
          /\ e' = (i + j + l) % IdxMod
      BY <2>3, <2>4, <3>1
    <3>3. /\ r' \in 0..(IdxMod - 1) /\ w' \in 0..(IdxMod - 1) /\ e' \in 0..(IdxMod - 1)
          /\ RoomInv' /\ Slice(r, w)' = Part(buf', i, j) /\ Slice(w, e)' = Part(buf', i + j, l)
      BY <2>1, <3>2, QueueNext, Zenon
    <3> QED BY <3>1, <3>3
  <2>6. Slice(r, w) = Part(buf, r, k) /\ Slice(w, e) = Part(buf, r + k, l)
    BY <2>1, QueueNow
  <2>7. Part(buf, r + 1, k - 1) = Tail(Part(buf, r, k)) /\ Part(buf, r, k) # <<>>
    <3>1. buf \in [0..(INPUT_BUF_SIZE - 1) -> Cell] /\ k \in Nat \ {0}
      BY <2>2 DEF ConsoleInv, BufType
    <3> QED BY <2>2, <3>1, PartTail, Zenon
  <2>8. Slice(r, w) # <<>> /\ Slice(r, w)' = Tail(Slice(r, w)) /\ Slice(w, e)' = Slice(w, e)
    BY <1>1, <2>3, <2>5, <2>6, <2>7
  <2>9. Queue!Take
    BY <2>8 DEF Queue!Take
  <2>10. BufType'
    BY <1>1 DEF ConsoleInv, BufType
  <2> QED BY <2>5, <2>9, <2>10 DEF QueueStep, Queue!Next
<1> QED BY <1>1, <1>2, <1>3

\* The default case of consoleintr().
LEMMA StoreStep ==
    ASSUME ConsoleInv, NEW c \in Chars \cup Ends, Store(c), r' = r, rx' \in Cell
    PROVE  QueueStep
<1>1. PICK k \in Nat, l \in Nat : k = KeysHeld /\ l = KeysTyped
  BY QueueNow
<1>2. /\ r \in Int /\ k + l <= INPUT_BUF_SIZE /\ Held = k + l /\ r % IdxMod = r
      /\ w = (r + k) % IdxMod /\ e = (r + k + l) % IdxMod
      /\ Slice(r, w) = Part(buf, r, k) /\ Slice(w, e) = Part(buf, r + k, l)
  BY <1>1, QueueNow
<1>3. buf \in [0..(INPUT_BUF_SIZE - 1) -> Cell] /\ c \in Cell
  BY DEF ConsoleInv, BufType, Cell, Keys
<1>4. CASE ~(k + l < INPUT_BUF_SIZE)
  <2>1. UNCHANGED <<buf, w, e>>
    BY <1>2, <1>4 DEF Store
  <2> QED BY <2>1, QueueFrame DEF inVars
<1>5. CASE k + l < INPUT_BUF_SIZE
  <2>1. /\ buf' = [buf EXCEPT ![e % INPUT_BUF_SIZE] = c] /\ e' = Add(e, 1)
        /\ IF c \in Ends \/ k + l + 1 = INPUT_BUF_SIZE THEN w' = Add(e, 1) ELSE w' = w
    BY <1>2, <1>5 DEF Store
  <2>2. /\ r + k \in Int /\ r + k + l \in Int /\ l \in 0..(INPUT_BUF_SIZE - 1)
        /\ k \in 0..(INPUT_BUF_SIZE - 1) /\ k + l \in 0..(INPUT_BUF_SIZE - 1)
        /\ k \in 0..(k + l) /\ r + (k + l) = r + k + l /\ r + k + l + 1 = r + k + (l + 1)
        /\ l + 1 \in Nat /\ k + (l + 1) \in Nat /\ r + (k + (l + 1)) = r + k + (l + 1)
        /\ k + (l + 1) <= INPUT_BUF_SIZE
    BY <1>2, <1>5, Sizes
  <2>3. e' = (r + k + (l + 1)) % IdxMod /\ e % INPUT_BUF_SIZE = (r + k + l) % INPUT_BUF_SIZE
    <3>1. Add((r + k + l) % IdxMod, 1) = (r + k + l + 1) % IdxMod
      BY <2>2, Indices
    <3>2. ((r + k + l) % IdxMod) % INPUT_BUF_SIZE = (r + k + l) % INPUT_BUF_SIZE
      BY <2>2, Indices
    <3> QED BY <1>2, <2>1, <2>2, <3>1, <3>2
  <2>4. buf' = [buf EXCEPT ![(r + k + l) % INPUT_BUF_SIZE] = c]
    BY <2>1, <2>3
  <2>5. Part(buf', r + k, l + 1) = Append(Part(buf, r + k, l), c)
    BY <1>3, <2>2, <2>4, PartAppend, Zenon
  <2>6. Part(buf', r, k) = Part(buf, r, k)
    <3>1. Part([buf EXCEPT ![(r + (k + l)) % INPUT_BUF_SIZE] = c], r, k) = Part(buf, r, k)
      BY <1>2, <1>3, <2>2, PartKeep, Zenon
    <3> QED BY <2>2, <2>4, <3>1
  <2>7. BufType'
    <3>1. buf' \in [0..(INPUT_BUF_SIZE - 1) -> Cell]
      BY <1>3, <2>1
    <3> QED BY <3>1 DEF BufType
  <2>8. Len(Slice(r, w)) = k /\ Len(Slice(w, e)) = l
    <3>1. Len(Part(buf, r, k)) = k
      BY <1>2, <1>3, PartSeq, Zenon
    <3>2. Len(Part(buf, r + k, l)) = l
      BY <1>3, <2>2, PartSeq, Zenon
    <3> QED BY <1>2, <3>1, <3>2
  <2>9. CASE c \in Ends \/ k + l + 1 = INPUT_BUF_SIZE
    <3>1. /\ r' = r % IdxMod /\ w' = (r + (k + (l + 1))) % IdxMod
          /\ e' = (r + (k + (l + 1)) + 0) % IdxMod
      <4>1. r + (k + (l + 1)) + 0 = r + k + (l + 1)
        BY <1>2, <2>2
      <4> QED BY <1>2, <2>1, <2>2, <2>3, <2>9, <4>1
    <3>2. k + (l + 1) + 0 <= INPUT_BUF_SIZE /\ 0 \in Nat
      BY <2>2
    <3>3. /\ r' \in 0..(IdxMod - 1) /\ w' \in 0..(IdxMod - 1) /\ e' \in 0..(IdxMod - 1)
          /\ RoomInv'
          /\ Slice(r, w)' = Part(buf', r, k + (l + 1))
          /\ Slice(w, e)' = Part(buf', r + (k + (l + 1)), 0)
      BY <1>2, <2>2, <3>1, <3>2, QueueNext, Zenon
    <3>4. Part(buf', r, k + (l + 1)) = Part(buf', r, k) \o Part(buf', r + k, l + 1)
      <4>1. buf' \in [0..(INPUT_BUF_SIZE - 1) -> Cell]
        BY <2>7 DEF BufType
      <4> QED BY <1>2, <2>2, <4>1, PartJoin, Zenon
    <3>5. Slice(r, w)' = Slice(r, w) \o Append(Slice(w, e), c)
      BY <1>2, <2>5, <2>6, <3>3, <3>4
    <3>6. Slice(w, e)' = <<>>
      <4>1. 1..0 = {}
        OBVIOUS
      <4>2. Part(buf', r + (k + (l + 1)), 0) = <<>>
        BY <4>1 DEF Part
      <4> QED BY <3>3, <4>2
    <3>7. Queue!Finish(c)
      BY <1>5, <2>8, <2>9, <3>5, <3>6 DEF Queue!Finish, Queue!Room
    <3> QED BY <2>7, <3>3, <3>7 DEF QueueStep, Queue!Next
  <2>10. CASE ~(c \in Ends \/ k + l + 1 = INPUT_BUF_SIZE)
    <3>1. r' = r % IdxMod /\ w' = (r + k) % IdxMod
      BY <1>2, <2>1, <2>10
    <3>2. /\ r' \in 0..(IdxMod - 1) /\ w' \in 0..(IdxMod - 1) /\ e' \in 0..(IdxMod - 1)
          /\ RoomInv'
          /\ Slice(r, w)' = Part(buf', r, k)
          /\ Slice(w, e)' = Part(buf', r + k, l + 1)
      BY <1>2, <2>2, <2>3, <3>1, QueueNext, Zenon
    <3>3. Slice(r, w)' = Slice(r, w) /\ Slice(w, e)' = Append(Slice(w, e), c)
      BY <1>2, <2>5, <2>6, <3>2
    <3>4. c \in Chars /\ k + l + 1 < INPUT_BUF_SIZE
      BY <1>5, <2>10, Sizes
    <3>5. Queue!Type(c)
      BY <2>8, <3>3, <3>4 DEF Queue!Type
    <3> QED BY <2>7, <3>2, <3>5 DEF QueueStep, Queue!Next
  <2> QED BY <2>9, <2>10
<1> QED BY <1>4, <1>5

\* Backspace takes the last character of the line that is being typed.
LEMMA EraseStep ==
    ASSUME ConsoleInv, EraseTo(Add(e, -1)), r' = r, rx' \in Cell
    PROVE  QueueStep
<1>1. CASE e = w
  <2>1. UNCHANGED <<buf, w, e>>
    BY <1>1 DEF EraseTo
  <2> QED BY <2>1, QueueFrame DEF inVars
<1>2. CASE e # w
  <2>1. UNCHANGED <<buf, w>> /\ e' = Add(e, -1)
    BY <1>2 DEF EraseTo
  <2>2. PICK k \in Nat, l \in Nat : k = KeysHeld /\ l = KeysTyped
    BY QueueNow
  <2>3. /\ r \in Int /\ k + l <= INPUT_BUF_SIZE /\ l # 0 /\ r % IdxMod = r
        /\ w = (r + k) % IdxMod /\ e = (r + k + l) % IdxMod
        /\ Slice(r, w) = Part(buf, r, k) /\ Slice(w, e) = Part(buf, r + k, l)
    BY <1>2, <2>2, QueueNow
  <2>4. /\ r + k \in Int /\ r + k + l \in Int /\ l \in Nat \ {0} /\ l - 1 \in Nat
        /\ k + (l - 1) <= INPUT_BUF_SIZE /\ (r + k + l) + (-1) = r + k + (l - 1) /\ -1 \in Int
    BY <2>3, Sizes
  <2>5. e' = (r + k + (l - 1)) % IdxMod
    <3>1. Add((r + k + l) % IdxMod, -1) = ((r + k + l) + (-1)) % IdxMod
      BY <2>4, Indices
    <3> QED BY <2>1, <2>3, <2>4, <3>1
  <2>6. /\ r' \in 0..(IdxMod - 1) /\ w' \in 0..(IdxMod - 1) /\ e' \in 0..(IdxMod - 1)
        /\ RoomInv'
        /\ Slice(r, w)' = Part(buf', r, k)
        /\ Slice(w, e)' = Part(buf', r + k, l - 1)
    <3>1. r' = r % IdxMod /\ w' = (r + k) % IdxMod
      BY <2>1, <2>3
    <3> QED BY <2>3, <2>4, <2>5, <3>1, QueueNext, Zenon
  <2>7. buf \in [0..(INPUT_BUF_SIZE - 1) -> Cell]
    BY DEF ConsoleInv, BufType
  <2>8. Part(buf, r + k, l - 1) = SubSeq(Part(buf, r + k, l), 1, l - 1)
    BY <2>4, <2>7, PartFront, Zenon
  <2>9. Len(Part(buf, r + k, l)) = l /\ Part(buf, r + k, l) # <<>>
    <3>1. Len(Part(buf, r + k, l)) = l
      BY <2>4, <2>7, PartSeq, Zenon
    <3> QED BY <2>3, <3>1
  <2>10. Queue!Erase
    BY <2>1, <2>3, <2>6, <2>8, <2>9 DEF Queue!Erase
  <2>11. BufType'
    BY <2>1, <2>7 DEF BufType
  <2> QED BY <2>6, <2>10, <2>11 DEF QueueStep, Queue!Next
<1> QED BY <1>1, <1>2

\* Kill line takes all of it.
LEMMA EraseLineStep ==
    ASSUME ConsoleInv, EraseTo(w), r' = r, rx' \in Cell
    PROVE  QueueStep
<1>1. UNCHANGED <<buf, w>> /\ e' = w
  BY DEF EraseTo
<1>2. PICK k \in Nat : k = KeysHeld
  BY QueueNow
<1>3. r \in Int /\ r % IdxMod = r /\ w = (r + k) % IdxMod /\ Slice(r, w) = Part(buf, r, k)
  BY <1>2, QueueNow
<1>4. k + 0 <= INPUT_BUF_SIZE /\ r + k + 0 = r + k /\ 0 \in Nat
  <2>1. KeysTyped \in Nat /\ KeysHeld + KeysTyped <= INPUT_BUF_SIZE
    BY QueueNow
  <2> QED BY <1>2, <1>3, <2>1, Sizes
<1>5. /\ r' \in 0..(IdxMod - 1) /\ w' \in 0..(IdxMod - 1) /\ e' \in 0..(IdxMod - 1)
      /\ RoomInv'
      /\ Slice(r, w)' = Part(buf', r, k)
      /\ Slice(w, e)' = Part(buf', r + k, 0)
  <2>1. r' = r % IdxMod /\ w' = (r + k) % IdxMod /\ e' = (r + k + 0) % IdxMod
    BY <1>1, <1>3, <1>4
  <2> QED BY <1>3, <1>4, <2>1, QueueNext, Zenon
<1>6. Part(buf', r + k, 0) = <<>>
  <2>1. 1..0 = {}
    OBVIOUS
  <2> QED BY <2>1 DEF Part
<1>7. Queue!EraseLine
  BY <1>1, <1>3, <1>5, <1>6 DEF Queue!EraseLine
<1>8. BufType'
  BY <1>1 DEF ConsoleInv, BufType
<1> QED BY <1>5, <1>7, <1>8 DEF QueueStep, Queue!Next

-----------------------------------------------------------------------------
(* The console: its steps. *)

\* What a step has to keep of the rest.
RestStep ==
    /\ conslock' \in Readers \cup {Nobody}
    /\ rpc' \in [Readers -> {"idle", "loop", "asleep", "woken"}]
    /\ wpc' \in [Writers -> {"idle", "put", "asleep", "woken"}]
    /\ tx' \in 0..UART_TX_BUF_SIZE
    /\ WakeInv'

LEMMA ReadRest ==
    ASSUME ConsoleInv, NEW p \in Readers,
           \/ ReadWoken(p) \/ ReadWait(p) \/ ReadChar(p) \/ KillReader(p)
           \/ \E k \in Counts : Read(p, k)
    PROVE  RestStep
<1> USE DEF ConsoleInv, ConsoleTypeOK, WakeInv, RestStep, writeVars, uartVars
<1>1. CASE ReadWoken(p) \/ KillReader(p) \/ \E k \in Counts : Read(p, k)
  BY <1>1 DEF ReadWoken, KillReader, Read, inVars
<1>2. CASE ReadWait(p)
  BY <1>2 DEF ReadWait, ReadReturn, inVars
<1>3. CASE ReadChar(p)
  BY <1>3 DEF ReadChar, ReadReturn
<1> QED BY <1>1, <1>2, <1>3

LEMMA WriteRest ==
    ASSUME ConsoleInv, NEW p \in Writers, Write(p) \/ WriteFault(p) \/ Uartputc(p) \/ KillWriter(p)
    PROVE  RestStep
<1> USE Sizes DEF ConsoleInv, ConsoleTypeOK, WakeInv, RestStep, inVars, readVars
<1>1. CASE Write(p) \/ WriteFault(p) \/ KillWriter(p)
  BY <1>1 DEF Write, WriteFault, KillWriter, uartVars
<1>2. CASE Uartputc(p)
  BY <1>2 DEF Uartputc, UartStart
<1> QED BY <1>1, <1>2

LEMMA DriverRest ==
    ASSUME ConsoleInv, IntrEnter \/ ConsoleIntr \/ IntrSend \/ Sent \/ \E c \in Keys : Type(c)
    PROVE  RestStep
<1> USE Sizes DEF ConsoleInv, ConsoleTypeOK, WakeInv, RestStep, writeVars
<1>1. CASE IntrEnter \/ Sent \/ \E c \in Keys : Type(c)
  BY <1>1 DEF IntrEnter, Sent, Type, inVars, readVars
<1>2. CASE IntrSend
  BY <1>2 DEF IntrSend, UartStart, inVars, readVars
<1>3. CASE ConsoleIntr
  BY <1>3 DEF ConsoleIntr, EraseTo, Store, Echo, WakeConsole
<1> QED BY <1>1, <1>2, <1>3

\* consoleintr() handles one key.
LEMMA ConsoleIntrStep == ConsoleInv /\ ConsoleIntr => QueueStep
<1> SUFFICES ASSUME ConsoleInv, ConsoleIntr PROVE QueueStep
  OBVIOUS
<1>1. rx \in Keys /\ r' = r /\ rx' \in Cell
  BY DEF ConsoleIntr, ConsoleInv, BufType, Cell
<1>2. \/ EraseTo(Add(e, -1))
      \/ EraseTo(w)
      \/ rx # "erase" /\ rx # "eraseLine" /\ Store(rx)
  BY DEF ConsoleIntr
<1>3. CASE rx # "erase" /\ rx # "eraseLine" /\ Store(rx)
  <2>1. rx \in Chars \cup Ends
    BY <1>1, <1>3 DEF Keys
  <2> QED BY <1>1, <1>3, <2>1, StoreStep, Zenon
<1> QED BY <1>1, <1>2, <1>3, EraseStep, EraseLineStep, Zenon

\* Every step is one of the queue, or none.
LEMMA ConsoleStep == ConsoleInv /\ [ConsoleNext]_consoleVars => QueueStep /\ RestStep
<1> SUFFICES ASSUME ConsoleInv, [ConsoleNext]_consoleVars PROVE QueueStep /\ RestStep
  OBVIOUS
<1>1. rx \in Cell /\ NoKey \in Cell /\ Keys \subseteq Cell
  BY DEF ConsoleInv, BufType, Cell
<1>2. CASE UNCHANGED consoleVars
  <2>1. UNCHANGED inVars /\ rx' = rx /\ UNCHANGED <<conslock, rpc, wpc, tx, thr, irq, handler>>
    BY <1>2 DEF consoleVars, readVars, writeVars, uartVars
  <2>2. RestStep
    BY <2>1 DEF ConsoleInv, ConsoleTypeOK, WakeInv, RestStep, inVars
  <2> QED BY <1>1, <2>1, <2>2, QueueFrame
<1>3. ASSUME NEW p \in Readers,
             \/ ReadWoken(p) \/ ReadWait(p) \/ ReadChar(p) \/ KillReader(p)
             \/ \E k \in Counts : Read(p, k)
      PROVE  QueueStep /\ RestStep
  <2>1. ReadChar(p) \/ (UNCHANGED inVars /\ rx' = rx)
    BY <1>3 DEF ReadWoken, ReadWait, KillReader, Read, uartVars
  <2> QED BY <1>1, <1>3, <2>1, ReadRest, ReadCharStep, QueueFrame, Zenon
<1>4. ASSUME NEW p \in Writers, Write(p) \/ WriteFault(p) \/ Uartputc(p) \/ KillWriter(p)
      PROVE  QueueStep /\ RestStep
  <2>1. UNCHANGED inVars /\ rx' = rx
    BY <1>4 DEF Write, WriteFault, Uartputc, KillWriter, uartVars
  <2> QED BY <1>1, <1>4, <2>1, WriteRest, QueueFrame, Zenon
<1>5. ASSUME IntrEnter \/ ConsoleIntr \/ IntrSend \/ Sent \/ \E c \in Keys : Type(c)
      PROVE  QueueStep /\ RestStep
  <2>1. ConsoleIntr \/ (UNCHANGED inVars /\ rx' \in Cell)
    BY <1>1, <1>5 DEF IntrEnter, IntrSend, Sent, Type
  <2> QED BY <1>5, <2>1, DriverRest, ConsoleIntrStep, QueueFrame, Zenon
<1> QED BY <1>2, <1>3, <1>4, <1>5 DEF ConsoleNext

LEMMA ConsoleInitInv == ConsoleInit => ConsoleInv /\ Queue!Init
<1> SUFFICES ASSUME ConsoleInit PROVE ConsoleInv /\ Queue!Init
  OBVIOUS
<1>1. 0 \in 0..(IdxMod - 1) /\ 0 \in 0..UART_TX_BUF_SIZE
  BY Sizes
<1>2. 0 % IdxMod = 0 /\ 0 - 0 = 0
  BY <1>1, Sizes, ModSmall
<1>3. ConsoleTypeOK /\ WakeInv
  BY <1>1 DEF ConsoleInit, ConsoleTypeOK, WakeInv
<1>4. BufType
  BY DEF ConsoleInit, BufType, Cell
<1>5. RoomInv
  BY <1>2, Sizes DEF ConsoleInit, RoomInv, KeysHeld, KeysTyped
<1>6. Slice(r, w) = <<>> /\ Slice(w, e) = <<>>
  <2>1. 1..0 = {}
    OBVIOUS
  <2> QED BY <1>2, <2>1 DEF ConsoleInit, Slice
<1> QED BY <1>3, <1>4, <1>5, <1>6 DEF ConsoleInv, Queue!Init

-----------------------------------------------------------------------------
(* The theorems about the console. *)

\* The invariant of kernel/console.c and kernel/uart.c: the indices never hold more
\* than the buffer does, and nobody sleeps beside what he waits for.
THEOREM ConsoleInvariant == ConsoleSpec => []ConsoleInv
<1>1. ConsoleInv /\ [ConsoleNext]_consoleVars => ConsoleInv'
  BY ConsoleStep DEF QueueStep, RestStep, ConsoleInv, ConsoleTypeOK
<1> QED BY <1>1, ConsoleInitInv, PTL DEF ConsoleSpec

\* No wakeup is lost: a reader sleeps only while there is no complete line, a writer
\* only while the output buffer is full, and output waits only for the register or
\* for an interrupt that is on its way.
THEOREM ConsoleNeverForgets == ConsoleSpec => []ConsoleSleepers
<1>1. ConsoleInv => ConsoleSleepers
  BY DEF ConsoleInv, WakeInv, ConsoleSleepers
<1> QED BY <1>1, ConsoleInvariant, PTL

\* The input buffer is a LineQueue, for buffers of any size and indices that wrap at
\* any multiple of it: what is typed and not erased is read once and in order.
THEOREM ConsoleIsQueue == ConsoleSpec => InputIsQueue
<1>1. ConsoleInv /\ [ConsoleNext]_consoleVars => [Queue!Next]_QueueVars
  BY ConsoleStep DEF QueueStep
<1>2. ConsoleInit => Queue!Init
  BY ConsoleInitInv
<1> QED BY <1>1, <1>2, ConsoleInvariant, PTL DEF ConsoleSpec, InputIsQueue, Queue!Spec, QueueVars
=============================================================================
